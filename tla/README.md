# Orion Exchange in TLA+

A verification project for the contracts of the Orion Exchange
(`src/contracts`): TLA+ modules that model them, configurations for TLC, and
proofs for TLAPS. It is written from the Solidity source; where the text of the
repository and the source disagree, the source is modelled and the disagreement
is a run of its own (see *Disagreements*).

## 1. The system

The exchange holds the tokens of its users and settles orders that users sign
off-chain and a matcher submits in pairs, or fills against a constant-product
pool. A trade is paid from balances on the exchange, from the user's wallet
through an ERC20 allowance, or on credit: a balance may go below zero if the
user has locked a stake of ORN and has enough collateral at the oracle's prices.
Positions that become negative or stay open too long are liquidated by other
users.

| component | source | state | operations | what makes it correct |
|---|---|---|---|---|
| Exchange | `Exchange.sol` | (inherited) | deposits, `withdraw`, `fillOrders`, `partiallyLiquidate`, owner's settings | custody covers balances; no order takes more than its terms; new risk is covered |
| ExchangeStorage | `ExchangeStorage.sol` | balances, liabilities, fills, collateral, risks, delays | - | the list of liabilities is the set of debts |
| OrionVault | `OrionVault.sol` | stake, phase and time per user | `lockStake`, `requestReleaseStake`, owner's freeze and release, `seizeFromStake` | no stake leaves while its owner has debts; a release that was granted ends |
| MarginalFunctionality | `libs/MarginalFunctionality.sol` | - (works on the storage above) | position, list of liabilities, liquidation | clocks of debts follow the covers; liquidation improves the position |
| LibValidator | `libs/LibValidator.sol` | - | signature and terms of orders | only signed, matching, live orders are filled |
| LibUnitConverter | `libs/LibUnitConverter.sol` | - | base units to 8 decimals and back | rounding loses bounded dust |
| SafeTransferHelper | `libs/SafeTransferHelper.sol` | - | transfers of tokens and ether | - |
| PriceOracle | `PriceOracle.sol` | prices with timestamps, aggregators, authorisations | feeds, ChainLink reads, owner's lists | no old price replaces a newer one or looks fresh |
| ExchangeWithOrionPool | `ExchangeWithOrionPool.sol` | router, WETH | fills and swaps through the pool | limit price honoured, custody covered, a fill counted under one hash |
| PoolFunctionality | `libs/PoolFunctionality.sol` | factory, WETH | chain of swaps along a path | what is spent and received is what is reported |
| OrionPoolV2 | `utils/orionpool/**` | reserves, liquidity | mint, burn, swap, skim, sync; library; routers | shares keep their value; quotes are what pairs accept |
| migrations | `migrations/*.js`, `Migrations.sol` | last file completed; addresses and links on disk | files 1-9, per network | the published exchange is configured, whenever a run dies |
| tests | `hardhat-tests/*.js` | - | - | the model gives what they expect |
| ReentrancyGuard, Ownable, Initializable, Context | `utils/*.sol` | lock, owner, flags | - | - |
| tokens, stubs | `tokens/*.sol` | balances, allowances | ERC20 | - |

How they interact: `ExchangeWithOrionPool` inherits `Exchange`, which inherits
`OrionVault`, which inherits `ExchangeStorage`; the libraries run on the
exchange's storage by delegate call. The exchange reads the oracle by calls and
moves tokens by calls; `PoolFunctionality` calls the exchange back to have the
first pair of a path paid. The matcher, the owner, liquidators, price providers,
liquidity providers and users only meet in the storage, in an order nobody
controls. A transaction is atomic, so that what is hard is the *order of
transactions* and the order of the steps *within* one:

- one fill runs four debits and credits on the balances of up to three users,
  who may be the same user, each through the same branching `_updateBalance`;
- the wallet and the allowance change between the signing of an order and its
  fill, and decide whether a fill is paid or borrowed; so do the reserves of a
  pair;
- a fill through the pool pays out of custody first and debits the balance
  after, and survives a swap that fails;
- the list of liabilities is maintained incrementally on many paths, with a
  removal by swap and a search that trusts the list;
- the clock and the outstanding amount of a debt depend on the order of covers;
- releasing a stake takes a day in which everything else goes on, and the owner
  may freeze or free it at any moment;
- prices go out of date; feeds and ChainLink rounds arrive late or out of order;
- integer divisions and conversions between decimals round;
- a swap pays its receiver and calls it back before it is paid itself;
- a migration is many transactions, and the process that sends them may die
  between any two of them and be started again.

`PROJECT.json` lists these hazards at their lines with the properties that would
catch them.

## 2. Modules

    PriceOracleInterface   prices and block time, as the exchange sees them
      LibUnitConverter     conversions between decimals
      ExchangeStorage      state of the exchange, tokens in custody and in wallets
        OrionVault         stakes
          MarginalFunctionality    positions, debts, liquidation
            Exchange (with LibValidator)   deposits, withdrawals, fills, owner; Spec
              ExchangeProperties      what the exchange promises
                StakeRelease          life of a stake: refinement, liveness (INSTANCE StakeLifecycle)
                  MCExchange          instances for TLC
              LedgerProofs, ExchangeProofs   theorems, with StakeRelease
              ExchangeWithOrionPool (with OrionPoolV2Library)   fills and swaps; PoolSpec
                ExchangeWithOrionPoolProperties, MCPool
                  PoolProofs (on ExchangeProofs), RiskProofs, CustodyProofs, ConsentProofs
                HardhatTests          the tests as a specification; TestSpec
                  DeployFixture, TradeTests, MarginTests, PoolFillTests, PoolSwapTests
                    TestSuites      all of them in one instance
      PriceOracle          the oracle contract; PriceOracleSpec
        PriceOracleProperties, MCPriceOracle, PriceOracleProofs
    OrionPoolV2Library     quotes of the pool
      OrionPoolV2Pair      one pair; PairSpec
        OrionPoolV2PairProperties, MCPair, PairProofs
    StakeLifecycle         abstract life of a stake
    Deployment             the migrations; DeploymentProperties

**PriceOracleInterface** has the two variables the exchange reads, `assetPrices`
and `now` (`block.timestamp`), the effect of a provider's feed (`ProvideData`),
and `OracleSpec`: the abstract oracle, whose prices change only to later stamps
that are less than `FutureSlack` (60 s) ahead of the block.

**ExchangeStorage** declares the storage (`assetBalances`, `liabilities`,
`filledAmounts`, `settings`, `assetRisks`) and, as environment, `wallet`,
`allowance` and `held` in base units: the ERC20 balance of each user, what the
user has approved to the exchange, and the ERC20 or ether balance of the
contract.

**OrionVault** has one action per external function; `requestReleaseStake` has
two effects and is two disjuncts, `StartRelease` and `CollectStake`.
`getStakePhase` computes RELEASING to READYTORELEASE from the time, as the code
does.

**StakeLifecycle** is what a stake is to those who lend on it: it is called back
only when nothing is owed, becomes ready by the passing of time, leaves only by
its owner or to a liquidator of a borrower, and everybody who starts to borrow
has one that is not on its way out. **StakeRelease** maps the exchange to it
(the phase is `getStakePhase`, the borrowers are the users with a non-empty
list), and states `ReleaseEnds`.

**MarginalFunctionality** has the position (`calcAssets`, `calcLiabilities`,
`calcPosition`) as sums over the lists, the three operations on the list of
liabilities as operators on sequences, and `PartiallyLiquidate` with every
`require` in the code's order of effect: the first position is taken before, the
last one after all changes.

**Exchange** computes a deposit, withdrawal or fill on a record `Ledger` of the
variables it goes through, step after step as the code does, with a field
`reverted` for a failed `require` in the middle; `Commit` installs the result,
and the action is disabled where the code reverts. `FillOrders` is the whole of
`fillOrders`: checks, the filled amounts, both debits, both credits, the fee,
and both position checks on the state after.

**ExchangeWithOrionPool** adds `FillThroughOrionPool` and `SwapThroughOrionPool`
on the same `Ledger`. `doSwapThroughOrionPool` is a quote, the limits, the
payment of the first pair and the delivery of the last output; when `ok` is
false a fill goes on as the `catch` does, and a swap reverts. The fill is
recorded under the order with its lowered fee, as in the code. Its pairs are
reserves: `MarketStep` lets everybody else move them between any two steps.

**OrionPoolV2Pair** has the pair's own interleaving: `SwapStart` pays the output
and leaves the pair locked, anybody may move tokens meanwhile (the callback),
and `SwapEnd` makes the K check or `SwapRevert` undoes it. `sqrt` is the loop of
`Math.sol:9-20` as a recursive function (`SqrtLoop`) of its three variables, a
turn of it being `BetterGuess`. The fee is `SwapFee / FeeBase` (3/1000 in the
code).

**PriceOracle** has the contract's five operations, and the aggregators as an
environment that answers new rounds (`AnswerUpdated`).

**Deployment** runs the files of `migrations` statement by statement. `mem` is
what the process knows (addresses, links), `saved` what truffle writes to disk
when a file ends, `completed` the number on the chain; `proxies` and `providers`
are the chain. `Crash` and `Abort` (a statement that cannot succeed) drop the
process anywhere, and the operator runs what is left, or one file of `Reruns`
again with `--f n --to n`. Scripts of networks that hardhat deploys run the same
way with nothing recorded between two runs. The upgrades of file 9 hand
`setBasicParams` an address written in them, and nothing in the repository says
what stands there. `ExchangeWithOrionPool` asks it for `getWETH`, which
`PoolFunctionality` has and the routers have not: `givenRouter` is either.

**HardhatTests** replays a test as a sequence of phases of threads of calls. The
calls of different accounts within a phase interleave (`Submit`, `Mine`),
whereas the test awaits them one by one; a call that is expected to revert must
change nothing, and any other must be enabled.

### Abstractions

- *Time* is the block time in small units; delays are one unit. It starts at
  `StartTime`, later than any delay, so that ages are never negative. Timestamps
  are added modulo `Uint64Range` as uint64 sums are.
- *Amounts* are small integers; `Unit` stands for 10^8. Amounts of 64, 112 and
  192 bits are not wrapped: the code's `require`s on them are in the model
  (`FitsInt112`, `Uint112Max`, `Int64Max`) and the comments at
  `Exchange.sol:28-37` and `MarginalFunctionality.sol:95-98` argue that sums do
  not overflow.
- *Orders* of an instance are told apart by their nonce, so that the nonce with
  the fee stands for the type hash; a signature is membership in `SignedOrders`
  (both formats of signature sign the same fields).
- *Transactions* are atomic and the receivers of tokens and ether are plain
  accounts: standard ERC20 tokens without a fee on transfer, users who accept
  ether. Gas is not modelled. The one callback that is modelled is the pair's.
- *Paths* do not come back to a pair they went through and have no step from an
  asset to itself (`PoolAssumption`; `OrionPoolV2Library.sol:13` refuses such a
  step), and WETH and ether are one asset inside the pairs.
- *Deployment*: the libraries, the oracle and the WETH whose addresses are
  written in a file are taken to be there, and the proxy in the files is the
  published one; what stands at the router's address is left open
  (`givenRouter`). A transaction that is mined after its process died
  is the case of a `Crash` after the statement. The end of a file writes the
  chain and the disk in one step.
- *Events*, and the field `totalLiabilities` of a position, which nothing reads,
  are left out.
- A list of assets given to the oracle is a set: a second write of an asset in
  one call has the same stamp and is ignored.

## 3. What TLC checks

Two users `alice` and `bob` with a `matcher`; ORN, one token `TKN`, and ether
where the run is about it. The inputs of every run are in the `MC` modules, and
for the tests in the modules named after them.

| run | states | question |
|---|---|---|
| `credit` | 58,280 | borrowing by partial fills, covering by fills and deposits, two debts at once, time and price age, a revoked approval, margin settings that tighten |
| `liquidation` | 53,610 | short sales of tokens and of ORN, negative and overdue positions, partial, full and excessive redemption out of balance and stake, stakes called back, collected, frozen and freed meanwhile |
| `pool` | 24,064 | fills through one and two pairs on credit, from balances and wallets, with three kinds of fee; failed swaps; swaps of users with tokens and ether; wallet trades; a market that moves |
| `dust` | 5,355 | the same with tokens of fewer and of more decimals than the exchange |
| `pair` | 2,991,006 | one pair: two accounts, open callbacks, protocol fee on and off |
| `oracle` | 45,944 | feeds, rounds of all ages, authorisations, aggregators |
| `deploy` | 3,157 | migrations of seven networks, two deaths anywhere, file 9 run again |
| `tests` | 2,226 | test files 16, 18, 20 and 8; with pools 10, 11, 13, 14, 16, 17 and 19 |

The properties, in `ExchangeProperties`, `ExchangeWithOrionPoolProperties`,
`StakeRelease`, `OrionPoolV2PairProperties`, `PriceOracleProperties`,
`DeploymentProperties` and `HardhatTests`:

- **NegativeIsListed, ListedIsOwed**: the list of liabilities and the negative
  balances are the same set of debts, without duplicates (ORN excepted, see
  below).
- **BorrowersHaveStake**: who has debts has a stake that is not being released.
  It needs the position check at the end of fills (`INCORRECT` without a locked
  stake), the empty list that a release requires, and the check after a
  liquidation that has spent the stake.
- **ImplementsLifecycle**: stakes have the life of `StakeLifecycle` and no
  other. **ReleaseEnds**: a release that was granted comes to an end.
- **OutstandingWithinDebt, TimerNeedsCover, CoverRestartsTimer**: the rules of
  the clock of a debt (`MarginalFunctionality.sol:10-15`).
- **Backed**: tokens held equal balances and stakes owed, debts counted
  negative, for tokens whose conversion is exact; **DustBounded** bounds what
  one transaction takes from that backing otherwise (dust that stays with the
  exchange is not bounded).
- **TermsHonoured, PoolTermsHonoured**: over balance, wallet and stake together,
  a step changes what a user owns by no less than the user's own signed orders
  and swap requests grant for the amounts filled (limit price and fee included),
  except that a liquidation moves the redeemed debt and its price with the
  premium, and a swap that failed costs the fee. A liquidator pays no more of an
  asset than a borrower's debt in it goes down. Balance and wallet are added
  for assets whose unit is the exchange's; a purchase through the pool also
  needs a bought asset of that unit, since what the pairs ask is priced there.
- **NewRiskIsCovered, PoolRiskIsCovered**: tokens leave to a wallet, and a debt
  deepens, only if the user's position ends positive.
- **ReservesCovered, ShareNeverLosesValue, FeeWithinThird**: a pair has its
  reserves between transactions; while no protocol fee is taken no step lowers
  the product of the reserves behind a share; the fee takes nothing if it
  was off at the last mint or burn, and else at most a third of the growth since.
- **QuoteIsBest, QuotedInputSuffices**: on every reserves reached, the output
  quoted for an input is the largest the pair accepts, and the input quoted for
  an output is accepted and at most one more than the least.
- **ImplementsInterface**: the oracle implements `OracleSpec`;
  **NoFresherThanBase**: a price computed from ChainLink is not stamped later
  than the base price it was computed from.
- **StatementsSucceed, PublishedIsUsable, OracleHasProvider,
  ServiceOnlyImproves, DeploymentEnds**: whatever files were cut short and
  repeated, statements find their libraries and contracts, a published exchange
  is configured, its oracle has a provider, the exchange in service loses
  nothing, and the deployment ends. The one call that fails, `setBasicParams`
  with a router that has no `getWETH`, is named in the first and the last of
  them (`FailingFile`): it fails every time, and the deployment ends short of
  its file.
- **FactsAgree, ChangesAgree**: at the end of a phase balances, positions, debts
  and custody are what the test asserts; each call moves what the test says it
  moves.

*Why the bounds are enough.* A list of liabilities has at most one entry per
asset, so two assets give lists of two entries, the shortest for which removal
by swap and the search to the last entry can go wrong. Orders of amount 2 filled
by 1 or 2 give partial and full fills, covers smaller than, equal to and larger
than what is outstanding, and balances on both sides of zero. Ages of one, two
and three units are below, at and above each delay. Two users are enough for
each two-sided operation; the matcher is a third because fees make it a party.
Paths of one and two pairs are the first and the general hop. `Unit` 2 makes the
divisions round. A pair whose reserves hold at most 10 and whose fee is a tenth
rounds in every step, and can be drained, refilled and have its fee switched;
quotes are compared for all amounts up to half of what a reserve can hold. Two
deaths are enough to die in a file and in its repetition. Every property of
every passing run is violated by a plausible slip of the code: the operators
with the comment `Slip`.

`CHECK_DEADLOCK FALSE` stands in all runs but `tests` because block
time, wallets and amounts are bounded: a run ends when they are used up.
`MaxTime`, the sets of amounts, `MaxCrashes`, `MaxProxies`, `MaxOracles` and
`SmallBalances` (`dust`, the only run with a constraint: a withdrawal of less
than one unit costs nothing and can be repeated for ever) are the only bounds.

*The tests.* Here the deadlock check is on, and means that no call a test
expects to succeed reverts. Amounts are scaled: `Unit` is 100, amounts of the
tests below that, the fees above all, count as one, and a time unit is a
thousand seconds. In `PoolFillTests` a token counts as a tenth of one and in
`PoolSwapTests` as a twentieth; an ether is cheaper there than in the tests, USDT
count as a hundred in 14, the pool of ether has a hundred instead of one in 11,
and fifty ORN are sold in 13 instead of a thousand. All keep the relations the assertions depend on. Left out
are the assertions on getters and addresses, and `1_token.test.js`, which is
about the token alone.

*Fairness.* Nothing in the contracts acts by itself. `ReleaseEnds` assumes that
blocks keep coming (`NextBlock`), and that a user whose stake can be collected
asks for it in the end (`CollectStake`), and nothing of the owner, liquidators
or providers; the freeze of the owner and a new lock of the user are its
exceptions. `DeploymentEnds` assumes that the operator runs the files that are
left (`Migrate`), and that a process which is not killed goes on
(`RunStatement`, `Finish`, `Abort`); deaths are finitely many by `MaxCrashes`,
which no fairness could replace.

### Exemptions in the deployment

Two calls of which the properties do not hold are named in
`DeploymentProperties`. On `bsc_testnet` the call that sets the parameters after
the upgrade is commented out (`9_upgradeToExchangeWithOrionPool.js:77-88`). And a
router that has no `getWETH` makes `setBasicParams` revert
(`ExchangeWithOrionPool.sol:46`): on `development` always, where file 7 passes
the router it deployed (`7_deployOrionPoolStub.js:43`), so that the network ends
at file 6; on `bsc` and `mainnet` if the address in file 9 (`:129`, `:176`) is
such a router, so that they end at file 8, with an exchange that was upgraded and
has no router but the one it may have had before. Not in the run: `bsc2`, whose oracle address ends with a backtick
(`9_upgradeToExchangeWithOrionPool.js:189`), `ropsten`, whose WETH is the empty
string, and `testnet` and `mainnet_kucoin`, which `truffle-config.js` does not
have (neither has it `binanceTestnet`, which the run adds as an operator would).
Observed: `--f 7 --to 7` writes 7 as the last file completed, so that a plain
migration after it runs file 8 again; and the oracle that file 5 deploys is not
given to any exchange.

### Disagreements

Runs that expect a violation; each checks one sentence of the repository.

| run | source | text | what the code does |
|---|---|---|---|
| `orn_reward` | `MarginalFunctionality.sol:349` | `ExchangeStorage.sol:22` | the reward of a liquidation lifts an ORN debt of the liquidator above zero and leaves it on the list |
| `pool_refill` | `ExchangeWithOrionPool.sol:119` | `Exchange.sol:236` | a fill through the pool is counted under the hash of the order with a lowered fee, so fills at different fees do not see each other |
| `stale_round` | `PriceOracle.sol:216` | `PriceOracle.sol:173-175` | the round of an asset is taken for fresh whenever the round of ORN is |
| `protocol_fee` | `OrionPoolV2Pair.sol:97` | `OrionPoolV2Pair.sol:86` | the fee is up to a third of the growth of the root of the product, not a sixth |

Because of the first one, `ListedIsOwed` and `OutstandingWithinDebt` except ORN.

Met while modelling, in the model, and without a run of their own:

- a borrower on both sides of a trade restarts the clock of the debt without
  repaying (`MarginalFunctionality.sol:256` against `:10-15`): what one order
  takes from the balance the other gives back, and only the second is seen as a
  cover. So do orders that exchange an asset for itself, and the fee of
  a matcher who trades himself: the clock may restart while the debt grows by
  the sale (`Exchange.sol:411-412` before `:421`). A liquidation that covers the
  outstanding amount does not restart the clock (`:290` against `:13-15`).
  `TimerNeedsCover` and `CoverRestartsTimer` are proved, and checked by the run
  `credit`, for an exchange without these trades and liquidations
  (`PlainTrades`, `NoLiquidations`);
- a position of exactly zero is accepted (`MarginalFunctionality.sol:199`
  against `docs/README.md:22`);
- `docs/README.md:22` speaks of a "limited number of liabilities", and no line
  counts them; the list is as long as there are assets.

## 4. What is proved

For every value of the constants under the named assumptions of the modules
(`TimeAssumption`, `UnitAssumption`, `StorageAssumption`, `VaultAssumption`,
`MarginAssumption`, `ValidatorAssumption`, `ExchangeAssumption`,
`PoolAssumption`, `FeeAssumption`, `PairAssumption`, `OracleAssumption`: types
of the parameters, positive scales, a fee below one, nonces that identify
orders, and finitely many users, who are addresses of 160 bits). A theorem whose
statement has a hypothesis of its own says so:

| theorem | statement |
|---|---|
| `TypeCorrect` | `Spec => []TypeOK`; wallets, allowances, custody and stakes are never negative |
| `DebtsAreListed` | `Spec => []NegativeIsListed` |
| `EntriesAreDebts` | `Spec => []ListedIsOwed` |
| `StakeBehindDebts` | `Spec => []BorrowersHaveStake` |
| `StakeImplementsLifecycle` | `Spec => ImplementsLifecycle` |
| `PoolInvariance`, `PoolTypeCorrect`, `PoolDebtsAreListed`, `PoolStakeBehindDebts` | the invariant and three of the above for `PoolSpec` |
| `RiskIsCovered` | `Spec => NewRiskIsCovered` |
| `PoolOutflowIsCovered` | `PoolSpec => PoolRiskIsCovered`, if no request starts and ends with ether |
| `FullyBacked`, `DustIsBounded` | `Spec => []Backed`, `Spec => DustBounded`; the second bounds what a transaction takes, not what it leaves |
| `PoolFullyBacked`, `PoolDustIsBounded` | the same for `PoolSpec`, if `SidesAreKnown` |
| `OrdersAreHonoured` | `Spec => TermsHonoured` |
| `PoolOrdersAreHonoured` | `PoolSpec => PoolTermsHonoured`, if `SidesAreKnown` |
| `OutstandingIsOwed` | `Spec => []OutstandingWithinDebt`, if `NoLiquidations` |
| `ClockNeedsCover`, `CoverIsNoticed` | `Spec => TimerNeedsCover`, `Spec => CoverRestartsTimer`, if `NoLiquidations` and `PlainTrades` |
| `SqrtIsRoot` | the loop of `Math.sqrt` ends for every input, at the root rounded down |
| `OutputBelowReserve`, `QuoteKeepsProduct`, `QuotedInputKeepsProduct` | a quoted swap leaves a reserve and passes the K check, for all reserves, amounts and fees |
| `LibraryQuotesBest`, `LibraryInputSuffices` | `PairSpec => []QuoteIsBest`, `PairSpec => []QuotedInputSuffices` |
| `PairTypeCorrect` | `PairSpec => []PairTypeOK` |
| `ReservesAlwaysCovered` | `PairSpec => []ReservesCovered` |
| `SharesKeepValue` | `PairSpec => ShareNeverLosesValue` |
| `FeeIsWithinThird` | `PairSpec => FeeWithinThird` |
| `OracleTypeCorrect` | `PriceOracleSpec => []PriceOracleTypeOK` |
| `OracleImplementsInterface` | `PriceOracleSpec => ImplementsInterface` |
| `PricesNoFresherThanBase` | `PriceOracleSpec => NoFresherThanBase` |

*The exchange.* The inductive invariant is

    IInv == TypeOK /\ ListsOK /\ BorrowersHaveStake

`ListsOK` says of each user's balances and list, as `ListOK`: every negative
balance has an entry, and entries except those of ORN are negative balances and
occur once. None of the parts can be proved alone. `updateLiability` overwrites
the last entry when it finds no other, which keeps the type only if the list is
not empty, that is if the debt being covered is listed; a removal takes the
first entry only, which leaves no entry behind only if there was one; and a fill
may lengthen the list of a user only because its position check then requires a
locked stake. The proof has three layers:

1. The first part of `LedgerProofs`: what removal, update and appending do to `ListOK`, for any
   sequence, from the types alone (no induction: the operations are SubSeq,
   EXCEPT and Append).
2. The rest of `LedgerProofs`: each step on a `Ledger` (`generalDeposit`, `_updateBalance`,
   `updateOrderBalanceDebit`, `creditUserAssets`) keeps `LedgerOK`, and makes
   borrowers only of the users it debits (`NoNewBorrower`). `SettleOK` puts them
   together: only the two traders become borrowers, and both positions are
   checked. (The matcher is only credited.)
3. `ExchangeProofs`: one lemma per action, and `NextInv` by cases on `Next`.

*The oracle.* The invariant is the type invariant alone: `latestRound` is never
of the future, so that the stamps a ChainLink call writes are at most `now`, and
a feed's stamp is checked. `PricesNoFresherThanBase` needs of it only the types: every stamp a
ChainLink call writes is the base stamp or that of an older round
(`BaseStampsAll`).
`OracleImplementsInterface` is a step simulation:
every action is a `Tick`, a `PricesMove` or leaves the two variables unchanged;
the refinement mapping is the identity on them.

*The life of a stake.* A step simulation under `IInv`: `BorrowersHaveStake` is
what makes a user with debts unable to be RELEASING, and the type invariant what
makes a passing unit of time take a stake from RELEASING to READYTORELEASE at
most. Deposits, withdrawals and fills are `Settle` (`NoNewBorrower` says who may
become a borrower), a liquidation is `Seize`, and settings and feeds stutter.

*The pool.* `PoolIInv` is `IInv` with the type of the reserves. The new facts
are that a swap changes only tokens (`SwapOK`), that the fee of a failed swap is
debited from a user whose position is checked after it, and that the hash an
order gets by its lowered fee is one the record of fills has.

*Covered risk.* `RiskProofs` follows one relation through the parts of every
operation: `NoNewRisk(L, M, S)`, that from the ledger `L` to the ledger `M` only
users of the set `S` get tokens from the exchange or a deeper debt. Parts chain
(`RiskChains`), a credit risks nothing (`CreditNoRisk`), a debit puts at risk
whom it debits (`DebitRisk`), and `CommitRisk` concludes: if the users at risk
are those whose positions the operation checks with the state it ends in, the
step is covered. For a fill these are the two traders, although the matcher and
the liabilities change between the debits and the checks; for a swap the user,
although the pairs are paid before the balance is debited. With the pool the
theorem has the hypothesis `NoEtherRoundTrip`, that no request starts and ends
with ether: the refund of a swap paid with ether is what was sent less what was
spent, rounded down to the units of the ledger, so that a round trip may end
with a little more ether in the wallet and less in the exchange, with no check.

*Custody.* `CustodyProofs` follows, for one asset, what each part of an
operation does to the tokens held and to one user's balance and stake. `Moves`
says that a part changes what is owed to one user by an amount and nothing of
the others; `Gives` that it changes what is held; `Rounds` puts them together
with the units that the conversion between decimals cut off, which is a number
less than the larger of the two scales, and exactly 0 when they are equal. Parts
chain (`RoundsChain`), so that a fill, which rounds once for each order, loses
less than twice that, and every other operation once. `Backed` and `DustBounded`
are both read off `CustodyKept`. That the sum over all users changes by what one
user's part changes is `SumChange`, from what the fold of the community modules
is on a set and the set less one element (`SumStep`); that every finite set has
a sum at all is an induction on the subsets (`SubsetInduction`), made from the
well-foundedness of the naturals (`WFMin`, `NatLessThanWellFounded`) without the
library's theorems that take an operator.

With the pool, the asset that a fill takes from the balance has to be the one
that the path starts with. The code sees to that with two different tests: the
check of the path takes any side but `kBuy` for a sale
(`LibValidator.sol:182-188`), and the movement of balances any side but `kSell`
for a purchase (`ExchangeWithOrionPool.sol:88-91`). `PoolFullyBacked` therefore
has the hypothesis `SidesAreKnown`, that a signed order is one of the two; an
order of a third side would be filled out of the wrong balance.

*Consent.* `ConsentProofs` does the same for what a user owns in one asset,
`Own`, balance and wallet together: a deposit, a pull from the wallet or a
payment to it changes neither (`Earns` with 0), a fill earns the trader no less
than the limit price and the share of the fee (`Gain`, `FillPaysDue`), and the
matcher no less than nothing. The filled amounts say which orders the step
fills: nonces identify orders, so that it is these two and no others
(`Filled`, `Due`). For a liquidation the borrower pays the price of what is
redeemed with the premium, rounded down twice (`RewardBound`), and
`NegativeIsListed` is what makes the debts of a user finite, so that their value
is a sum (`DebtsFinite`).

With the pool as counterparty (`PoolOrdersAreHonoured`) there is no other order
that bounds the price: what bounds it are the quotes of the path and the limit
checked against them. The first quote is what is paid into the first pair and
the last is what comes out (`QuotesEndWithOutput`), so that the limit says of
the amounts moved what the order says of the price (`SwapLimits`,
`PoolTermsWithinGain`); for this the user is followed through payment, swaps
and collection, whether paid from the balance or the wallet (`PayOwn`,
`CollectOwn`, `SwapEarns`). Which terms a step is judged by is read off its
effects: a fill raises the filled amount of one order, under the fee the order
was lowered to (`FilledTotalMoves`, `OthersUnfilled`), a swap raises none and
leaves its input in the first pair, which the rest of the path does not touch
(`SwapMovesReserves`). The theorem has the hypothesis `SidesAreKnown`, as
custody has and for the same reason.

*What is outstanding.* The invariant `Bounded` (in `RiskProofs`) says of every entry, the entries
of ORN aside, that its outstanding amount is between 0 and the debt, and is
proved together with `IInv`, part by part of the ledger (`OutWithin`): a cover
takes from it no more than it adds to the balance, or sets it to the whole debt;
removal moves the last entry with its amount; a pull from the wallet only makes
the balance larger when the entry goes. A liquidation pays a part of the debt
and leaves the amount as it is (`MarginalFunctionality.sol:290`), and two of them
go below it; so the theorem is about an exchange where nobody is liquidated
(`NoLiquidations`), which is also the instance that the run `credit` checks.

*The clock.* The two rules say of a whole step what the code does cover by
cover. `Follows` relates the entry of a debt before and after a credit of so
much: either the clock stands and the outstanding amount, still positive, is
less by the credit, or the clock is at `now` and the credit was at least all
that was outstanding. In this form credits chain (`CoversChain`): two covers
that only together reach the outstanding amount restart the clock at the second.
A debit leaves the entry as it is (`Deepens`), so that a step keeps the rule if
it does not both take from a balance and give to it (`ClockRule`). In a fill of
`PlainTrades` - two users, neither of them the matcher, and two assets - every
balance of a trader is changed once, fees in the asset sold or bought included,
because the code nets them first, and balances of the matcher only grow
(`SettleClock`). The entry of an asset must be the only one, before and after:
`OnceListed`, the invariant proved with `IInv`, says so of every list, and that
every entry is of a debt, those of ORN included, which without the reward of a
liquidation are like the others.

*The pair.* `PairInv` adds to types and covered reserves what a locked pair
still knows (`SwapOK`): the record of the open swap has the reserves as they
are, covered by the balances it started with, and outputs below them.
`SharesKeepValue` is arithmetic without division: the roundings of `mint`,
`burn` and the K check become inequalities of products (`Quotient`,
`TimesMonotone`, `CancelFactor`), one lemma per operation. `FeeIsWithinThird`
multiplies out the quotient of `_mintFee`: the fee times `2 * rootK + rootKLast`
is at most the supply times the growth (`FeeIsThird`), and a mint or a burn for
another receiver gives the receiver of the fee exactly that number of shares
(`EventMintsFee`); and without a `kLast` there is no fee (`FeeNeedsKLast`).
`SqrtIsRoot` is about a loop, and no induction is to be had: that the turns of
the loop are what `SqrtLoop` says is shown from a function that is defined
outright, by the root alone (`LoopOf`, `SqrtLoopTurns`); a turn makes the guess
smaller as long as it is too large and leaves it no smaller than the root
(`BetterIsSmaller`, `AboveRoot`, `TurnKeepsAbove`), so that the least guess from
which the loop would end elsewhere leads to one still less
(`SqrtLoopEndsAtRoot`). The theorems about quotes are what lets
`ExchangeWithOrionPool` replace pairs by their reserves: the pair accepts a
quote, it refuses one more of output (`MoreThanQuoteRefused`), and an input of
two less (`LessThanQuoteRefused`).

*Only model-checked*, and why:

- The deployment and the tests are about particular values: TLC's runs are the
  whole of it.
- Liveness (`ReleaseEnds`, `DeploymentEnds`) and ENABLED are out of reach of the
  provers used.

## 5. Not modelled, and why

- *Re-entrance of the exchange.* Every call is one step and receivers of ether
  are plain accounts. `withdraw`, `fillOrders` and the pool's operations hold
  the lock of `ReentrancyGuard`; deposits, `lockStake` and `requestReleaseStake`
  do not.
- `Ownable`, `Initializable`, `Context`, proxies: ownership is one actor, and
  what matters of initialization and upgrades is in `Deployment`.
- Routers: stateless wrappers around the library and the pairs, for clients
  other than the exchange; the factory, a registry; `permit` and the price
  accumulators of a pair.
- `utils/orionpool/lib`: vendored helpers (names, fixed point, transfers).
- `scripts`: examples of clients. They call `validateV1`, `isValidSignature` and
  a `fillOrders` of six arguments, which no contract here has; `public/abi.js`
  is generated.
- `test`: an older suite for truffle of what `hardhat-tests` tests, before the
  pools. (`package.json:18` runs a migration 11, which does not exist.)
- Tokens: a standard ERC20 is the environment described above.
- Orders of another `buySide` than 0 and 1. The model takes them as the code
  does, a sale to the check of the path (`LibValidator.sol:182-188`) and a
  purchase to the fill (`ExchangeWithOrionPool.sol:88-91`), but the orders of
  the instances have one of the two.

## 6. Plan

Built: everything listed in section 2. What remains, in this order:

1. An abstract custody ledger (deposits, withdrawals and internal transfers
   only) implemented by `ExchangeWithOrionPool`.
2. The routers' liquidity operations on two pairs, with the factory that creates
   a pair on first use.
3. The older suite in `test`, replayed with the same specification.
