# A formal model of wrapped-xrp

TLA+ specifications of the wXRP bridge, the TLC configurations that model-check
them and TLAPS proofs about them. Paths are relative to the repository; `oft/`
abbreviates `programs/oft/src/`.

## 1. Inventory of the system

| Component | State | Operations | Interacts with |
|---|---|---|---|
| Amount arithmetic (`oft/state/oft.rs`, `oft/instructions/quote_send.rs`) | none (reads `ld2sd_rate`, fees) | `ld2sd`, `sd2ld`, `remove_dust`, `calculate_fee`, pre- and post-transfer-fee, the split of an amount | used by `send`, `quote_send`, `quote_oft`, `lz_receive` |
| Rate limiter (`oft/state/peer_config.rs`) | `capacity`, `tokens`, `refill_per_second`, `last_refill_time` | `refill`, `try_consume`, `set_rate`, `set_capacity` | reads the cluster clock; touched by `send`, `lz_receive`, `set_peer_config` |
| OFT program (`oft/instructions/*.rs`) | `OFTStore`, one `PeerConfig` per remote chain, the token escrow | `init_oft`, `send`, `lz_receive`, `withdraw_fee`, `set_pause`, `set_oft_config`, `set_peer_config` | token program (transfer, burn, mint), LayerZero endpoint (send, clear, send_compose, register, set_delegate) |
| Quotes (`quote_oft.rs`, `quote_send.rs`) | none | the split, the messaging fee | endpoint (quote) |
| Codecs (`msg_codec.rs`, `compose_msg_codec.rs`) | none | encode, decode | the wire; the composed message |
| `lz_receive_types` | none | the account list for a delivery | the executor, off chain, between two transactions |
| Enforced options | bytes per peer | combine | the endpoint |
| `contracts/WXRPToken.sol` | balances, allowances, roles, blacklist, pause flag | mint, burn, transfer, transferFrom, approve, blacklist, pause, roles | the adapter, its minter and burner |
| `contracts/WXRPMintBurnOFTAdapter.sol` | peers, owner (LayerZero's base contracts) | send burns, receive mints | WXRPToken, EVM endpoint |
| `deploy/*.ts` | the chain, the `deployments/` records | deploy token, adapter, grant roles | hardhat-deploy, reruns after a crash |
| `tasks/*.ts` | roles and proxy admin on chain | hand the admin roles to the multisig | an operator at a prompt |
| `layerzero.*.config.ts`, `consts/*.ts` | literal tables | wiring of pathways | LayerZero tooling |

What is hard in it:

* Nothing runs concurrently inside one Solana transaction, which is atomic and
  leaves no trace when it fails. The interleaving is between transactions:
  users, two administrators, the pauser, verified packets in any order, the
  clock, and the mint's transfer fee changing at an epoch boundary.
* The money is spread over four numbers kept by different parties (`tvl_ld`, the
  escrow's balance, the mint's supply, what the wire carries) that are related
  by nothing but the arithmetic of each instruction, with two roundings (dust,
  fee) and a fee the token program takes on top.
* The limiters are lazy and saturating and can be reconfigured at any time.
* Overflow panics (`overflow-checks = true` in `Cargo.toml`), so a wrong range is
  a transaction that can never succeed, for a packet for ever.

`PROJECT.json` lists the hazards, each at its line, with the properties that
would catch it.

What makes each component correct:

* arithmetic: the escrow is credited with exactly what is wired plus the fee, by
  the least possible charge, never above the amount offered, without dust;
* limiter: it serves neither more nor less than a token bucket;
* program: the escrow is exactly the locked value plus the fees, what is on the
  wire is backed, reports are truthful, a pause stops everything;
* EVM token and bridge: frozen funds are not debited, the supply over all chains
  and what is in flight is conserved, a message sent is delivered in the end;
* codecs and options: what is read is what was written, on both sides, and what
  was quoted is what is sent;
* two-call delivery: a plan passes until it is overtaken, one that was fails whole,
  and a later one succeeds once what it depends on rests;
* scripts: no order of crash, rerun and operator delay leaves a token without an
  admin, an adapter without its roles, or the deployer in big blocks;
* wiring: nothing is verified before it is as deep as the receive config asks of its
  own chain, and what was sent over a finished pathway is verified in the end.

## 2. Modules

| Module | What it is |
|---|---|
| `U64` | the unsigned 64-bit range; `checked`, `saturating`; `None` |
| `OFTMath` | the arithmetic, one operator per function of the source |
| `OFTQuote`, `MCOFTQuote` | one call of `compute_fee_and_adjust_amount`, walked over every amount |
| `RateLimiter` | the limiter's record and methods as operators |
| `TokenBucket` | abstract: an eager bucket that gains tokens every second |
| `PeerLimiter`, `MCPeerLimiter` | one limiter against the clock and its administrator; refines `TokenBucket` |
| `OFT`, `MCOFT` | the program's state machine; both limiters of each peer refine `TokenBucket` |
| `Hub`, `MCHub` | `OFT` (Adapter) composed with honest remotes and the packets between them |
| `Executor`, `MCExecutor` | `OFT` composed with the executor that plans a delivery and then makes it |
| `MsgCodec` | the two byte layouts, as operators on sequences of bytes |
| `Messages`, `MCMessages` | one message from its quote to its composer |
| `WXRP` | the EVM token's storage and entry points, as guards and effects on a record |
| `WXRPToken` | one token, called by any account in any order |
| `Ledger` | abstract: balances on every chain and transfers on their way |
| `Bridge` | several EVM chains, a `WXRP` token and an adapter on each, with the packets between them; refines `Ledger` |
| `Deployment` | the deployer's scripts on one EVM chain, cut off anywhere and run again |
| `Pathways`, `MCPathways` | the LayerZero tables, applied in any order, and how a packet is verified over them |
| `*Proofs` | the theorems (section 4) |

    OFTMath, RateLimiter <- OFT <- Hub
                               <- Executor
    OFTMath              <- OFTQuote
    RateLimiter          <- PeerLimiter       => TokenBucket (as do OFT's limiters)
    MsgCodec             <- Messages
    WXRP                 <- WXRPToken
                         <- Bridge            => Ledger
    Deployment, Pathways

(`A <- B`: B extends A; `=>`: implements.) `OFT` extends `OFTMath` and
`RateLimiter`; the same operators that are checked exhaustively and proved alone
are the ones its actions use.

Two compositions and not one. The mainnet wiring (`layerzero.mainnet.config.ts`)
connects EVM chains only, by `WXRPMintBurnOFTAdapter`: that is `Bridge`. The
Solana program is composed with remotes of which only the promise is assumed, to
give up what they send and to hold no more than arrived (`Hub`).

### How `OFT` corresponds to the code

An instruction is one action. Its guard is the conjunction of the account
constraints, the `require!`s, the checked operations that must not fail and the
balances the token program checks; a failing instruction is a stuttering step.

* `OFTStore`: `tvl_ld`, `admin`, `default_fee_bps`, `paused`, `pauser`,
  `unpauser`; the immutable fields are the constants `OftType` and `Ld2sdRate`.
  `Init` is the state `init_oft` leaves.
* `peer[eid]` is the `PeerConfig` account, `exists` whether it was created.
  A limiter is a record with `some` for the `Option`.
* `held`, `escrow`, `withheld`: tokens of the mint in users' accounts, in the
  token escrow, and withheld by Token-2022 transfer fees. Users' accounts are
  one sum: no guard of the program tells them apart but the balance check, and
  the sum allows at least what the accounts allow. `supply` is their sum.
* `verified`: packets verified by the endpoint and not yet cleared, a bag. Any
  packet of an opened pathway may be verified at any time, so every order,
  delay and content of inbound traffic is covered, including amounts no honest
  remote would send. `clear` takes it out in the same transaction.
* `Send`: pause, peer account, the split, slippage, limiters, `Lock` or `Burn`,
  the endpoint's send. `LzReceive`: pause, peer address, clear, limiters,
  `Unlock` or `Mint`, compose and event. `WithdrawFee`, `SetPause`, `SetKey`,
  `SetDefaultFee`, `SetPaused` and the five `SetPeer...` actions are the
  administrators' instructions.
* `Verify`, `Tick`, `NextEpoch`, `Donate` are the environment. A transfer of
  tokens to the escrow by anyone (`Donate`) is possible on chain and counts as a
  fee.
* `fees`, `wired_out`, `wired_in`, `sent_ld`, `delivered_ld` are history
  variables; no guard reads them except the bound on `wired_out`.

### How `Hub` and `Executor` correspond to the code

Both add to the environment of `OFT`; every instruction of the program is `OFT`'s.

* `Hub`. In `OFT` any packet of an open pathway may be verified. In `Hub` only what
  a remote sent is (`RemoteSend`, `Relay`), and a remote sends only units that
  arrived there (`RemoteReceive`). `remote`, `outbound` and `inbound` count shared
  decimals. `Hub` is for an Adapter, which `HubInit` says: what a Native OFT mints is not backed by an
  escrow, and whether it overflows is in `WireIsBacked` and the run `native`.
* `Executor`. `LzReceiveTypes` is `lz_receive_types`: it reads the mint and makes a
  `plan`; `Execute` is `lz_receive` with the planned accounts; `Discard` is an
  attempt that fails. Of the account list, the two accounts are modelled that
  depend on more than the packet: the optional `mint_authority`, which the
  program compares with the mint's, and the account of the composed message,
  whose address is a hash over the amount received, here the amount itself.
  `planned_amount` is the copy of the arithmetic in `lz_receive_types.rs`, and
  `amount_received` that in `lz_receive.rs`.

### How `MsgCodec` and `Messages` correspond to the code

Each operator is one function or constant of the two codecs. A message is a sequence
of bytes; the writers put fields of the widths of their types one after the other
(`AddressLen`, `U64Len`, `U32Len`), the readers go by the literal offsets of the two
files, so a wrong literal is a wrong reader. Only the number of values of a byte is a
parameter. `Option<Vec<u8>>` is a sequence of at most one message, so that an empty
message and none differ. `Messages` takes one call from `quote_send` and `send` to
`lz_receive`, with changes of the enforced options before and after the quote: a
quote stays with the caller whatever the admin does, and `read` is what it was made
with. Of `quote_send` only the call of the endpoint is modelled, and of `quote_oft`
the amounts and the fee details: their pause and slippage checks return errors and
change nothing. The options are sequences of opaque executor options; that
`combine_options` of the endpoint library concatenates is how `peer_config.rs` uses it.

### How `WXRPToken` corresponds to the code

`WXRP` has, for each entry point of `contracts/WXRPToken.sol`, a guard with its
modifiers and the checks of the inherited contract, and an effect on the
storage; `WXRPToken` makes an action of each pair, with the caller as a
parameter. What the contract inherits from OpenZeppelin (5.4 in the lock file)
is external: the supply is added checked, balances are updated unchecked and
hence modulo the word, an allowance of the largest word is not spent down, every
role is administered by `DEFAULT_ADMIN_ROLE`, and a role is renounced only for
oneself. The storage is a record and not one variable per field so that `Bridge`
can hold a token per chain.

### How `Bridge` corresponds to the code

`WXRPMintBurnOFTAdapter.sol` is a constructor; the rest is LayerZero's
MintBurnOFTAdapter, external and modelled from how `deploy/` hands it the token
and `WXRPToken` lets it mint and burn. A send burns from its caller without an
approval, a delivery mints, `address(0)` becomes `0x...dead`, both sides have the
token's decimals so the conversion rate is 1, and only the u64 of the wire
narrows an amount. A delivery that reverts leaves its packet to be tried again.
The administrators' steps (issue, redeem, pause, blacklist, roles, peers) are
those of `WXRP` by one admin who holds every role.

### How `Deployment` corresponds to the code

A script is its sequence of awaited steps, `pc` the next one, and an action is
what happens between two awaits. `deployToken`, `deployMaba`, `grantRoles`, and
`transfer-erc20-admin` are modelled; `Cut` ends a run anywhere: a crash, a refused
prompt, an error, a node that does not answer. What survives it are `records` and
`adapter` (`deployments/`), the chain (`admins`, `holders`, `big`) and `pending`,
the signer's transactions sent and not mined. The grants are sent and not awaited,
as in `grantRoles.ts`; the mempool mines in the order of nonces and may forget its
last transaction. `fresh` is the record a step looked up and a later step uses.
hardhat-deploy, ethers and HyperEVM's block sizes are external.

Four variables are history. `ended`: the last deployment ended well. `failed`: the
roles whose last grant to the adapter on record was forgotten or reverted; the next
grant of the role clears it, so a rerun is held to make up for a lost one. `left`:
the owner gave up its role since the task looked. `stranded`: a run was cut off
with a new adapter on record and the signer switched to big blocks, before
`WXRPMintBurnOFTAdapter.ts:44` switched it back. That is a defect of the script which
no later run repairs; no comment or test promises otherwise, so it is a hazard
without a property, and `SmallAgain` states that it is the only one of its kind.

### How `Pathways` corresponds to the code

The tables of `consts/mainnet.ts` are constants, `sendConfig` and `receiveConfig`
the two halves of `generateConnections` in `layerzero.mainnet.config.ts`. Each
setting is applied by a transaction of its own (`Wire`), in any order, while
people send. One packet is followed: packets do not meet. The message libraries
are external: a send hires the DVNs of its send config for that many blocks, a DVN
attests at the receiver from its address there, a packet is verified once the
receive config's threshold of its DVNs attested its number of blocks. A faulty
operator may attest anything at any time, or nothing. Before a config is set the
endpoint's default is in force. The repository says of it no more than the comment
"Chain default confirmations" in `consts/mainnet.ts:30`, so the default is a
parameter and an assumption about an external party: one DVN of any operator, faulty
ones included (`DefaultOperator`), and any number of blocks per chain
(`DefaultConfirmations`). `DeepEnough` therefore claims the depth of the
repository's tables only for what is verified under its own receive config.

## 3. Runs

| Run | Module, configuration | Checks | Instance |
|---|---|---|---|
| `quote` | `MCOFTQuote`, `OFTQuote.cfg` | `EscrowIsFunded`, `NeverOvercharged`, `NoDustOnTheWire`, `SentIsLeast`, `QuoteAddsUp` | amounts 0..32, a scale of 5 basis points with every fee rate (0 and 100 % included), caps from 0 to none, rates 1, 3, 10, both types, peer fee over default fee |
| `limiter` | `MCPeerLimiter`, `PeerLimiter.cfg` | `TypeOK`, `LevelBound`, `WindowBound`, `ImplementsTokenBucket` | u64 is 0..5, so elapsed time times the fastest rate saturates after two seconds; partial and full reconfigurations |
| `adapter` | `MCHub`, `Hub.cfg` | `EscrowIsExact`, `WireIsBacked`, `ReportIsCredit`, `NeverShort` | an Adapter with honest remotes, every instruction but the limiters', a transfer fee that is rounded up and capped and comes and goes, OFT fees on and off, withdrawals, gifts, pauses; three units under way or abroad |
| `native` | `MCOFT`, `OFTNative.cfg` | `TypeOK`, `WireIsBacked`, `ReportIsCredit` | a Native OFT, four transfer fees (none, rounded, capped, 100 %), two remote addresses of which one is an open pathway, any packets: 11 units overflow the mint's supply unless enough was burnt, 13 are more than a u64 in local decimals |
| `admin` | `MCOFT`, `OFTAdmin.cfg` | `PausedFreezesFunds` | the full `Next`: two keys in every role, every instruction, one token in motion |
| `limits` | `MCOFT`, `OFTLimits.cfg` | `OutboundIsBucket`, `InboundIsBucket` | both limiters of a peer over two seconds with sends, deliveries and partial reconfigurations in any order |
| `executor` | `MCExecutor`, `Executor.cfg` | `Delivered`, `OversizedWaits`, `PlanStands` | an Adapter, packets of one and two units, plain and composed, planned and delivered while the fee, the mint's authority (the store's, another's, none), the inbound limiter, the peer and the pause change; two seconds |
| `messages` | `MCMessages`, `Messages.cfg` | `MessageIsRead`, `ComposerReads`, `OptionsFitMessage`, `QuoteIsSend` | the program's widths and offsets with bits for bytes, three addresses, amounts up to 200, plain, composed, composed with nothing, with and without enforced options, which change before and after the quote |
| `token` | `WXRPToken`, `WXRPToken.cfg` | `TypeOK`, `SupplyIsSum`, `FrozenFundsStay`, `SealedSupply` | two accounts, one of which is given every role; words 0..2, so one mint too many wraps; the zero address as recipient and on the blacklist |
| `bridge` | `Bridge`, `Bridge.cfg` | `Conserved`, `AlwaysMintable`, `ImplementsLedger`, `Arrives` | two chains, two transfers, amounts 1 and 2 of which 2 is too wide for the wire, a supply of two, a pause, a blacklisting and the adapter's roles on either side at any time |
| `deployment` | `Deployment`, `Deployment.cfg` | `RolesInPlace`, `SmallAgain`, `NeverOrphaned` | HyperEVM, two builds of the adapter, up to three transactions pending, any number of runs |
| `pathways` | `MCPathways`, `Pathways.cfg` | `DeepEnough`, `VerifiedInTheEnd` | two chains that wait for 2 and 3 blocks, two of four DVNs asked for, one faulty, another the default, which waits one block less, both directions |

What they show, in a sentence each, is under "about" in `PROJECT.json`.

Bounds. `MaxWired` bounds the shared-decimal units ever sent, `MaxVerified` the
packets, `MaxNow` the seconds, `MaxHistory` what one limiter is asked for,
`U64Max` the integers; `MaxIssued` and `MaxSent` the tokens and transfers of the
bridge, `MaxBuild` and `MaxPending` the builds and the pending transactions. Two
packets and a few units suffice for every pair of send and delivery in either
order under different fees with a withdrawal between them; two seconds suffice
for a refill, a reconfiguration and a refill. A small `U64Max` makes the overflow
cases reachable, which no test reaches. Two builds are one redeployment; three
pending transactions are both grants and a renouncement behind them. The numbers
of runs of the scripts and of failed deliveries are not bounded.

Narrowed next-state relations. `ValueSpec` and `LimitsSpec` in `MCOFT` narrow `Next`
to the instructions a run is about, and `Others` in `Executor` to those that can
come between a plan and its delivery or that change what it depends on; `admin`
runs the full `Next`, and so does `Hub` apart from `Verify`, which `Relay` calls.

Deadlock is checked but in two runs: `quote` walks over the amounts and ends at
the largest u64, and a message in `messages` ends with its composer.

Every property has a mutant in `PROJECT.json`: a plausible slip in one
definition (a fee counted twice, a rounding the other way, a forgotten limiter)
under which TLC finds it violated.

Fairness. Nothing inside the program or the contracts is scheduled, and `OFT`, `Hub`,
`PeerLimiter`, `WXRPToken`, `Messages` and `Deployment` assume no fairness at all.
Three modules assume it of parties outside:

* `Executor`: weak fairness of planning, executing and discarding, for each packet,
  and of the clock. `lz_receive` is open to every payer, so the recipient can
  stand in for the executor; nobody is bound to send, to administer or to change
  a fee. `Delivered` asks besides that the admin, the mint's authority and, for a
  composed message only, the fee come to rest: without that the code promises
  nothing, since each plan can be overtaken by the next change.
* `Bridge`: weak fairness of `Receive` for each packet. `lzReceive` through the
  endpoint is open to everyone. It does not assume that anything is unpaused or
  taken off a blacklist, which is the point of `Arrives`.
* `Pathways`: weak fairness of the next block, of each working DVN and of the commit
  of a verification, which is open to everyone. None of the faulty ones or of the
  owner's transactions: `VerifiedInTheEnd` is of packets whose two configs are set.

## 4. Proofs

Every invariant, action property and refinement that a run checks is also a theorem:
the run shows it on a small instance, the theorem for every value of the constants
that satisfies the named assumptions (each module's `...Assumption`). So it holds for
the real 2^64 - 1 and 2^256 - 1, for 10 000 basis points, any finite number of
accounts, chains, peers and packets, any number of builds, bytes of 256 values, and the tables of the mainnet as long as fewer DVNs of a chain
are faulty than the threshold asks for. The bounds of section 3 (`MaxWired`,
`MaxSent`...) are constants too and the theorems hold for each of their values.

| Module | Theorems about |
|---|---|
| `InductionProofs` | none of the system: induction over data for the others |
| `OperatorProofs` | `OFTMath`, `RateLimiter` |
| `CallProofs` | `OFTQuote`, `MsgCodec`, `Messages` |
| `PeerLimiterProofs` | `PeerLimiter` |
| `OFTProofs` | `OFT` |
| `DeliveryProofs` | `Executor`, `Hub` |
| `WXRPProofs` | `WXRP`, `WXRPToken`, `Bridge` |
| `DeploymentProofs` | `Deployment`, `Pathways` |

    InductionProofs <- CallProofs, DeliveryProofs, WXRPProofs
    OperatorProofs  <- CallProofs, PeerLimiterProofs, OFTProofs
    OFTProofs       <- DeliveryProofs

* `InductionProofs`. The library's induction theorems take the property as an operator,
  which the installed provers cannot instantiate. Here a property is the *set* of what
  has it: inclusion is well-founded on the subsets of a finite set, so a smallest set
  without the property would exist (`SetInduction`, `Counting`). From it follow
  `Recursion` (a function defined by steps of the form `f[k] = step[k][f[k - 1]]` has
  the values it says, which is what lets a recursive function be reasoned about) and
  what a sum over a finite set is: that it does not depend on the order of summation
  (`SumRemove`), changes by as much as one of its values does (`SumChange`), and is no
  less than any two of its values (`SumAtLeastTwo`). The sums are
  `SumFunctionOnSet` of the community modules, the ones the models use.
* `OperatorProofs`. The inverse of the transfer fee: `PostOfPreFee` (what it
  returns leaves exactly what was asked for, through rounding, cap and 100 %),
  `PreFeeIsAffordable` (it succeeds and stays within the amount offered) and
  `SplitAddsUp` (the parts of a split). The division lemmas they rest on come
  first. Then a lemma for each method of the limiter: what it keeps sane and what it
  does to the level.
* `CallProofs` lifts the split to all five properties of a quote, and proves the four
  of a message. `Offsets` says that each literal offset is the sum of the widths before
  it, which only the two files' numbers make true. The codecs are inverses: a number of `len` bytes comes back from its
  bytes (`RoundTrip`, by counting up the bytes read against the bytes still to come),
  and each part of a message is found again at its offset (`WireIsRead`,
  `ComposedIsRead`). The inductive invariant says what a message is at each stage:

      MessageInv == call \in Calls /\ stage \in {...} /\ (stage # "start" => Wired)
                    /\ Quoted /\ Composed

  `Wired`: what was sent is the encoded call; `Quoted`: what a quote priced was made
  from the enforced options it read; `Composed`: what was composed is the signer and the caller's
  message. `OptionsAlwaysFit` is then about lengths: a message passes for a composed one
  exactly when one was passed, an empty one included.
* `PeerLimiterProofs` proves `TypeOK`, `LevelBound`, which is `WindowBound` made
  inductive by counting what is still in the bucket, and the refinement
  `LimiterImplementsBucket`: `Init` maps to `Init`, and each action to the bucket's
  action of the same name or to a stutter.
* `OFTProofs` proves `OFTTypeCorrect`, `EscrowAlwaysExact`, `WireAlwaysBacked`,
  `ReportAlwaysCredit` and `PauseFreezesFunds`. The inductive invariant is

      IInv == TypeOK /\ LimitersSane /\ EscrowIsExact /\ WireIsBacked /\ ReportIsCredit

  `TypeOK` is not inductive alone. That the fees stay natural after a withdrawal
  needs `EscrowIsExact`; that an Adapter's supply stays within u64 needs
  `WireIsBacked`, by which it is the initial supply; that a limiter's record stays
  within u64 after a refill needs it to be no later than the clock
  (`LimitersSane`). There is one lemma per instruction. Over the same invariant
  `OutboundServesAsBucket` and `InboundServesAsBucket` show that within the whole
  program each limiter refines the abstract bucket: a send takes from one and
  gives to the other, a delivery the reverse, a second of the clock fills both.
* `DeliveryProofs`. `Executor` and `Hub` are built from the actions of `OFT`, so the
  invariants of `OFTProofs` hold under them (lemmas, by construction); from
  `LimitersSane` there follows `OversizedNeverPasses`. `PlanAlwaysStands` is about what
  the composition adds: the plan made from `planned_amount` passes the comparison
  with `amount_received` (`CopiesAgree`), and no step but those `overtaken` names
  changes what the comparison reads or what is held for the packet (`PlanOfStep`).
  `HubNeverShort` is proved from

      HubInv  == IInv /\ OftType = "Adapter" /\ Counted
      Counted == ... /\ wired_out = wired_in + remote + outbound
                                     + units_of(inbound) + units_of(verified)

  `NeverShort` is an inequality in local decimals and not inductive: a delivery takes
  from both its sides. `Counted` says where every unit ever wired is, `WireIsBacked` and
  `EscrowIsExact` put local decimals behind it, and what the remotes hold besides is
  the slack.
* `WXRPProofs`. Everything about the token rests on

      Sound(t) == t \in Storage /\ t.totalSupply = SumFunction(t.balances)

  OpenZeppelin checks the supply and leaves the balances unchecked because none exceeds
  it; so the type of the balances (`TokenTypes`) is inductive only together with the sum
  (`SupplyAddsUp`): in `moved` the recipient's balance plus the amount is at most the
  supply because two balances are. `FrozenStays` and `Sealed` are action properties over
  the same invariant, one step per entry point. The entry points are operators on a
  storage, so what is proved of them serves `Bridge` unchanged, for a token per chain:
  `BridgeConserves` (a bag of packets weighs its amounts times its counts; a send burns
  what it adds to the bag, a delivery mints what it takes out); `DeliveriesMint` (a packet
  and the supply it is added to are both part of what was issued, so no delivery
  overflows); and `BridgeIsLedger`, the
  refinement of `Ledger`: the packets that arrive alike, by chain, account and amount, are one
  transfer of the ledger as many times as there are of them, and each action maps to the
  ledger's of its name, a freeze, a role or a peer to a stutter.
* `DeploymentProofs`. `RolesInPlace`, `SmallAgain` and `NeverOrphaned` from

      IInv == TypeInv /\ RecordInv /\ RenounceInv /\ GrantInv /\ BlocksInv

  The properties speak of a finished run and the invariant of every moment of one:
  what is on record at each step (`RecordInv`), that a renouncement decided on or
  under way follows a look at the owner (`RenounceInv`), that a role dealt with is
  held, under way or failed (`GrantInv`), and when the signer may be in big blocks
  (`BlocksInv`). The mempool is a sequence, so what appending, mining and
  forgetting do to its elements are lemmas of their own. For `Pathways`, `DeepEnough` is
  a quorum argument: of as many DVNs as the threshold asks for one is not faulty,
  whichever chain's addresses they speak from, and `QuorumInv` says that such a one has
  attested no more blocks than there are, whatever it was hired to wait for.

Model-checked only: liveness (`Delivered`, `Arrives`, `VerifiedInTheEnd`), because the
prover decides neither temporal properties under fairness nor `ENABLED`. That the
clock, the executor and the endpoint act is fairness of theirs; that the code lets
them is what TLC shows.

## 5. Assumptions and what is left out

* One OFTStore. Its accounts are derived from its escrow, so stores share
  nothing but the program's code.
* A Native mint has no other minter or burner. The mint authority may be a
  1-of-n multisig, whose other members could mint; they are outside the model.
* The mint's own powers (freezing accounts, harvesting withheld fees, a
  permanent delegate) are outside the model.
* `mint_authority` is supplied correctly to a Native delivery; without it the
  instruction fails, which is a stutter.
* Withdrawing fees into the escrow itself is a transfer to self and left out.
* In `OFT` message bytes are records and enforced options have no content: their
  bytes are the subject of `Messages`. Messaging fees in lamports are left out.
* The clock never goes back and is never negative.

Not modelled, and why:

* The endpoint delegate left behind when the admin is replaced. `SetKey` has both
  steps, but what a delegate may do is the endpoint's and no state here depends on it.
* A peer account created before its address is set. The endpoint refuses a
  receiver whose pathway was never opened; a property would restate that.
* The upgrade of `WXRPToken` behind its proxy: the contract has no code for it, and
  another implementation is another program.
* `transfer-proxy-admin`: one read and one `transferOwnership` of a contract with a
  single owner, which checks the sender again. Nothing can come between.
* A redeployed adapter whose predecessor keeps its roles, and which in small
  blocks lacks the gas: both happen in `Deployment`, and the scripts promise
  nothing about them, so nothing is stated.
* The owners and the gas of the enforced options in `layerzero.*.config.ts`, which
  no other table must agree with; `layerzero.testnet.config.ts` and
  `consts/testnet.ts`, the same code over smaller tables.
* Build, prompts, wallets and network configuration: I/O without state.
  `deployments/` and `pendingPayloads.json` are generated records.

## 6. Plan

Everything with state of its own is modelled, and every safety property is proved.
What is left, in the order of importance:

1. The steps towards liveness that are safety, as `AlwaysMintable` is of `Arrives`: that
   what is `Deliverable`, with a plan that `PlanStands` keeps, is `executable`
   (`Executor`), and that a packet deep enough has the attestations it waits for once
   the working DVNs spoke (`Pathways`); what remains for TLC is then fairness alone.
2. A Native OFT under `Hub` and `Executor`, with remotes that hold an escrow.
3. Three chains in `Bridge` and both chains' adapters in `Deployment`, on larger
   machines: the first differs from two only by more of the same pathways, which the
   theorems cover, the second by nothing the chains share.
