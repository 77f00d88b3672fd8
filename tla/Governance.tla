----------------------------- MODULE Governance -----------------------------
(***************************************************************************)
(* Who may do what: configurations with their three authorities, fee tiers *)
(* and the extension with the badges of mints; the pools and rewards made  *)
(* under them; and two calls of the client that prepare a transaction from *)
(* what they read and leave it to be sent later.                           *)
(*                                                                         *)
(* Every instruction may name any account and any signer.  One that the    *)
(* program refuses changes nothing, so that it is a step not taken.  Pools *)
(* have no liquidity here: growth of rewards and amounts of fees are those *)
(* of Whirlpool.tla.                                                       *)
(***************************************************************************)
EXTENDS GovernanceIx, Sequences, FiniteSets

CONSTANTS
    Configs, Users,
    Mints,                   \* numbers, in the order of their keys
    MintInfo,                \* by mint: program, native, freeze, extensions, frozen
    Spacings, Rates,         \* tick spacings, and rates to set
    MAX_FEE_RATE, MAX_PROTOCOL_FEE_RATE,
    NUM_REWARDS,             \* rewards of a pool (3)
    None,
    MaxSteps                 \* bound: instructions of others, and calls

ASSUME GovernanceAssumption ==
    /\ Mints \subseteq Nat /\ Rates \subseteq Nat
    /\ MAX_FEE_RATE \in Nat /\ MAX_PROTOCOL_FEE_RATE \in Nat /\ NUM_REWARDS \in Nat
    /\ None \notin Mints \cup Users

VARIABLES
    configs,      \* by config: fee, collect and super authority, default protocol fee rate
    feeTiers,     \* by address: default fee rate
    extensions,   \* by address: authority of the extension, authority of badges
    badges,       \* addresses of the badges there are
    pools,        \* by address: rates, protocol fees owed, rewards
    call,         \* the transaction a client call has prepared, or None
    appointed,    \* history, by config: who was named for any of its powers
    intruded,     \* history: configs governed by somebody never appointed
    steps

chain == <<configs, feeTiers, extensions, badges, pools>>
vars == <<chain, call, appointed, intruded, steps>>

Put(f, k, v) == [x \in DOMAIN f \cup {k} |-> IF x = k THEN v ELSE f[x]]

NewReward(authority) == [mint |-> None, authority |-> authority, emissions |-> 0]

Init ==
    /\ configs = <<>> /\ feeTiers = <<>> /\ extensions = <<>> /\ badges = {} /\ pools = <<>>
    /\ call = None
    /\ appointed = [c \in Configs |-> {}] /\ intruded = {} /\ steps = 0

\* One more instruction, by u for things of config c; it may name further users.
By(u, c, named) ==
    /\ steps < MaxSteps /\ steps' = steps + 1
    /\ IF u \in appointed[c]
       THEN appointed' = [appointed EXCEPT ![c] = @ \cup named] /\ UNCHANGED intruded
       ELSE intruded' = intruded \cup {c} /\ UNCHANGED appointed
    /\ UNCHANGED call

\* Open to everybody.
ByAnyone == steps < MaxSteps /\ steps' = steps + 1 /\ UNCHANGED <<call, appointed, intruded>>

-----------------------------------------------------------------------------
(* Configurations and fee tiers. *)

initialize_config(ix) ==
    /\ ix.config \notin DOMAIN configs /\ ix.rate <= MAX_PROTOCOL_FEE_RATE
    /\ configs' = Put(configs, ix.config,
                      [fee |-> ix.fee, collect |-> ix.collect, super |-> ix.super, rate |-> ix.rate])
    /\ appointed' = [appointed EXCEPT ![ix.config] = {ix.fee, ix.collect, ix.super}]
    /\ steps < MaxSteps /\ steps' = steps + 1
    /\ UNCHANGED <<feeTiers, extensions, badges, pools, call, intruded>>

initialize_fee_tier(ix) ==
    /\ ix.config \in DOMAIN configs /\ ix.signer = configs[ix.config].fee
    /\ ix.feeTier = <<ix.config, ix.spacing>> /\ ix.feeTier \notin DOMAIN feeTiers
    /\ ix.rate <= MAX_FEE_RATE
    /\ feeTiers' = Put(feeTiers, ix.feeTier, ix.rate)
    /\ By(ix.signer, ix.feeTier[1], {})
    /\ UNCHANGED <<configs, extensions, badges, pools>>

SetConfig(ix, held, updated) ==
    /\ ix.config \in DOMAIN configs /\ ix.signer = held
    /\ configs' = [configs EXCEPT ![ix.config] = updated]
    /\ UNCHANGED <<feeTiers, extensions, badges, pools>>

set_fee_authority(ix) ==
    /\ SetConfig(ix, configs[ix.config].fee, [configs[ix.config] EXCEPT !.fee = ix.new])
    /\ By(ix.signer, ix.config, {ix.new})

set_collect_protocol_fees_authority(ix) ==
    /\ SetConfig(ix, configs[ix.config].collect, [configs[ix.config] EXCEPT !.collect = ix.new])
    /\ By(ix.signer, ix.config, {ix.new})

set_reward_emissions_super_authority(ix) ==
    /\ SetConfig(ix, configs[ix.config].super, [configs[ix.config] EXCEPT !.super = ix.new])
    /\ By(ix.signer, ix.config, {ix.new})

set_default_protocol_fee_rate(ix) ==
    /\ ix.rate <= MAX_PROTOCOL_FEE_RATE
    /\ SetConfig(ix, configs[ix.config].fee, [configs[ix.config] EXCEPT !.rate = ix.rate])
    /\ By(ix.signer, ix.config, {})

set_default_fee_rate(ix) ==
    /\ ix.config \in DOMAIN configs /\ ix.feeTier \in DOMAIN feeTiers
    /\ ix.feeTier[1] = ix.config /\ ix.signer = configs[ix.config].fee
    /\ ix.rate <= MAX_FEE_RATE
    /\ feeTiers' = [feeTiers EXCEPT ![ix.feeTier] = ix.rate]
    /\ By(ix.signer, ix.feeTier[1], {})
    /\ UNCHANGED <<configs, extensions, badges, pools>>

-----------------------------------------------------------------------------
(* The extension and the badges. *)

initialize_config_extension(ix) ==
    /\ ix.config \in DOMAIN configs /\ ix.signer = configs[ix.config].fee
    /\ ix.extension = <<ix.config>> /\ ix.extension \notin DOMAIN extensions
    /\ extensions' = Put(extensions, ix.extension, [authority |-> ix.signer, badge |-> ix.signer])
    /\ By(ix.signer, ix.extension[1], {})
    /\ UNCHANGED <<configs, feeTiers, badges, pools>>

ExtensionOf(ix) ==
    /\ ix.config \in DOMAIN configs /\ ix.extension \in DOMAIN extensions
    /\ ix.extension[1] = ix.config

set_config_extension_authority(ix) ==
    /\ ExtensionOf(ix) /\ ix.signer = extensions[ix.extension].authority
    /\ extensions' = [extensions EXCEPT ![ix.extension].authority = ix.new]
    /\ By(ix.signer, ix.extension[1], {ix.new})
    /\ UNCHANGED <<configs, feeTiers, badges, pools>>

set_token_badge_authority(ix) ==
    /\ ExtensionOf(ix) /\ ix.signer = extensions[ix.extension].authority
    /\ extensions' = [extensions EXCEPT ![ix.extension].badge = ix.new]
    /\ By(ix.signer, ix.extension[1], {ix.new})
    /\ UNCHANGED <<configs, feeTiers, badges, pools>>

initialize_token_badge(ix) ==
    /\ ExtensionOf(ix) /\ ix.signer = extensions[ix.extension].badge
    /\ ix.badge = <<ix.config, ix.mint>> /\ ix.badge \notin badges
    /\ badges' = badges \cup {ix.badge}
    /\ By(ix.signer, ix.badge[1], {})
    /\ UNCHANGED <<configs, feeTiers, extensions, pools>>

delete_token_badge(ix) ==
    /\ ExtensionOf(ix) /\ ix.signer = extensions[ix.extension].badge
    /\ ix.badge = <<ix.config, ix.mint>> /\ ix.badge \in badges
    /\ badges' = badges \ {ix.badge}
    /\ By(ix.signer, ix.badge[1], {})
    /\ UNCHANGED <<configs, feeTiers, extensions, pools>>

-----------------------------------------------------------------------------
(* Mints. *)

IsToken(mint) == MintInfo[mint].program = "token"

Welcome == {"TransferFeeConfig", "TokenMetadata", "MetadataPointer",
            "ConfidentialTransferMint", "ConfidentialTransferFeeConfig"}
NeedBadge == {"PermanentDelegate", "TransferHook", "MintCloseAuthority", "DefaultAccountState"}

is_supported_token_mint(mint, badge_initialized) ==
    LET info == MintInfo[mint]
    IN  \/ info.program = "token"
        \/ /\ ~info.native
           /\ info.freeze => badge_initialized
           /\ info.extensions \subseteq Welcome \cup (IF badge_initialized THEN NeedBadge ELSE {})
           /\ ~("DefaultAccountState" \in info.extensions /\ info.frozen)

\* The account passed must be at the badge's address, and hold a badge.
is_token_badge_initialized(config, mint, badge) == badge = <<config, mint>> /\ badge \in badges

-----------------------------------------------------------------------------
(* Pools. *)

\* The mints an instruction may be given: the first version knows Token
\* accounts only, the second asks whether the mint is supported.
MintAllowed(ix, config, mint, badge) ==
    IF ix.v2 THEN is_supported_token_mint(mint, is_token_badge_initialized(config, mint, badge))
             ELSE IsToken(mint)

\* Mutant: the mints may come in either order.
CanInitializePoolEitherOrder(ix) ==
    /\ ix.config \in DOMAIN configs /\ ix.feeTier \in DOMAIN feeTiers
    /\ ix.pool = <<ix.config, ix.mintA, ix.mintB, ix.spacing>> /\ ix.pool \notin DOMAIN pools
    /\ ix.feeTier = <<ix.config, ix.spacing>>
    /\ ix.mintA # ix.mintB
    /\ MintAllowed(ix, ix.config, ix.mintA, IF ix.v2 THEN ix.badgeA ELSE None)
    /\ MintAllowed(ix, ix.config, ix.mintB, IF ix.v2 THEN ix.badgeB ELSE None)

CanInitializePool(ix) ==
    /\ ix.config \in DOMAIN configs /\ ix.feeTier \in DOMAIN feeTiers
    /\ ix.pool = <<ix.config, ix.mintA, ix.mintB, ix.spacing>> /\ ix.pool \notin DOMAIN pools
    /\ ix.feeTier = <<ix.config, ix.spacing>>
    /\ ix.mintA < ix.mintB
    /\ ix.v2 => ix.badgeA = <<ix.config, ix.mintA>> /\ ix.badgeB = <<ix.config, ix.mintB>>
    /\ MintAllowed(ix, ix.config, ix.mintA, IF ix.v2 THEN ix.badgeA ELSE None)
    /\ MintAllowed(ix, ix.config, ix.mintB, IF ix.v2 THEN ix.badgeB ELSE None)

PoolInitialized(ix) ==
    Put(pools, ix.pool,
        [feeRate |-> feeTiers[ix.feeTier], protocolRate |-> configs[ix.config].rate, owed |-> FALSE,
         rewards |-> [i \in 1..NUM_REWARDS |-> NewReward(configs[ix.config].super)]])

initialize_pool(ix) ==
    /\ CanInitializePool(ix)
    /\ pools' = PoolInitialized(ix)
    /\ ByAnyone
    /\ UNCHANGED <<configs, feeTiers, extensions, badges>>

\* Mutant: the pool may belong to another configuration.
PoolUnderAny(ix) == ix.config \in DOMAIN configs /\ ix.pool \in DOMAIN pools

\* The pool must belong to the configuration whose authority signs.
PoolUnder(ix) == ix.config \in DOMAIN configs /\ ix.pool \in DOMAIN pools /\ ix.pool[1] = ix.config

SetPool(ix, updated, named) ==
    /\ pools' = [pools EXCEPT ![ix.pool] = updated]
    /\ By(ix.signer, ix.pool[1], named)
    /\ UNCHANGED <<configs, feeTiers, extensions, badges>>

set_fee_rate(ix) ==
    /\ PoolUnder(ix) /\ ix.signer = configs[ix.config].fee /\ ix.rate <= MAX_FEE_RATE
    /\ SetPool(ix, [pools[ix.pool] EXCEPT !.feeRate = ix.rate], {})

set_protocol_fee_rate(ix) ==
    /\ PoolUnder(ix) /\ ix.signer = configs[ix.config].fee /\ ix.rate <= MAX_PROTOCOL_FEE_RATE
    /\ SetPool(ix, [pools[ix.pool] EXCEPT !.protocolRate = ix.rate], {})

CanCollectProtocolFees(ix) ==
    /\ PoolUnder(ix) /\ ix.signer = configs[ix.config].collect
    /\ ix.v2 \/ (IsToken(ix.pool[2]) /\ IsToken(ix.pool[3]))

collect_protocol_fees(ix) ==
    /\ CanCollectProtocolFees(ix)
    /\ SetPool(ix, [pools[ix.pool] EXCEPT !.owed = FALSE], {})

-----------------------------------------------------------------------------
(* Rewards. *)

RewardOf(ix) == pools[ix.pool].rewards[ix.index]

HeldReward(ix) ==
    /\ ix.pool \in DOMAIN pools /\ ix.index \in 1..NUM_REWARDS
    /\ ix.signer = RewardOf(ix).authority

Uninitialized(p) == {i \in 1..NUM_REWARDS : pools[p].rewards[i].mint = None}

\* Mutant: any reward without a mint will do.
AnyUninitialized(ix) == ix.index \in Uninitialized(ix.pool)

\* Rewards are initialised lowest first.
Lowest(ix) == ix.index \in Uninitialized(ix.pool)
              /\ \A i \in Uninitialized(ix.pool) : ix.index <= i

initialize_reward(ix) ==
    /\ HeldReward(ix) /\ Lowest(ix)
    /\ ix.v2 => ix.badge = <<ix.pool[1], ix.mint>>
    /\ MintAllowed(ix, ix.pool[1], ix.mint, IF ix.v2 THEN ix.badge ELSE None)
    /\ SetPool(ix, [pools[ix.pool] EXCEPT !.rewards[ix.index].mint = ix.mint], {})

set_reward_authority(ix) ==
    /\ HeldReward(ix)
    /\ SetPool(ix, [pools[ix.pool] EXCEPT !.rewards[ix.index].authority = ix.new], {ix.new})

set_reward_authority_by_super_authority(ix) ==
    /\ PoolUnder(ix) /\ ix.signer = configs[ix.config].super /\ ix.index \in 1..NUM_REWARDS
    /\ SetPool(ix, [pools[ix.pool] EXCEPT !.rewards[ix.index].authority = ix.new], {ix.new})

\* Whether the vault holds a day's emission is left open.
SetEmissions(ix, refusesToken2022) ==
    /\ HeldReward(ix) /\ RewardOf(ix).mint # None
    /\ refusesToken2022 => IsToken(RewardOf(ix).mint)
    /\ SetPool(ix, [pools[ix.pool] EXCEPT !.rewards[ix.index].emissions = ix.rate], {})

set_reward_emissions(ix) == SetEmissions(ix, TRUE)
set_reward_emissions_v2(ix) == SetEmissions(ix, FALSE)

\* Swaps leave protocol fees to be collected.
Trade(p) ==
    /\ pools[p].protocolRate > 0 /\ pools[p].feeRate > 0 /\ ~pools[p].owed
    /\ pools' = [pools EXCEPT ![p].owed = TRUE]
    /\ ByAnyone
    /\ UNCHANGED <<configs, feeTiers, extensions, badges>>

-----------------------------------------------------------------------------
(* The client. *)

\* Mutant: the client does not look at the default state of accounts.
SupportedWhenFrozen(config, mint) ==
    LET badge == getTokenBadge(config, mint) \in badges
    IN  \/ IsToken(mint)
        \/ /\ ~MintInfo[mint].native
           /\ MintInfo[mint].freeze => badge
           /\ MintInfo[mint].extensions \subseteq Welcome \cup (IF badge THEN NeedBadge ELSE {})

\* What PoolUtil.isSupportedToken answers, from its own list of extensions.
isSupportedToken(config, mint) ==
    LET info == MintInfo[mint]
        badge == getTokenBadge(config, mint) \in badges
        supported(e) ==
            \/ e \in {"TransferFeeConfig", "TokenMetadata", "MetadataPointer",
                      "ConfidentialTransferMint", "ConfidentialTransferFeeConfig"}
            \/ badge /\ e \in {"PermanentDelegate", "TransferHook", "MintCloseAuthority"}
            \/ badge /\ e = "DefaultAccountState" /\ ~info.frozen
    IN  \/ IsToken(mint)
        \/ /\ ~info.native
           /\ ~(info.freeze /\ ~badge)
           /\ \A e \in info.extensions : supported(e)

isV2IxRequiredPool(mintA, mintB) == ~IsToken(mintA) \/ ~IsToken(mintB)

Prepare(prepared) ==
    /\ call = None /\ steps < MaxSteps /\ steps' = steps + 1
    /\ call' = prepared
    /\ UNCHANGED <<chain, appointed, intruded>>

\* The caller has asked whether it supports the two mints.
createPool(c, mintA, mintB, spacing) ==
    LET pool == getWhirlpool(c, mintA, mintB, spacing)
        tier == getFeeTier(c, spacing)
    IN  /\ mintA < mintB /\ tier \in DOMAIN feeTiers
        /\ Prepare([kind |-> "create", badged |-> badges,
                    supported |-> isSupportedToken(c, mintA) /\ isSupportedToken(c, mintB),
                    ix |-> IF isV2IxRequiredPool(mintA, mintB)
                           THEN initializePoolV2Ix(c, pool, mintA, mintB, getTokenBadge(c, mintA),
                                                   getTokenBadge(c, mintB), tier, spacing)
                           ELSE initializePoolIx(c, pool, mintA, mintB, tier, spacing)])

\* It throws unless the wallet collects the fees of every pool.
collectProtocolFees(u, ps) ==
    /\ ps # {} /\ \A p \in ps : configs[p[1]].collect = u
    /\ Prepare([kind |-> "collect",
                ixs |-> {IF isV2IxRequiredPool(p[2], p[3])
                         THEN collectProtocolFeesV2Ix(p[1], p, u)
                         ELSE collectProtocolFeesIx(p[1], p, u) : p \in ps}])

Accepted(c) ==
    CASE c.kind = "create" -> CanInitializePool(c.ix)
      [] c.kind = "collect" -> \A ix \in c.ixs : CanCollectProtocolFees(ix)

\* The transaction arrives, in whole or not at all.
Submit ==
    /\ call # None /\ call' = None
    /\ pools' = IF ~Accepted(call) THEN pools
                ELSE IF call.kind = "create" THEN PoolInitialized(call.ix)
                ELSE [p \in DOMAIN pools |->
                        IF p \in {ix.pool : ix \in call.ixs} THEN [pools[p] EXCEPT !.owed = FALSE]
                                                            ELSE pools[p]]
    /\ UNCHANGED <<configs, feeTiers, extensions, badges, appointed, intruded, steps>>

-----------------------------------------------------------------------------
(* Anybody, with any accounts. *)

InitializeConfig ==
    \E c \in Configs, fee, collect, super \in Users, r \in Rates :
        initialize_config(initializeConfigIx(c, fee, collect, super, r))
InitializeFeeTier ==
    \E c, d \in Configs, s \in Spacings, r \in Rates, u \in Users :
        initialize_fee_tier(initializeFeeTierIx(c, getFeeTier(d, s), s, r, u))
SetFeeAuthority ==
    \E c \in Configs, u, new \in Users : set_fee_authority(setFeeAuthorityIx(c, u, new))
SetCollectProtocolFeesAuthority ==
    \E c \in Configs, u, new \in Users :
        set_collect_protocol_fees_authority(setCollectProtocolFeesAuthorityIx(c, u, new))
SetRewardEmissionsSuperAuthority ==
    \E c \in Configs, u, new \in Users :
        set_reward_emissions_super_authority(setRewardEmissionsSuperAuthorityIx(c, u, new))
SetDefaultProtocolFeeRate ==
    \E c \in Configs, u \in Users, r \in Rates :
        set_default_protocol_fee_rate(setDefaultProtocolFeeRateIx(c, u, r))
SetDefaultFeeRate ==
    \E c \in Configs, u \in Users, s \in Spacings, r \in Rates :
        set_default_fee_rate(setDefaultFeeRateIx(c, u, s, r))
InitializeConfigExtension ==
    \E c, d \in Configs, u \in Users :
        initialize_config_extension(initializeConfigExtensionIx(c, getConfigExtension(d), u))
SetConfigExtensionAuthority ==
    \E c \in Configs, e \in DOMAIN extensions, u, new \in Users :
        set_config_extension_authority(setConfigExtensionAuthorityIx(c, e, u, new))
SetTokenBadgeAuthority ==
    \E c \in Configs, e \in DOMAIN extensions, u, new \in Users :
        set_token_badge_authority(setTokenBadgeAuthorityIx(c, e, u, new))
InitializeTokenBadge ==
    \E c, d \in Configs, e \in DOMAIN extensions, u \in Users, m \in Mints :
        initialize_token_badge(initializeTokenBadgeIx(c, e, u, m, getTokenBadge(d, m)))
DeleteTokenBadge ==
    \E c \in Configs, e \in DOMAIN extensions, u \in Users, m \in Mints, b \in badges :
        delete_token_badge(deleteTokenBadgeIx(c, e, u, m, b))
InitializePool ==
    \E c \in Configs, a, b \in Mints, s \in Spacings, t \in DOMAIN feeTiers :
        initialize_pool(initializePoolIx(c, getWhirlpool(c, a, b, s), a, b, t, s))
InitializePoolV2 ==
    \E c, d \in Configs, a, b \in Mints, s \in Spacings, t \in DOMAIN feeTiers :
        initialize_pool(initializePoolV2Ix(c, getWhirlpool(c, a, b, s), a, b, getTokenBadge(d, a),
                                           getTokenBadge(d, b), t, s))
SetFeeRate ==
    \E c \in Configs, p \in DOMAIN pools, u \in Users, r \in Rates : set_fee_rate(setFeeRateIx(c, p, u, r))
SetProtocolFeeRate ==
    \E c \in Configs, p \in DOMAIN pools, u \in Users, r \in Rates :
        set_protocol_fee_rate(setProtocolFeeRateIx(c, p, u, r))
CollectProtocolFees ==
    \E c \in Configs, p \in DOMAIN pools, u \in Users :
        collect_protocol_fees(collectProtocolFeesIx(c, p, u))
CollectProtocolFeesV2 ==
    \E c \in Configs, p \in DOMAIN pools, u \in Users :
        collect_protocol_fees(collectProtocolFeesV2Ix(c, p, u))
InitializeReward ==
    \E p \in DOMAIN pools, i \in 1..NUM_REWARDS, m \in Mints, u \in Users :
        initialize_reward(initializeRewardIx(p, i, m, u))
InitializeRewardV2 ==
    \E p \in DOMAIN pools, i \in 1..NUM_REWARDS, m \in Mints, c \in Configs, u \in Users :
        initialize_reward(initializeRewardV2Ix(p, i, m, getTokenBadge(c, m), u))
SetRewardAuthority ==
    \E p \in DOMAIN pools, i \in 1..NUM_REWARDS, u, new \in Users :
        set_reward_authority(setRewardAuthorityIx(p, i, u, new))
SetRewardAuthorityBySuperAuthority ==
    \E c \in Configs, p \in DOMAIN pools, i \in 1..NUM_REWARDS, u, new \in Users :
        set_reward_authority_by_super_authority(setRewardAuthorityBySuperAuthorityIx(c, p, i, u, new))
SetRewardEmissions ==
    \E p \in DOMAIN pools, i \in 1..NUM_REWARDS, u \in Users, r \in Rates :
        set_reward_emissions(setRewardEmissionsIx(p, i, u, r))
SetRewardEmissionsV2 ==
    \E p \in DOMAIN pools, i \in 1..NUM_REWARDS, u \in Users, r \in Rates :
        set_reward_emissions_v2(setRewardEmissionsV2Ix(p, i, u, r))

Next ==
    \/ InitializeConfig \/ InitializeFeeTier
    \/ SetFeeAuthority \/ SetCollectProtocolFeesAuthority \/ SetRewardEmissionsSuperAuthority
    \/ SetDefaultProtocolFeeRate \/ SetDefaultFeeRate
    \/ InitializeConfigExtension \/ SetConfigExtensionAuthority \/ SetTokenBadgeAuthority
    \/ InitializeTokenBadge \/ DeleteTokenBadge
    \/ InitializePool \/ InitializePoolV2
    \/ SetFeeRate \/ SetProtocolFeeRate \/ CollectProtocolFees \/ CollectProtocolFeesV2
    \/ InitializeReward \/ InitializeRewardV2
    \/ SetRewardAuthority \/ SetRewardAuthorityBySuperAuthority
    \/ SetRewardEmissions \/ SetRewardEmissionsV2
    \/ \E p \in DOMAIN pools : Trade(p)
    \/ \E c \in Configs, a, b \in Mints, s \in Spacings : createPool(c, a, b, s)
    \/ \E u \in Users, ps \in SUBSET DOMAIN pools : collectProtocolFees(u, ps)
    \/ Submit

Spec == Init /\ [][Next]_vars

-----------------------------------------------------------------------------
\* Under a configuration there is one pool for two mints and a spacing,
\* whoever names the mints in whichever order: liquidity is not split.
OnePoolPerPair ==
    \A p, q \in DOMAIN pools :
        p[1] = q[1] /\ p[4] = q[4] /\ {p[2], p[3]} = {q[2], q[3]} => p = q

\* Those who hold a power over a configuration, its extension or its pools.
Holders(c) ==
    (IF c \in DOMAIN configs THEN {configs[c].fee, configs[c].collect, configs[c].super} ELSE {})
    \cup (UNION {{extensions[e].authority, extensions[e].badge} : e \in {x \in DOMAIN extensions : x[1] = c}})
    \cup (UNION {{pools[p].rewards[i].authority : i \in 1..NUM_REWARDS}
                  : p \in {x \in DOMAIN pools : x[1] = c}})

\* Power is only ever passed on: nobody governs anything of a configuration,
\* or changed it in the past, who was not named by its founder or by somebody
\* so named; owning another configuration helps nobody.
PowerIsGranted == intruded = {} /\ \A c \in Configs : Holders(c) \subseteq appointed[c]

\* The rewards of a pool are the first so many, and only they are paid; the
\* client takes the first one without a mint for the end of the list.
RewardsFromLowest ==
    \A p \in DOMAIN pools : \A i \in 1..NUM_REWARDS :
        pools[p].rewards[i].mint = None =>
            /\ pools[p].rewards[i].emissions = 0
            /\ \A j \in i..NUM_REWARDS : pools[p].rewards[j].mint = None

\* The transaction createPool prepared is accepted whenever it arrives, unless
\* somebody made the same pool before, the caller was told that a mint is not
\* supported, or a badge was deleted meanwhile; and when the caller was told
\* so, only a new badge makes the program think otherwise.
CreateAccepted ==
    (call # None /\ call.kind = "create") =>
        /\ \/ CanInitializePool(call.ix)
           \/ call.ix.pool \in DOMAIN pools
           \/ ~call.supported
           \/ ~(call.badged \subseteq badges)
        /\ (~call.supported /\ badges \subseteq call.badged) => ~CanInitializePool(call.ix)

\* The transaction collectProtocolFees prepared, of whatever pools and
\* versions, is accepted for as long as the wallet remains the authority.
CollectAccepted ==
    (call # None /\ call.kind = "collect") =>
        \A ix \in call.ixs :
            CanCollectProtocolFees(ix) \/ configs[ix.config].collect # ix.signer

\* Neither is refused but for what others did after it was prepared
\* (whirlpool-client-impl.ts createPool, composites/collect-protocol-fees.ts).
ClientAccepted == CreateAccepted /\ CollectAccepted

=============================================================================
