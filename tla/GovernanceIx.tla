---------------------------- MODULE GovernanceIx ----------------------------
(***************************************************************************)
(* The instructions that set up and govern pools, as the SDK builds them.  *)
(* The caller names every account and authority; a builder derives an      *)
(* address only where it says so.  "signer" is the authority that has to   *)
(* sign; nobody in particular has to sign where there is none.             *)
(***************************************************************************)
EXTENDS Integers

\* Addresses derived from seeds are different for different seeds.
getWhirlpool(config, mintA, mintB, spacing) == <<config, mintA, mintB, spacing>>
getFeeTier(config, spacing) == <<config, spacing>>
getConfigExtension(config) == <<config>>
getTokenBadge(config, mint) == <<config, mint>>

-----------------------------------------------------------------------------
(* Configuration. *)

initializeConfigIx(config, feeAuthority, collectAuthority, superAuthority, rate) ==
    [config |-> config, fee |-> feeAuthority, collect |-> collectAuthority,
     super |-> superAuthority, rate |-> rate]

initializeFeeTierIx(config, feeTierPda, spacing, rate, feeAuthority) ==
    [config |-> config, feeTier |-> feeTierPda, spacing |-> spacing, rate |-> rate,
     signer |-> feeAuthority]

setFeeAuthorityIx(config, authority, new) == [config |-> config, signer |-> authority, new |-> new]

setCollectProtocolFeesAuthorityIx(config, authority, new) ==
    [config |-> config, signer |-> authority, new |-> new]

setRewardEmissionsSuperAuthorityIx(config, authority, new) ==
    [config |-> config, signer |-> authority, new |-> new]

setDefaultProtocolFeeRateIx(config, authority, rate) ==
    [config |-> config, signer |-> authority, rate |-> rate]

\* The fee tier's address is derived.
setDefaultFeeRateIx(config, authority, spacing, rate) ==
    [config |-> config, feeTier |-> getFeeTier(config, spacing), signer |-> authority, rate |-> rate]

-----------------------------------------------------------------------------
(* The extension of a configuration, and badges of mints. *)

initializeConfigExtensionIx(config, extensionPda, feeAuthority) ==
    [config |-> config, extension |-> extensionPda, signer |-> feeAuthority]

setConfigExtensionAuthorityIx(config, extension, authority, new) ==
    [config |-> config, extension |-> extension, signer |-> authority, new |-> new]

setTokenBadgeAuthorityIx(config, extension, authority, new) ==
    [config |-> config, extension |-> extension, signer |-> authority, new |-> new]

initializeTokenBadgeIx(config, extension, authority, mint, badgePda) ==
    [config |-> config, extension |-> extension, signer |-> authority, mint |-> mint, badge |-> badgePda]

deleteTokenBadgeIx(config, extension, authority, mint, badge) ==
    [config |-> config, extension |-> extension, signer |-> authority, mint |-> mint, badge |-> badge]

-----------------------------------------------------------------------------
(* Pools and their rewards. *)

initializePoolIx(config, whirlpoolPda, mintA, mintB, feeTier, spacing) ==
    [v2 |-> FALSE, config |-> config, pool |-> whirlpoolPda, mintA |-> mintA, mintB |-> mintB,
     feeTier |-> feeTier, spacing |-> spacing]

initializePoolV2Ix(config, whirlpoolPda, mintA, mintB, badgeA, badgeB, feeTier, spacing) ==
    [v2 |-> TRUE, config |-> config, pool |-> whirlpoolPda, mintA |-> mintA, mintB |-> mintB,
     badgeA |-> badgeA, badgeB |-> badgeB, feeTier |-> feeTier, spacing |-> spacing]

setFeeRateIx(config, pool, authority, rate) ==
    [config |-> config, pool |-> pool, signer |-> authority, rate |-> rate]

setProtocolFeeRateIx(config, pool, authority, rate) ==
    [config |-> config, pool |-> pool, signer |-> authority, rate |-> rate]

initializeRewardIx(pool, index, mint, authority) ==
    [v2 |-> FALSE, pool |-> pool, index |-> index, mint |-> mint, signer |-> authority]

initializeRewardV2Ix(pool, index, mint, badge, authority) ==
    [v2 |-> TRUE, pool |-> pool, index |-> index, mint |-> mint, badge |-> badge, signer |-> authority]

setRewardAuthorityIx(pool, index, authority, new) ==
    [pool |-> pool, index |-> index, signer |-> authority, new |-> new]

setRewardAuthorityBySuperAuthorityIx(config, pool, index, authority, new) ==
    [config |-> config, pool |-> pool, index |-> index, signer |-> authority, new |-> new]

setRewardEmissionsIx(pool, index, authority, rate) ==
    [pool |-> pool, index |-> index, signer |-> authority, rate |-> rate]

setRewardEmissionsV2Ix(pool, index, authority, rate) ==
    [pool |-> pool, index |-> index, signer |-> authority, rate |-> rate]

collectProtocolFeesIx(config, pool, authority) ==
    [v2 |-> FALSE, config |-> config, pool |-> pool, signer |-> authority]

collectProtocolFeesV2Ix(config, pool, authority) ==
    [v2 |-> TRUE, config |-> config, pool |-> pool, signer |-> authority]

=============================================================================
