--------------------------- MODULE GovernanceProofs ---------------------------
(***************************************************************************)
(* For any number of configurations, users, mints, tick spacings, rewards  *)
(* and instructions: power is only passed on, no pair of mints gets two    *)
(* pools, and rewards fill their places in order.                          *)
(***************************************************************************)
EXTENDS Governance, TLAPS

Config == [fee : Users, collect : Users, super : Users, rate : Rates]
Extension == [authority : Users, badge : Users]
Reward == [mint : Mints \cup {None}, authority : Users, emissions : Rates \cup {0}]
Pool == [feeRate : Rates, protocolRate : Rates, owed : BOOLEAN,
         rewards : [1..NUM_REWARDS -> Reward]]

\* Every account is a function on the addresses in use.
TypesInv ==
    /\ configs \in [DOMAIN configs -> Config]
    /\ feeTiers \in [DOMAIN feeTiers -> Rates]
    /\ extensions \in [DOMAIN extensions -> Extension]
    /\ pools \in [DOMAIN pools -> Pool]
    /\ appointed \in [Configs -> SUBSET Users]

\* Whatever names a configuration was made under one that exists.
Rooted ==
    /\ DOMAIN configs \subseteq Configs
    /\ \A e \in DOMAIN extensions : e[1] \in DOMAIN configs
    /\ \A p \in DOMAIN pools : p[1] \in DOMAIN configs

\* A pool's address spells out its mints in order.
IsAddress(p) == p = <<p[1], p[2], p[3], p[4]>> /\ {p[2], p[3]} \subseteq Mints /\ p[2] < p[3]

Ordered == \A p \in DOMAIN pools : IsAddress(p)

\* What the client has prepared names mints.
CallInv == (call # None /\ call.kind = "create") => call.ix.mintA \in Mints /\ call.ix.mintB \in Mints

\* The three powers, one by one.
Granted ==
    /\ \A c \in DOMAIN configs : {configs[c].fee, configs[c].collect, configs[c].super} \subseteq appointed[c]
    /\ \A e \in DOMAIN extensions :
          {extensions[e].authority, extensions[e].badge} \subseteq appointed[e[1]]
    /\ \A p \in DOMAIN pools : \A i \in 1..NUM_REWARDS : pools[p].rewards[i].authority \in appointed[p[1]]

InOrder(q) ==
    \A i \in 1..NUM_REWARDS :
        q.rewards[i].mint = None =>
            q.rewards[i].emissions = 0 /\ \A j \in i..NUM_REWARDS : q.rewards[j].mint = None

Inv == /\ TypesInv /\ Rooted /\ Ordered /\ CallInv /\ Granted /\ intruded = {}
       /\ \A p \in DOMAIN pools : InOrder(pools[p])

-----------------------------------------------------------------------------
(* What all instructions of one kind do. *)

\* An instruction signed by an appointed user adds those it names, and no more.
LEMMA Appoints ==
    ASSUME Inv, NEW u, NEW c \in Configs, NEW named \in SUBSET Users, By(u, c, named), u \in appointed[c]
    PROVE  /\ appointed' \in [Configs -> SUBSET Users] /\ intruded' = {}
           /\ appointed'[c] = appointed[c] \cup named
           /\ \A d \in Configs : appointed[d] \subseteq appointed'[d]
           /\ CallInv'
  BY DEF Inv, TypesInv, By, CallInv

\* One pool changes.
LEMMA PoolChanges ==
    ASSUME Inv, NEW p \in DOMAIN pools, NEW q \in Pool, NEW u, NEW named \in SUBSET Users,
           pools' = [pools EXCEPT ![p] = q], UNCHANGED <<configs, feeTiers, extensions, badges>>,
           By(u, p[1], named), u \in appointed[p[1]], InOrder(q),
           \A i \in 1..NUM_REWARDS : q.rewards[i].authority \in appointed[p[1]] \cup named
    PROVE  Inv'
  <1>1. p[1] \in Configs
    BY DEF Inv, Rooted
  <1>2. /\ appointed' \in [Configs -> SUBSET Users] /\ intruded' = {}
        /\ appointed'[p[1]] = appointed[p[1]] \cup named
        /\ \A d \in Configs : appointed[d] \subseteq appointed'[d]
        /\ CallInv'
    BY <1>1, Appoints
  <1>3. DOMAIN pools' = DOMAIN pools /\ \A x \in DOMAIN pools : pools'[x] = IF x = p THEN q ELSE pools[x]
    BY DEF Inv, TypesInv
  <1>4. TypesInv'
    BY <1>2, <1>3 DEF Inv, TypesInv
  <1>5. Rooted' /\ Ordered'
    BY <1>3 DEF Inv, Rooted, Ordered
  <1>6. Granted'
    <2>1. \A c \in DOMAIN configs : appointed[c] \subseteq appointed'[c]
      BY <1>2 DEF Inv, Rooted
    <2>2. \A x \in DOMAIN pools : \A i \in 1..NUM_REWARDS : pools'[x].rewards[i].authority \in appointed'[x[1]]
      BY <2>1, <1>2, <1>3 DEF Inv, Granted, Rooted
    <2> QED BY <1>3, <2>1, <2>2 DEF Inv, Granted, Rooted
  <1>7. \A x \in DOMAIN pools' : InOrder(pools[x])'
    BY <1>3 DEF Inv, InOrder
  <1> QED BY <1>2, <1>4, <1>5, <1>6, <1>7 DEF Inv

-----------------------------------------------------------------------------
(* One lemma per kind of instruction. *)

LEMMA InvInit == Init => Inv
  BY DEF Init, Inv, TypesInv, Rooted, Ordered, CallInv, Granted

\* The config of an instruction is replaced by one that names only its
\* previous holders and those appointed now.
LEMMA ConfigChanges ==
    ASSUME Inv, NEW c \in DOMAIN configs, NEW v \in Config, NEW u, NEW named \in SUBSET Users,
           configs' = [configs EXCEPT ![c] = v], UNCHANGED <<feeTiers, extensions, badges, pools>>,
           By(u, c, named), u \in appointed[c],
           {v.fee, v.collect, v.super} \subseteq appointed[c] \cup named
    PROVE  Inv'
  <1>1. c \in Configs
    BY DEF Inv, Rooted
  <1>2. /\ appointed' \in [Configs -> SUBSET Users] /\ intruded' = {}
        /\ appointed'[c] = appointed[c] \cup named
        /\ \A d \in Configs : appointed[d] \subseteq appointed'[d]
        /\ CallInv'
    BY <1>1, Appoints
  <1>3. /\ DOMAIN configs' = DOMAIN configs
        /\ \A d \in DOMAIN configs : configs'[d] = IF d = c THEN v ELSE configs[d]
    BY DEF Inv, TypesInv
  <1>4. TypesInv'
    BY <1>2, <1>3 DEF Inv, TypesInv
  <1>5. Rooted' /\ Ordered'
    BY <1>3 DEF Inv, Rooted, Ordered
  <1>6. Granted'
    <2>1. \A d \in DOMAIN configs : appointed[d] \subseteq appointed'[d]
      BY <1>2 DEF Inv, Rooted
    <2>2. \A d \in DOMAIN configs' :
            {configs'[d].fee, configs'[d].collect, configs'[d].super} \subseteq appointed'[d]
      BY <2>1, <1>2, <1>3 DEF Inv, Granted
    <2> QED BY <2>1, <2>2 DEF Inv, Granted, Rooted
  <1>7. \A x \in DOMAIN pools' : InOrder(pools[x])'
    BY DEF Inv, InOrder
  <1> QED BY <1>2, <1>4, <1>5, <1>6, <1>7 DEF Inv

\* Badges and fee tiers give nobody a power.
LEMMA PowerlessChanges ==
    ASSUME Inv, NEW u, NEW c \in DOMAIN configs, UNCHANGED <<configs, extensions, pools>>,
           feeTiers' \in [DOMAIN feeTiers' -> Rates], By(u, c, {}), u \in appointed[c]
    PROVE  Inv'
  <1>1. /\ appointed' \in [Configs -> SUBSET Users] /\ intruded' = {}
        /\ \A d \in Configs : appointed[d] \subseteq appointed'[d]
        /\ CallInv'
    BY Appoints DEF Inv, Rooted
  <1>2. TypesInv' /\ Rooted' /\ Ordered'
    BY <1>1 DEF Inv, TypesInv, Rooted, Ordered
  <1>3. Granted'
    BY <1>1 DEF Inv, Granted, Rooted
  <1>4. \A x \in DOMAIN pools' : InOrder(pools[x])'
    BY DEF Inv, InOrder
  <1> QED BY <1>1, <1>2, <1>3, <1>4 DEF Inv

\* An extension is made, or its authorities change.
LEMMA ExtensionChanges ==
    ASSUME Inv, NEW e, e[1] \in DOMAIN configs, NEW v \in Extension, NEW u, NEW named \in SUBSET Users,
           extensions' = Put(extensions, e, v), UNCHANGED <<configs, feeTiers, badges, pools>>,
           By(u, e[1], named), u \in appointed[e[1]],
           {v.authority, v.badge} \subseteq appointed[e[1]] \cup named
    PROVE  Inv'
  <1>1. e[1] \in Configs
    BY DEF Inv, Rooted
  <1>2. /\ appointed' \in [Configs -> SUBSET Users] /\ intruded' = {}
        /\ appointed'[e[1]] = appointed[e[1]] \cup named
        /\ \A d \in Configs : appointed[d] \subseteq appointed'[d]
        /\ CallInv'
    BY <1>1, Appoints
  <1>3. /\ DOMAIN extensions' = DOMAIN extensions \cup {e}
        /\ \A x \in DOMAIN extensions' : extensions'[x] = IF x = e THEN v ELSE extensions[x]
    BY DEF Put
  <1>4. extensions' \in [DOMAIN extensions' -> Extension]
    <2>1. extensions' = [x \in DOMAIN extensions' |-> extensions'[x]]
      BY DEF Put
    <2>2. \A x \in DOMAIN extensions' : extensions'[x] \in Extension
      BY <1>3 DEF Inv, TypesInv
    <2> QED BY <2>1, <2>2
  <1>5. TypesInv'
    BY <1>2, <1>4 DEF Inv, TypesInv
  <1>6. Rooted' /\ Ordered'
    BY <1>3 DEF Inv, Rooted, Ordered
  <1>7. Granted'
    <2>1. \A d \in DOMAIN configs : appointed[d] \subseteq appointed'[d]
      BY <1>2 DEF Inv, Rooted
    <2>2. \A x \in DOMAIN extensions' :
            {extensions'[x].authority, extensions'[x].badge} \subseteq appointed'[x[1]]
      BY <2>1, <1>2, <1>3 DEF Inv, Granted, Rooted
    <2> QED BY <2>1, <2>2 DEF Inv, Granted, Rooted
  <1>8. \A x \in DOMAIN pools' : InOrder(pools[x])'
    BY DEF Inv, InOrder
  <1> QED BY <1>2, <1>5, <1>6, <1>7, <1>8 DEF Inv

\* A pool is made, by anybody, under a fee tier.
LEMMA PoolCreated ==
    ASSUME Inv, NEW ix, CanInitializePool(ix), ix.mintA \in Mints, ix.mintB \in Mints,
           pools' = PoolInitialized(ix), UNCHANGED <<configs, feeTiers, extensions, badges, appointed, intruded>>,
           CallInv'
    PROVE  Inv'
  <1> DEFINE q == [feeRate |-> feeTiers[ix.feeTier], protocolRate |-> configs[ix.config].rate, owed |-> FALSE,
                   rewards |-> [i \in 1..NUM_REWARDS |-> NewReward(configs[ix.config].super)]]
  <1>1. /\ ix.config \in DOMAIN configs /\ ix.feeTier \in DOMAIN feeTiers
        /\ ix.pool = <<ix.config, ix.mintA, ix.mintB, ix.spacing>> /\ ix.mintA < ix.mintB
    BY DEF CanInitializePool
  <1>2. pools' = Put(pools, ix.pool, q)
    BY DEF PoolInitialized
  <1>3. ix.pool[1] = ix.config /\ ix.config \in Configs /\ IsAddress(ix.pool)
    BY <1>1 DEF Inv, Rooted, IsAddress
  <1>4. \A i \in 1..NUM_REWARDS :
          /\ q.rewards[i].mint = None /\ q.rewards[i].emissions = 0
          /\ q.rewards[i].authority = configs[ix.config].super
    BY DEF NewReward
  <1>5. configs[ix.config] \in Config /\ feeTiers[ix.feeTier] \in Rates
    BY <1>1 DEF Inv, TypesInv
  <1>6. configs[ix.config].super \in Users /\ configs[ix.config].super \in appointed[ix.config]
    BY <1>1, <1>5 DEF Config, Inv, Granted
  <1>7. q \in Pool
    <2>1. q.rewards \in [1..NUM_REWARDS -> Reward]
      BY <1>6 DEF NewReward, Reward
    <2> QED BY <2>1, <1>5 DEF Pool, Config
  <1>8. InOrder(q)
    BY <1>4, GovernanceAssumption DEF InOrder
  <1> HIDE DEF q
  <1>9. /\ DOMAIN pools' = DOMAIN pools \cup {ix.pool}
        /\ \A x \in DOMAIN pools' : pools'[x] = IF x = ix.pool THEN q ELSE pools[x]
    BY <1>2 DEF Put
  <1>10. pools' \in [DOMAIN pools' -> Pool]
    <2>1. pools' = [x \in DOMAIN pools' |-> pools'[x]]
      BY <1>2 DEF Put
    <2>2. \A x \in DOMAIN pools' : pools'[x] \in Pool
      BY <1>7, <1>9 DEF Inv, TypesInv
    <2> QED BY <2>1, <2>2
  <1>11. TypesInv' /\ Rooted' /\ Ordered'
    BY <1>1, <1>3, <1>9, <1>10 DEF Inv, TypesInv, Rooted, Ordered
  <1>12. Granted'
    <2>1. \A x \in DOMAIN pools' : \A i \in 1..NUM_REWARDS : pools'[x].rewards[i].authority \in appointed[x[1]]
      BY <1>3, <1>4, <1>6, <1>9 DEF Inv, Granted
    <2> QED BY <2>1 DEF Inv, Granted
  <1>13. \A x \in DOMAIN pools' : InOrder(pools[x])'
    BY <1>8, <1>9 DEF Inv, InOrder
  <1> QED BY <1>11, <1>12, <1>13 DEF Inv

-----------------------------------------------------------------------------
(* The instructions. *)

\* Founding a configuration forgets who was appointed for it, but nothing
\* names it yet.
LEMMA Founds == ASSUME Inv, InitializeConfig PROVE Inv'
  <1>1. PICK c \in Configs, fee, collect, super \in Users, r \in Rates :
          initialize_config(initializeConfigIx(c, fee, collect, super, r))
    BY DEF InitializeConfig
  <1> DEFINE v == [fee |-> fee, collect |-> collect, super |-> super, rate |-> r]
  <1>2. /\ c \notin DOMAIN configs /\ configs' = Put(configs, c, v)
        /\ appointed' = [appointed EXCEPT ![c] = {fee, collect, super}]
        /\ UNCHANGED <<feeTiers, extensions, badges, pools, call, intruded>>
    BY <1>1 DEF initialize_config, initializeConfigIx
  <1>3. v \in Config
    BY DEF Config
  <1>4. {v.fee, v.collect, v.super} = {fee, collect, super}
    OBVIOUS
  <1> HIDE DEF v
  <1>5. /\ DOMAIN configs' = DOMAIN configs \cup {c}
        /\ \A d \in DOMAIN configs' : configs'[d] = IF d = c THEN v ELSE configs[d]
    BY <1>2 DEF Put
  <1>6. configs' \in [DOMAIN configs' -> Config]
    <2>1. configs' = [d \in DOMAIN configs' |-> configs'[d]]
      BY <1>2 DEF Put
    <2>2. \A d \in DOMAIN configs' : configs'[d] \in Config
      BY <1>3, <1>5 DEF Inv, TypesInv
    <2> QED BY <2>1, <2>2
  <1>7. /\ appointed' \in [Configs -> SUBSET Users] /\ appointed'[c] = {fee, collect, super}
        /\ \A d \in Configs \ {c} : appointed'[d] = appointed[d]
    BY <1>2 DEF Inv, TypesInv
  <1>8. TypesInv' /\ Rooted' /\ Ordered' /\ CallInv' /\ intruded' = {}
    BY <1>2, <1>5, <1>6, <1>7 DEF Inv, TypesInv, Rooted, Ordered, CallInv
  <1>9. Granted'
    <2>1. ASSUME NEW d \in DOMAIN configs'
          PROVE  {configs'[d].fee, configs'[d].collect, configs'[d].super} \subseteq appointed'[d]
      <3>1. CASE d = c
        BY <3>1, <1>4, <1>5, <1>7
      <3>2. CASE d # c
        <4>1. d \in DOMAIN configs /\ configs'[d] = configs[d] /\ appointed'[d] = appointed[d]
          BY <3>2, <1>5, <1>7 DEF Inv, Rooted
        <4> QED BY <4>1 DEF Inv, Granted
      <3> QED BY <3>1, <3>2
    <2>2. \A d \in DOMAIN configs : appointed'[d] = appointed[d]
      BY <1>2, <1>7 DEF Inv, Rooted
    <2> QED BY <1>2, <2>1, <2>2 DEF Inv, Granted, Rooted
  <1>10. \A x \in DOMAIN pools' : InOrder(pools[x])'
    BY <1>2 DEF Inv, InOrder
  <1> QED BY <1>8, <1>9, <1>10 DEF Inv

\* The signers of a configuration's instructions hold its powers.
LEMMA HoldersAppointed ==
    ASSUME Inv, NEW c \in DOMAIN configs
    PROVE  /\ configs[c] \in Config
           /\ {configs[c].fee, configs[c].collect, configs[c].super} \subseteq appointed[c]
  BY DEF Inv, TypesInv, Granted

LEMMA Configures ==
    ASSUME Inv,
           \/ SetFeeAuthority \/ SetCollectProtocolFeesAuthority
           \/ SetRewardEmissionsSuperAuthority \/ SetDefaultProtocolFeeRate
    PROVE  Inv'
  <1>1. CASE SetFeeAuthority
    <2>1. PICK c \in Configs, u, new \in Users : set_fee_authority(setFeeAuthorityIx(c, u, new))
      BY <1>1 DEF SetFeeAuthority
    <2>2. /\ c \in DOMAIN configs /\ u = configs[c].fee
          /\ configs' = [configs EXCEPT ![c] = [configs[c] EXCEPT !.fee = new]]
          /\ UNCHANGED <<feeTiers, extensions, badges, pools>> /\ By(u, c, {new})
      BY <2>1 DEF set_fee_authority, setFeeAuthorityIx, SetConfig
    <2> DEFINE v == [configs[c] EXCEPT !.fee = new]
    <2>3. /\ v \in Config /\ {new} \in SUBSET Users
          /\ {v.fee, v.collect, v.super} \subseteq appointed[c] \cup {new}
      BY <2>2, HoldersAppointed DEF Config
    <2>4. configs' = [configs EXCEPT ![c] = v] /\ u \in appointed[c]
      BY <2>2, HoldersAppointed
    <2> HIDE DEF v
    <2> QED BY <2>2, <2>3, <2>4, ConfigChanges
  <1>2. CASE SetCollectProtocolFeesAuthority
    <2>1. PICK c \in Configs, u, new \in Users :
            set_collect_protocol_fees_authority(setCollectProtocolFeesAuthorityIx(c, u, new))
      BY <1>2 DEF SetCollectProtocolFeesAuthority
    <2>2. /\ c \in DOMAIN configs /\ u = configs[c].collect
          /\ configs' = [configs EXCEPT ![c] = [configs[c] EXCEPT !.collect = new]]
          /\ UNCHANGED <<feeTiers, extensions, badges, pools>> /\ By(u, c, {new})
      BY <2>1 DEF set_collect_protocol_fees_authority, setCollectProtocolFeesAuthorityIx, SetConfig
    <2> DEFINE v == [configs[c] EXCEPT !.collect = new]
    <2>3. /\ v \in Config /\ {new} \in SUBSET Users
          /\ {v.fee, v.collect, v.super} \subseteq appointed[c] \cup {new}
      BY <2>2, HoldersAppointed DEF Config
    <2>4. configs' = [configs EXCEPT ![c] = v] /\ u \in appointed[c]
      BY <2>2, HoldersAppointed
    <2> HIDE DEF v
    <2> QED BY <2>2, <2>3, <2>4, ConfigChanges
  <1>3. CASE SetRewardEmissionsSuperAuthority
    <2>1. PICK c \in Configs, u, new \in Users :
            set_reward_emissions_super_authority(setRewardEmissionsSuperAuthorityIx(c, u, new))
      BY <1>3 DEF SetRewardEmissionsSuperAuthority
    <2>2. /\ c \in DOMAIN configs /\ u = configs[c].super
          /\ configs' = [configs EXCEPT ![c] = [configs[c] EXCEPT !.super = new]]
          /\ UNCHANGED <<feeTiers, extensions, badges, pools>> /\ By(u, c, {new})
      BY <2>1 DEF set_reward_emissions_super_authority, setRewardEmissionsSuperAuthorityIx, SetConfig
    <2> DEFINE v == [configs[c] EXCEPT !.super = new]
    <2>3. /\ v \in Config /\ {new} \in SUBSET Users
          /\ {v.fee, v.collect, v.super} \subseteq appointed[c] \cup {new}
      BY <2>2, HoldersAppointed DEF Config
    <2>4. configs' = [configs EXCEPT ![c] = v] /\ u \in appointed[c]
      BY <2>2, HoldersAppointed
    <2> HIDE DEF v
    <2> QED BY <2>2, <2>3, <2>4, ConfigChanges
  <1>4. CASE SetDefaultProtocolFeeRate
    <2>1. PICK c \in Configs, u \in Users, r \in Rates :
            set_default_protocol_fee_rate(setDefaultProtocolFeeRateIx(c, u, r))
      BY <1>4 DEF SetDefaultProtocolFeeRate
    <2>2. /\ c \in DOMAIN configs /\ u = configs[c].fee
          /\ configs' = [configs EXCEPT ![c] = [configs[c] EXCEPT !.rate = r]]
          /\ UNCHANGED <<feeTiers, extensions, badges, pools>> /\ By(u, c, {})
      BY <2>1 DEF set_default_protocol_fee_rate, setDefaultProtocolFeeRateIx, SetConfig
    <2> DEFINE v == [configs[c] EXCEPT !.rate = r]
    <2>3. /\ v \in Config /\ {} \in SUBSET Users
          /\ {v.fee, v.collect, v.super} \subseteq appointed[c] \cup {}
      BY <2>2, HoldersAppointed DEF Config
    <2>4. configs' = [configs EXCEPT ![c] = v] /\ u \in appointed[c]
      BY <2>2, HoldersAppointed
    <2> HIDE DEF v
    <2> QED BY <2>2, <2>3, <2>4, ConfigChanges
  <1> QED BY <1>1, <1>2, <1>3, <1>4

\* Fee tiers and badges.
LEMMA SetsTiersAndBadges ==
    ASSUME Inv, InitializeFeeTier \/ SetDefaultFeeRate \/ InitializeTokenBadge \/ DeleteTokenBadge
    PROVE  Inv'
  <1>1. CASE InitializeFeeTier
    <2>1. PICK c, d \in Configs, s \in Spacings, r \in Rates, u \in Users :
            initialize_fee_tier(initializeFeeTierIx(c, getFeeTier(d, s), s, r, u))
      BY <1>1 DEF InitializeFeeTier
    <2>2. /\ c \in DOMAIN configs /\ u = configs[c].fee /\ getFeeTier(d, s) = <<c, s>>
          /\ feeTiers' = Put(feeTiers, getFeeTier(d, s), r)
          /\ UNCHANGED <<configs, extensions, pools>> /\ By(u, getFeeTier(d, s)[1], {})
      BY <2>1 DEF initialize_fee_tier, initializeFeeTierIx
    <2>3. By(u, c, {})
      BY <2>2
    <2>4. feeTiers' \in [DOMAIN feeTiers' -> Rates]
      <3>1. feeTiers' = [x \in DOMAIN feeTiers \cup {getFeeTier(d, s)} |->
                           IF x = getFeeTier(d, s) THEN r ELSE feeTiers[x]]
        BY <2>2 DEF Put
      <3> QED BY <3>1 DEF Inv, TypesInv
    <2> QED BY <2>2, <2>3, <2>4, HoldersAppointed, PowerlessChanges
  <1>2. CASE SetDefaultFeeRate
    <2>1. PICK c \in Configs, u \in Users, s \in Spacings, r \in Rates :
            set_default_fee_rate(setDefaultFeeRateIx(c, u, s, r))
      BY <1>2 DEF SetDefaultFeeRate
    <2>2. /\ c \in DOMAIN configs /\ u = configs[c].fee /\ getFeeTier(c, s)[1] = c
          /\ feeTiers' = [feeTiers EXCEPT ![getFeeTier(c, s)] = r]
          /\ UNCHANGED <<configs, extensions, pools>> /\ By(u, getFeeTier(c, s)[1], {})
      BY <2>1 DEF set_default_fee_rate, setDefaultFeeRateIx
    <2>3. By(u, c, {}) /\ feeTiers' \in [DOMAIN feeTiers' -> Rates]
      BY <2>2 DEF Inv, TypesInv
    <2> QED BY <2>2, <2>3, HoldersAppointed, PowerlessChanges
  <1>3. CASE InitializeTokenBadge
    <2>1. PICK c, d \in Configs, e \in DOMAIN extensions, u \in Users, m \in Mints :
            initialize_token_badge(initializeTokenBadgeIx(c, e, u, m, getTokenBadge(d, m)))
      BY <1>3 DEF InitializeTokenBadge
    <2>2. /\ c \in DOMAIN configs /\ e[1] = c /\ u = extensions[e].badge
          /\ getTokenBadge(d, m) = <<c, m>> /\ By(u, getTokenBadge(d, m)[1], {})
          /\ UNCHANGED <<configs, feeTiers, extensions, pools>>
      BY <2>1 DEF initialize_token_badge, initializeTokenBadgeIx, ExtensionOf
    <2>3. By(u, c, {}) /\ u \in appointed[c]
      BY <2>2 DEF Inv, Granted
    <2> QED BY <2>2, <2>3, PowerlessChanges DEF Inv, TypesInv
  <1>4. CASE DeleteTokenBadge
    <2>1. PICK c \in Configs, e \in DOMAIN extensions, u \in Users, m \in Mints, b \in badges :
            delete_token_badge(deleteTokenBadgeIx(c, e, u, m, b))
      BY <1>4 DEF DeleteTokenBadge
    <2>2. /\ c \in DOMAIN configs /\ e[1] = c /\ u = extensions[e].badge
          /\ b = <<c, m>> /\ By(u, b[1], {})
          /\ UNCHANGED <<configs, feeTiers, extensions, pools>>
      BY <2>1 DEF delete_token_badge, deleteTokenBadgeIx, ExtensionOf
    <2>3. By(u, c, {}) /\ u \in appointed[c]
      BY <2>2 DEF Inv, Granted
    <2> QED BY <2>2, <2>3, PowerlessChanges DEF Inv, TypesInv
  <1> QED BY <1>1, <1>2, <1>3, <1>4

\* The extension.
LEMMA Extends ==
    ASSUME Inv, InitializeConfigExtension \/ SetConfigExtensionAuthority \/ SetTokenBadgeAuthority
    PROVE  Inv'
  <1>1. CASE InitializeConfigExtension
    <2>1. PICK c, d \in Configs, u \in Users :
            initialize_config_extension(initializeConfigExtensionIx(c, getConfigExtension(d), u))
      BY <1>1 DEF InitializeConfigExtension
    <2> DEFINE e == getConfigExtension(d)
               v == [authority |-> u, badge |-> u]
    <2>2. /\ c \in DOMAIN configs /\ u = configs[c].fee /\ e = <<c>>
          /\ extensions' = Put(extensions, e, v)
          /\ UNCHANGED <<configs, feeTiers, badges, pools>> /\ By(u, e[1], {})
      BY <2>1 DEF initialize_config_extension, initializeConfigExtensionIx
    <2>3. e[1] = c /\ v \in Extension /\ {} \in SUBSET Users
      BY <2>2 DEF Extension
    <2>4. u \in appointed[c] /\ {v.authority, v.badge} \subseteq appointed[e[1]] \cup {}
      BY <2>2, <2>3, HoldersAppointed
    <2> HIDE DEF e, v
    <2> QED BY <2>2, <2>3, <2>4, ExtensionChanges
  <1>2. CASE SetConfigExtensionAuthority
    <2>1. PICK c \in Configs, e \in DOMAIN extensions, u, new \in Users :
            set_config_extension_authority(setConfigExtensionAuthorityIx(c, e, u, new))
      BY <1>2 DEF SetConfigExtensionAuthority
    <2> DEFINE v == [extensions[e] EXCEPT !.authority = new]
    <2>2. /\ c \in DOMAIN configs /\ e[1] = c /\ u = extensions[e].authority
          /\ extensions' = [extensions EXCEPT ![e].authority = new]
          /\ UNCHANGED <<configs, feeTiers, badges, pools>> /\ By(u, e[1], {new})
      BY <2>1 DEF set_config_extension_authority, setConfigExtensionAuthorityIx, ExtensionOf
    <2>3. extensions' = Put(extensions, e, v)
      BY <2>2 DEF Put, Inv, TypesInv
    <2>4. /\ v \in Extension /\ {new} \in SUBSET Users /\ u \in appointed[e[1]]
          /\ {v.authority, v.badge} \subseteq appointed[e[1]] \cup {new}
      BY <2>2 DEF Extension, Inv, TypesInv, Granted
    <2> HIDE DEF v
    <2> QED BY <2>2, <2>3, <2>4, ExtensionChanges
  <1>3. CASE SetTokenBadgeAuthority
    <2>1. PICK c \in Configs, e \in DOMAIN extensions, u, new \in Users :
            set_token_badge_authority(setTokenBadgeAuthorityIx(c, e, u, new))
      BY <1>3 DEF SetTokenBadgeAuthority
    <2> DEFINE v == [extensions[e] EXCEPT !.badge = new]
    <2>2. /\ c \in DOMAIN configs /\ e[1] = c /\ u = extensions[e].authority
          /\ extensions' = [extensions EXCEPT ![e].badge = new]
          /\ UNCHANGED <<configs, feeTiers, badges, pools>> /\ By(u, e[1], {new})
      BY <2>1 DEF set_token_badge_authority, setTokenBadgeAuthorityIx, ExtensionOf
    <2>3. extensions' = Put(extensions, e, v)
      BY <2>2 DEF Put, Inv, TypesInv
    <2>4. /\ v \in Extension /\ {new} \in SUBSET Users /\ u \in appointed[e[1]]
          /\ {v.authority, v.badge} \subseteq appointed[e[1]] \cup {new}
      BY <2>2 DEF Extension, Inv, TypesInv, Granted
    <2> HIDE DEF v
    <2> QED BY <2>2, <2>3, <2>4, ExtensionChanges
  <1> QED BY <1>1, <1>2, <1>3

\* What is known of a pool and its rewards.
LEMMA PoolKnown ==
    ASSUME Inv, NEW p \in DOMAIN pools
    PROVE  /\ pools[p] \in Pool /\ InOrder(pools[p]) /\ p[1] \in DOMAIN configs
           /\ \A i \in 1..NUM_REWARDS : pools[p].rewards[i] \in Reward
           /\ \A i \in 1..NUM_REWARDS : pools[p].rewards[i].authority \in appointed[p[1]]
  BY DEF Inv, TypesInv, Rooted, Granted, Pool

\* A step that changes rates or fees owed keeps the rewards.
LEMMA RewardsKept ==
    ASSUME Inv, NEW p \in DOMAIN pools, NEW q \in Pool, q.rewards = pools[p].rewards, NEW u,
           pools' = [pools EXCEPT ![p] = q], UNCHANGED <<configs, feeTiers, extensions, badges>>,
           By(u, p[1], {}), u \in appointed[p[1]]
    PROVE  Inv'
  <1>1. InOrder(q) /\ \A i \in 1..NUM_REWARDS : q.rewards[i].authority \in appointed[p[1]] \cup {}
    BY PoolKnown DEF InOrder
  <1>2. {} \in SUBSET Users
    OBVIOUS
  <1> QED BY <1>1, <1>2, PoolChanges

\* A step that changes one reward.
LEMMA RewardChanges ==
    ASSUME Inv, NEW p \in DOMAIN pools, NEW i \in 1..NUM_REWARDS, NEW r \in Reward,
           NEW u, NEW named \in SUBSET Users,
           pools' = [pools EXCEPT ![p] = [pools[p] EXCEPT !.rewards[i] = r]],
           UNCHANGED <<configs, feeTiers, extensions, badges>>,
           By(u, p[1], named), u \in appointed[p[1]], r.authority \in appointed[p[1]] \cup named,
           InOrder([pools[p] EXCEPT !.rewards[i] = r])
    PROVE  Inv'
  <1> DEFINE q == [pools[p] EXCEPT !.rewards[i] = r]
  <1>1. /\ q \in Pool
        /\ \A j \in 1..NUM_REWARDS : q.rewards[j] = IF j = i THEN r ELSE pools[p].rewards[j]
    BY PoolKnown DEF Pool
  <1>2. \A j \in 1..NUM_REWARDS : q.rewards[j].authority \in appointed[p[1]] \cup named
    BY <1>1, PoolKnown
  <1>3. InOrder(q) /\ pools' = [pools EXCEPT ![p] = q]
    OBVIOUS
  <1> HIDE DEF q
  <1> QED BY <1>1, <1>2, <1>3, PoolChanges

\* Rates and protocol fees of a pool.
LEMMA GovernsPool ==
    ASSUME Inv, SetFeeRate \/ SetProtocolFeeRate \/ CollectProtocolFees \/ CollectProtocolFeesV2
    PROVE  Inv'
  <1>1. CASE SetFeeRate
    <2>1. PICK c \in Configs, p \in DOMAIN pools, u \in Users, r \in Rates :
            set_fee_rate(setFeeRateIx(c, p, u, r))
      BY <1>1 DEF SetFeeRate
    <2> DEFINE q == [pools[p] EXCEPT !.feeRate = r]
    <2>2. /\ c \in DOMAIN configs /\ p[1] = c /\ u = configs[c].fee
          /\ pools' = [pools EXCEPT ![p] = q] /\ By(u, p[1], {})
          /\ UNCHANGED <<configs, feeTiers, extensions, badges>>
      BY <2>1 DEF set_fee_rate, setFeeRateIx, SetPool, PoolUnder
    <2>3. q \in Pool /\ q.rewards = pools[p].rewards
      BY PoolKnown DEF Pool
    <2>4. u \in appointed[p[1]]
      BY <2>2, HoldersAppointed
    <2> HIDE DEF q
    <2> QED BY <2>2, <2>3, <2>4, RewardsKept
  <1>2. CASE SetProtocolFeeRate
    <2>1. PICK c \in Configs, p \in DOMAIN pools, u \in Users, r \in Rates :
            set_protocol_fee_rate(setProtocolFeeRateIx(c, p, u, r))
      BY <1>2 DEF SetProtocolFeeRate
    <2> DEFINE q == [pools[p] EXCEPT !.protocolRate = r]
    <2>2. /\ c \in DOMAIN configs /\ p[1] = c /\ u = configs[c].fee
          /\ pools' = [pools EXCEPT ![p] = q] /\ By(u, p[1], {})
          /\ UNCHANGED <<configs, feeTiers, extensions, badges>>
      BY <2>1 DEF set_protocol_fee_rate, setProtocolFeeRateIx, SetPool, PoolUnder
    <2>3. q \in Pool /\ q.rewards = pools[p].rewards
      BY PoolKnown DEF Pool
    <2>4. u \in appointed[p[1]]
      BY <2>2, HoldersAppointed
    <2> HIDE DEF q
    <2> QED BY <2>2, <2>3, <2>4, RewardsKept
  <1>3. CASE CollectProtocolFees
    <2>1. PICK c \in Configs, p \in DOMAIN pools, u \in Users :
            collect_protocol_fees(collectProtocolFeesIx(c, p, u))
      BY <1>3 DEF CollectProtocolFees
    <2> DEFINE q == [pools[p] EXCEPT !.owed = FALSE]
    <2>2. /\ c \in DOMAIN configs /\ p[1] = c /\ u = configs[c].collect
          /\ pools' = [pools EXCEPT ![p] = q] /\ By(u, p[1], {})
          /\ UNCHANGED <<configs, feeTiers, extensions, badges>>
      BY <2>1 DEF collect_protocol_fees, collectProtocolFeesIx, SetPool, PoolUnder, CanCollectProtocolFees
    <2>3. q \in Pool /\ q.rewards = pools[p].rewards
      BY PoolKnown DEF Pool
    <2>4. u \in appointed[p[1]]
      BY <2>2, HoldersAppointed
    <2> HIDE DEF q
    <2> QED BY <2>2, <2>3, <2>4, RewardsKept
  <1>4. CASE CollectProtocolFeesV2
    <2>1. PICK c \in Configs, p \in DOMAIN pools, u \in Users :
            collect_protocol_fees(collectProtocolFeesV2Ix(c, p, u))
      BY <1>4 DEF CollectProtocolFeesV2
    <2> DEFINE q == [pools[p] EXCEPT !.owed = FALSE]
    <2>2. /\ c \in DOMAIN configs /\ p[1] = c /\ u = configs[c].collect
          /\ pools' = [pools EXCEPT ![p] = q] /\ By(u, p[1], {})
          /\ UNCHANGED <<configs, feeTiers, extensions, badges>>
      BY <2>1 DEF collect_protocol_fees, collectProtocolFeesV2Ix, SetPool, PoolUnder, CanCollectProtocolFees
    <2>3. q \in Pool /\ q.rewards = pools[p].rewards
      BY PoolKnown DEF Pool
    <2>4. u \in appointed[p[1]]
      BY <2>2, HoldersAppointed
    <2> HIDE DEF q
    <2> QED BY <2>2, <2>3, <2>4, RewardsKept
  <1> QED BY <1>1, <1>2, <1>3, <1>4

\* The mint of the lowest reward without one is set: those above it have none.
LEMMA MintSet ==
    ASSUME Inv, NEW p \in DOMAIN pools, NEW i \in 1..NUM_REWARDS, NEW m \in Mints, NEW u,
           u = pools[p].rewards[i].authority, pools[p].rewards[i].mint = None,
           \A j \in 1..NUM_REWARDS : pools[p].rewards[j].mint = None => i <= j,
           pools' = [pools EXCEPT ![p].rewards[i].mint = m],
           UNCHANGED <<configs, feeTiers, extensions, badges>>, By(u, p[1], {})
    PROVE  Inv'
  <1> DEFINE r == [pools[p].rewards[i] EXCEPT !.mint = m]
             q == [pools[p] EXCEPT !.rewards[i] = r]
  <1>1. /\ r \in Reward /\ r.mint = m /\ r.authority = pools[p].rewards[i].authority
        /\ {} \in SUBSET Users
    BY PoolKnown DEF Reward
  <1>2. pools' = [pools EXCEPT ![p] = q]
    OBVIOUS
  <1> HIDE DEF r
  <1>3. \A j \in 1..NUM_REWARDS : q.rewards[j] = IF j = i THEN r ELSE pools[p].rewards[j]
    BY PoolKnown DEF Pool
  <1>4. InOrder(q)
    <2> SUFFICES ASSUME NEW k \in 1..NUM_REWARDS, q.rewards[k].mint = None
                 PROVE  /\ q.rewards[k].emissions = 0
                        /\ \A j \in k..NUM_REWARDS : q.rewards[j].mint = None
      BY DEF InOrder
    <2>1. k # i /\ q.rewards[k] = pools[p].rewards[k]
      BY <1>1, <1>3, GovernanceAssumption
    <2>2. i < k
      BY <2>1, GovernanceAssumption
    <2>3. /\ pools[p].rewards[k].emissions = 0
          /\ \A j \in k..NUM_REWARDS : pools[p].rewards[j].mint = None
      BY <2>1, PoolKnown DEF InOrder
    <2>4. ASSUME NEW j \in k..NUM_REWARDS PROVE q.rewards[j].mint = None
      <3>1. j \in 1..NUM_REWARDS /\ j # i
        BY <2>2, GovernanceAssumption
      <3> QED BY <3>1, <1>3, <2>3
    <2> QED BY <2>1, <2>3, <2>4
  <1>5. u \in appointed[p[1]] /\ r.authority \in appointed[p[1]] \cup {}
    BY <1>1, PoolKnown
  <1>6. InOrder([pools[p] EXCEPT !.rewards[i] = r]) /\ pools' = [pools EXCEPT ![p] = [pools[p] EXCEPT !.rewards[i] = r]]
    BY <1>2, <1>4
  <1> HIDE DEF q
  <1> QED BY <1>1, <1>5, <1>6, RewardChanges

\* An authority is replaced by one that is named.
LEMMA RewardAuthoritySet ==
    ASSUME Inv, NEW p \in DOMAIN pools, NEW i \in 1..NUM_REWARDS, NEW new \in Users, NEW u,
           u \in appointed[p[1]], pools' = [pools EXCEPT ![p].rewards[i].authority = new],
           UNCHANGED <<configs, feeTiers, extensions, badges>>, By(u, p[1], {new})
    PROVE  Inv'
  <1> DEFINE r == [pools[p].rewards[i] EXCEPT !.authority = new]
             q == [pools[p] EXCEPT !.rewards[i] = r]
  <1>1. /\ r \in Reward /\ r.mint = pools[p].rewards[i].mint /\ r.authority = new
        /\ r.emissions = pools[p].rewards[i].emissions /\ {new} \in SUBSET Users
    BY PoolKnown DEF Reward
  <1>2. pools' = [pools EXCEPT ![p] = [pools[p] EXCEPT !.rewards[i] = r]]
    OBVIOUS
  <1> HIDE DEF r
  <1>3. \A j \in 1..NUM_REWARDS : q.rewards[j] = IF j = i THEN r ELSE pools[p].rewards[j]
    BY PoolKnown DEF Pool
  <1>4. \A j \in 1..NUM_REWARDS : /\ q.rewards[j].mint = pools[p].rewards[j].mint
                                  /\ q.rewards[j].emissions = pools[p].rewards[j].emissions
    BY <1>1, <1>3
  <1>5. InOrder(q)
    <2>1. \A k \in 1..NUM_REWARDS : k..NUM_REWARDS \subseteq 1..NUM_REWARDS
      BY GovernanceAssumption
    <2> HIDE DEF q
    <2> QED BY <1>4, <2>1, PoolKnown DEF InOrder
  <1> QED BY <1>1, <1>2, <1>5, RewardChanges

\* Emissions of a reward that has a mint are set.
LEMMA EmissionsSet ==
    ASSUME Inv, NEW p \in DOMAIN pools, NEW i \in 1..NUM_REWARDS, NEW rate \in Rates, NEW u,
           u = pools[p].rewards[i].authority, pools[p].rewards[i].mint # None,
           pools' = [pools EXCEPT ![p].rewards[i].emissions = rate],
           UNCHANGED <<configs, feeTiers, extensions, badges>>, By(u, p[1], {})
    PROVE  Inv'
  <1> DEFINE r == [pools[p].rewards[i] EXCEPT !.emissions = rate]
             q == [pools[p] EXCEPT !.rewards[i] = r]
  <1>1. /\ r \in Reward /\ r.mint = pools[p].rewards[i].mint /\ {} \in SUBSET Users
        /\ r.authority = pools[p].rewards[i].authority
    BY PoolKnown DEF Reward
  <1>2. pools' = [pools EXCEPT ![p] = [pools[p] EXCEPT !.rewards[i] = r]]
    OBVIOUS
  <1> HIDE DEF r
  <1>3. \A j \in 1..NUM_REWARDS : q.rewards[j] = IF j = i THEN r ELSE pools[p].rewards[j]
    BY PoolKnown DEF Pool
  <1>4. \A j \in 1..NUM_REWARDS :
          /\ q.rewards[j].mint = pools[p].rewards[j].mint
          /\ j # i => q.rewards[j].emissions = pools[p].rewards[j].emissions
    BY <1>1, <1>3
  <1>5. InOrder(q)
    <2>1. \A k \in 1..NUM_REWARDS : k..NUM_REWARDS \subseteq 1..NUM_REWARDS
      BY GovernanceAssumption
    <2> HIDE DEF q
    <2> QED BY <1>4, <2>1, PoolKnown DEF InOrder
  <1>6. u \in appointed[p[1]] /\ r.authority \in appointed[p[1]] \cup {}
    BY <1>1, PoolKnown
  <1> QED BY <1>1, <1>2, <1>5, <1>6, RewardChanges

\* Rewards.
LEMMA GovernsRewards ==
    ASSUME Inv,
           \/ InitializeReward \/ InitializeRewardV2
           \/ SetRewardAuthority \/ SetRewardAuthorityBySuperAuthority
           \/ SetRewardEmissions \/ SetRewardEmissionsV2
    PROVE  Inv'
  <1>1. ASSUME NEW ix, initialize_reward(ix), ix.mint \in Mints
        PROVE  Inv'
    <2>1. /\ ix.pool \in DOMAIN pools /\ ix.index \in 1..NUM_REWARDS
          /\ ix.signer = pools[ix.pool].rewards[ix.index].authority
          /\ pools[ix.pool].rewards[ix.index].mint = None
          /\ \A j \in 1..NUM_REWARDS : pools[ix.pool].rewards[j].mint = None => ix.index <= j
          /\ pools' = [pools EXCEPT ![ix.pool].rewards[ix.index].mint = ix.mint]
          /\ UNCHANGED <<configs, feeTiers, extensions, badges>> /\ By(ix.signer, ix.pool[1], {})
      BY <1>1 DEF initialize_reward, HeldReward, RewardOf, Lowest, Uninitialized, SetPool
    <2> QED BY <2>1, <1>1, MintSet
  <1>2. CASE InitializeReward
    <2>1. PICK p \in DOMAIN pools, i \in 1..NUM_REWARDS, m \in Mints, u \in Users :
            initialize_reward(initializeRewardIx(p, i, m, u))
      BY <1>2 DEF InitializeReward
    <2>2. initializeRewardIx(p, i, m, u).mint \in Mints
      BY DEF initializeRewardIx
    <2> QED BY <2>1, <2>2, <1>1
  <1>3. CASE InitializeRewardV2
    <2>1. PICK p \in DOMAIN pools, i \in 1..NUM_REWARDS, m \in Mints, c \in Configs, u \in Users :
            initialize_reward(initializeRewardV2Ix(p, i, m, getTokenBadge(c, m), u))
      BY <1>3 DEF InitializeRewardV2
    <2>2. initializeRewardV2Ix(p, i, m, getTokenBadge(c, m), u).mint \in Mints
      BY DEF initializeRewardV2Ix
    <2> QED BY <2>1, <2>2, <1>1
  <1>4. CASE SetRewardAuthority
    <2>1. PICK p \in DOMAIN pools, i \in 1..NUM_REWARDS, u, new \in Users :
            set_reward_authority(setRewardAuthorityIx(p, i, u, new))
      BY <1>4 DEF SetRewardAuthority
    <2>2. /\ u = pools[p].rewards[i].authority
          /\ pools' = [pools EXCEPT ![p].rewards[i].authority = new]
          /\ UNCHANGED <<configs, feeTiers, extensions, badges>> /\ By(u, p[1], {new})
      BY <2>1 DEF set_reward_authority, setRewardAuthorityIx, HeldReward, RewardOf, SetPool
    <2> QED BY <2>2, PoolKnown, RewardAuthoritySet
  <1>5. CASE SetRewardAuthorityBySuperAuthority
    <2>1. PICK c \in Configs, p \in DOMAIN pools, i \in 1..NUM_REWARDS, u, new \in Users :
            set_reward_authority_by_super_authority(setRewardAuthorityBySuperAuthorityIx(c, p, i, u, new))
      BY <1>5 DEF SetRewardAuthorityBySuperAuthority
    <2>2. /\ c \in DOMAIN configs /\ p[1] = c /\ u = configs[c].super
          /\ pools' = [pools EXCEPT ![p].rewards[i].authority = new]
          /\ UNCHANGED <<configs, feeTiers, extensions, badges>> /\ By(u, p[1], {new})
      BY <2>1 DEF set_reward_authority_by_super_authority, setRewardAuthorityBySuperAuthorityIx,
                  PoolUnder, SetPool
    <2> QED BY <2>2, HoldersAppointed, RewardAuthoritySet
  <1>6. ASSUME NEW ix, NEW refuses, SetEmissions(ix, refuses), ix.rate \in Rates
        PROVE  Inv'
    <2>1. /\ ix.pool \in DOMAIN pools /\ ix.index \in 1..NUM_REWARDS
          /\ ix.signer = pools[ix.pool].rewards[ix.index].authority
          /\ pools[ix.pool].rewards[ix.index].mint # None
          /\ pools' = [pools EXCEPT ![ix.pool].rewards[ix.index].emissions = ix.rate]
          /\ UNCHANGED <<configs, feeTiers, extensions, badges>> /\ By(ix.signer, ix.pool[1], {})
      BY <1>6 DEF SetEmissions, HeldReward, RewardOf, SetPool
    <2> QED BY <2>1, <1>6, EmissionsSet
  <1>7. CASE SetRewardEmissions
    <2>1. PICK p \in DOMAIN pools, i \in 1..NUM_REWARDS, u \in Users, r \in Rates :
            set_reward_emissions(setRewardEmissionsIx(p, i, u, r))
      BY <1>7 DEF SetRewardEmissions
    <2>2. setRewardEmissionsIx(p, i, u, r).rate \in Rates
      BY DEF setRewardEmissionsIx
    <2> QED BY <2>1, <2>2, <1>6 DEF set_reward_emissions
  <1>8. CASE SetRewardEmissionsV2
    <2>1. PICK p \in DOMAIN pools, i \in 1..NUM_REWARDS, u \in Users, r \in Rates :
            set_reward_emissions_v2(setRewardEmissionsV2Ix(p, i, u, r))
      BY <1>8 DEF SetRewardEmissionsV2
    <2>2. setRewardEmissionsV2Ix(p, i, u, r).rate \in Rates
      BY DEF setRewardEmissionsV2Ix
    <2> QED BY <2>1, <2>2, <1>6 DEF set_reward_emissions_v2
  <1> QED BY <1>2, <1>3, <1>4, <1>5, <1>7, <1>8

\* Pools are open to everybody.
LEMMA MakesPools ==
    ASSUME Inv, InitializePool \/ InitializePoolV2
    PROVE  Inv'
  <1>1. ASSUME NEW ix, initialize_pool(ix), ix.mintA \in Mints, ix.mintB \in Mints
        PROVE  Inv'
    <2>1. /\ CanInitializePool(ix) /\ pools' = PoolInitialized(ix)
          /\ UNCHANGED <<configs, feeTiers, extensions, badges, appointed, intruded, call>>
      BY <1>1 DEF initialize_pool, ByAnyone
    <2>2. CallInv'
      BY <2>1 DEF Inv, CallInv
    <2> QED BY <2>1, <2>2, <1>1, PoolCreated
  <1>2. CASE InitializePool
    <2>1. PICK c \in Configs, a, b \in Mints, s \in Spacings, t \in DOMAIN feeTiers :
            initialize_pool(initializePoolIx(c, getWhirlpool(c, a, b, s), a, b, t, s))
      BY <1>2 DEF InitializePool
    <2> DEFINE ix == initializePoolIx(c, getWhirlpool(c, a, b, s), a, b, t, s)
    <2>2. ix.mintA \in Mints /\ ix.mintB \in Mints
      BY DEF initializePoolIx
    <2> QED BY <2>1, <2>2, <1>1
  <1>3. CASE InitializePoolV2
    <2>1. PICK c, d \in Configs, a, b \in Mints, s \in Spacings, t \in DOMAIN feeTiers :
            initialize_pool(initializePoolV2Ix(c, getWhirlpool(c, a, b, s), a, b, getTokenBadge(d, a),
                                               getTokenBadge(d, b), t, s))
      BY <1>3 DEF InitializePoolV2
    <2> DEFINE ix == initializePoolV2Ix(c, getWhirlpool(c, a, b, s), a, b, getTokenBadge(d, a),
                                        getTokenBadge(d, b), t, s)
    <2>2. ix.mintA \in Mints /\ ix.mintB \in Mints
      BY DEF initializePoolV2Ix
    <2> QED BY <2>1, <2>2, <1>1
  <1> QED BY <1>2, <1>3

\* Fees owed change in some pools, which keep their rewards; no power moves.
LEMMA OwedChanges ==
    ASSUME Inv, DOMAIN pools' = DOMAIN pools, pools' \in [DOMAIN pools' -> Pool],
           \A p \in DOMAIN pools : pools'[p].rewards = pools[p].rewards,
           UNCHANGED <<configs, feeTiers, extensions, badges, appointed, intruded>>, CallInv'
    PROVE  Inv'
  <1>1. TypesInv' /\ Rooted' /\ Ordered'
    BY DEF Inv, TypesInv, Rooted, Ordered
  <1>2. Granted'
    BY DEF Inv, Granted
  <1>3. \A p \in DOMAIN pools' : InOrder(pools[p])'
    BY DEF Inv, InOrder
  <1> QED BY <1>1, <1>2, <1>3 DEF Inv

LEMMA Trades == ASSUME Inv, NEW p \in DOMAIN pools, Trade(p) PROVE Inv'
  <1>1. /\ pools' = [pools EXCEPT ![p].owed = TRUE]
        /\ UNCHANGED <<configs, feeTiers, extensions, badges, appointed, intruded, call>>
    BY DEF Trade, ByAnyone
  <1>2. pools \in [DOMAIN pools -> Pool] /\ \A x \in DOMAIN pools : pools[x] \in Pool
    BY DEF Inv, TypesInv
  <1>3. /\ DOMAIN pools' = DOMAIN pools /\ pools' \in [DOMAIN pools' -> Pool]
        /\ \A x \in DOMAIN pools : pools'[x].rewards = pools[x].rewards
    BY <1>1, <1>2 DEF Pool
  <1>4. CallInv'
    BY <1>1 DEF Inv, CallInv
  <1> QED BY <1>1, <1>3, <1>4, OwedChanges

\* The client reads and prepares, and changes nothing.
LEMMA Prepares ==
    ASSUME Inv,
           \/ \E c \in Configs, a, b \in Mints, s \in Spacings : createPool(c, a, b, s)
           \/ \E u \in Users, ps \in SUBSET DOMAIN pools : collectProtocolFees(u, ps)
    PROVE  Inv'
  <1>1. CASE \E c \in Configs, a, b \in Mints, s \in Spacings : createPool(c, a, b, s)
    <2>1. PICK c \in Configs, a, b \in Mints, s \in Spacings : createPool(c, a, b, s)
      BY <1>1
    <2>2. /\ \/ call'.ix = initializePoolV2Ix(c, getWhirlpool(c, a, b, s), a, b, getTokenBadge(c, a),
                                              getTokenBadge(c, b), getFeeTier(c, s), s)
             \/ call'.ix = initializePoolIx(c, getWhirlpool(c, a, b, s), a, b, getFeeTier(c, s), s)
          /\ UNCHANGED <<chain, appointed, intruded>>
      BY <2>1 DEF createPool, Prepare
    <2>3. CallInv'
      BY <2>2 DEF CallInv, initializePoolV2Ix, initializePoolIx
    <2> QED BY <2>2, <2>3, OwedChanges DEF Inv, TypesInv, chain
  <1>2. CASE \E u \in Users, ps \in SUBSET DOMAIN pools : collectProtocolFees(u, ps)
    <2>1. PICK u \in Users, ps \in SUBSET DOMAIN pools : collectProtocolFees(u, ps)
      BY <1>2
    <2>2. call'.kind = "collect" /\ UNCHANGED <<chain, appointed, intruded>>
      BY <2>1 DEF collectProtocolFees, Prepare
    <2>3. CallInv'
      BY <2>2 DEF CallInv
    <2> QED BY <2>2, <2>3, OwedChanges DEF Inv, TypesInv, chain
  <1> QED BY <1>1, <1>2

\* What was prepared takes effect in whole or not at all.
LEMMA Submits == ASSUME Inv, Submit PROVE Inv'
  <1>1. /\ call # None /\ call' = None
        /\ UNCHANGED <<configs, feeTiers, extensions, badges, appointed, intruded>>
    BY DEF Submit
  <1>2. CallInv'
    BY <1>1 DEF CallInv
  <1>3. CASE ~Accepted(call)
    <2>1. pools' = pools
      BY <1>3 DEF Submit
    <2> QED BY <1>1, <1>2, <2>1, OwedChanges DEF Inv, TypesInv
  <1>4. CASE Accepted(call) /\ call.kind = "create"
    <2>1. pools' = PoolInitialized(call.ix) /\ CanInitializePool(call.ix)
      BY <1>4 DEF Submit, Accepted
    <2>2. call.ix.mintA \in Mints /\ call.ix.mintB \in Mints
      BY <1>1, <1>4 DEF Inv, CallInv
    <2> QED BY <1>1, <1>2, <2>1, <2>2, PoolCreated
  <1>5. CASE Accepted(call) /\ call.kind # "create"
    <2> DEFINE collected == {ix.pool : ix \in call.ixs}
    <2>1. pools' = [p \in DOMAIN pools |->
                      IF p \in collected THEN [pools[p] EXCEPT !.owed = FALSE] ELSE pools[p]]
      BY <1>5 DEF Submit
    <2> HIDE DEF collected
    <2>2. \A p \in DOMAIN pools : pools[p] \in Pool
      BY DEF Inv, TypesInv
    <2>3. \A p \in DOMAIN pools : pools'[p] \in Pool /\ pools'[p].rewards = pools[p].rewards
      BY <2>1, <2>2 DEF Pool
    <2>4. DOMAIN pools' = DOMAIN pools /\ pools' \in [DOMAIN pools' -> Pool]
      BY <2>1, <2>3
    <2> QED BY <1>1, <1>2, <2>3, <2>4, OwedChanges
  <1> QED BY <1>3, <1>4, <1>5

-----------------------------------------------------------------------------
(* The theorems. *)

LEMMA InvStep == Inv /\ [Next]_vars => Inv'
  <1> SUFFICES ASSUME Inv, [Next]_vars PROVE Inv'
    OBVIOUS
  <1>1. CASE Next
    <2>1. CASE InitializeConfig
      BY <2>1, Founds
    <2>2. CASE \/ SetFeeAuthority \/ SetCollectProtocolFeesAuthority
               \/ SetRewardEmissionsSuperAuthority \/ SetDefaultProtocolFeeRate
      BY <2>2, Configures
    <2>3. CASE InitializeFeeTier \/ SetDefaultFeeRate \/ InitializeTokenBadge \/ DeleteTokenBadge
      BY <2>3, SetsTiersAndBadges
    <2>4. CASE InitializeConfigExtension \/ SetConfigExtensionAuthority \/ SetTokenBadgeAuthority
      BY <2>4, Extends
    <2>5. CASE InitializePool \/ InitializePoolV2
      BY <2>5, MakesPools
    <2>6. CASE SetFeeRate \/ SetProtocolFeeRate \/ CollectProtocolFees \/ CollectProtocolFeesV2
      BY <2>6, GovernsPool
    <2>7. CASE \/ InitializeReward \/ InitializeRewardV2
               \/ SetRewardAuthority \/ SetRewardAuthorityBySuperAuthority
               \/ SetRewardEmissions \/ SetRewardEmissionsV2
      BY <2>7, GovernsRewards
    <2>8. CASE \E p \in DOMAIN pools : Trade(p)
      BY <2>8, Trades
    <2>9. CASE \/ \E c \in Configs, a, b \in Mints, s \in Spacings : createPool(c, a, b, s)
               \/ \E u \in Users, ps \in SUBSET DOMAIN pools : collectProtocolFees(u, ps)
      BY <2>9, Prepares
    <2>10. CASE Submit
      BY <2>10, Submits
    <2> QED BY <1>1, <2>1, <2>2, <2>3, <2>4, <2>5, <2>6, <2>7, <2>8, <2>9, <2>10 DEF Next
  <1>2. CASE UNCHANGED vars
    <2>1. UNCHANGED <<configs, feeTiers, extensions, badges, pools, call, appointed, intruded>>
      BY <1>2 DEF vars, chain
    <2>2. CallInv'
      BY <2>1 DEF Inv, CallInv
    <2> QED BY <2>1, <2>2, OwedChanges DEF Inv, TypesInv
  <1> QED BY <1>1, <1>2

\* Nobody governs a configuration, its extension or its pools who was not
\* appointed by somebody appointed: each of the program's checks of config and
\* authority together (has_one, address and require constraints).
THEOREM PowerPassedOn == Spec => []PowerIsGranted
  <1>1. ASSUME Inv, NEW c \in Configs, NEW h, h \in Holders(c)
        PROVE  h \in appointed[c]
    <2>1. CASE c \in DOMAIN configs /\ h \in {configs[c].fee, configs[c].collect, configs[c].super}
      BY <1>1, <2>1 DEF Inv, Granted
    <2>2. CASE \E e \in DOMAIN extensions : e[1] = c /\ h \in {extensions[e].authority, extensions[e].badge}
      BY <1>1, <2>2 DEF Inv, Granted
    <2>3. CASE \E p \in DOMAIN pools : p[1] = c /\ \E i \in 1..NUM_REWARDS : h = pools[p].rewards[i].authority
      BY <1>1, <2>3 DEF Inv, Granted
    <2> QED BY <1>1, <2>1, <2>2, <2>3 DEF Holders
  <1>2. Inv => PowerIsGranted
    BY <1>1 DEF PowerIsGranted, Inv
  <1> QED BY <1>2, InvInit, InvStep, PTL DEF Spec

\* One pool for two mints and a spacing: the address fixes the order of the
\* mints, and the order the address (Whirlpool::initialize, the pool's seeds).
THEOREM PairHasOnePool == Spec => []OnePoolPerPair
  <1>1. Inv => OnePoolPerPair
    <2> SUFFICES ASSUME Inv, NEW p \in DOMAIN pools, NEW q \in DOMAIN pools,
                        p[1] = q[1], p[4] = q[4], {p[2], p[3]} = {q[2], q[3]}
                 PROVE  p = q
      BY DEF OnePoolPerPair
    <2>1. IsAddress(p) /\ IsAddress(q)
      BY DEF Inv, Ordered
    <2>2. {p[2], p[3], q[2], q[3]} \subseteq Nat
      BY <2>1, GovernanceAssumption DEF IsAddress
    <2>3. p[2] \in {q[2], q[3]} /\ p[3] \in {q[2], q[3]} /\ q[2] \in {p[2], p[3]}
      OBVIOUS
    <2>4. p[2] = q[2] /\ p[3] = q[3]
      BY <2>1, <2>2, <2>3 DEF IsAddress
    <2>5. p = <<p[1], p[2], p[3], p[4]>> /\ q = <<q[1], q[2], q[3], q[4]>>
      BY <2>1 DEF IsAddress
    <2> QED BY <2>4, <2>5
  <1> QED BY <1>1, InvInit, InvStep, PTL DEF Spec

\* Rewards fill their places from the lowest, and only those with a mint are
\* paid (Whirlpool::initialize_reward, set_reward_emissions).
THEOREM RewardsFilledInOrder == Spec => []RewardsFromLowest
  <1>1. Inv => RewardsFromLowest
    BY DEF Inv, InOrder, RewardsFromLowest
  <1> QED BY <1>1, InvInit, InvStep, PTL DEF Spec

-----------------------------------------------------------------------------
(* What the client prepares and what the program accepts later. *)

\* A fee tier was made under a configuration that exists.
TiersRooted == \A t \in DOMAIN feeTiers : t[1] \in DOMAIN configs

\* Whether the program would take the two mints, were these the badges.
MintsSupported(ix, held) ==
    /\ is_supported_token_mint(ix.mintA, <<ix.config, ix.mintA>> \in held)
    /\ is_supported_token_mint(ix.mintB, <<ix.config, ix.mintB>> \in held)

\* The pool's transaction names accounts that exist at the addresses that the
\* program derives; what the caller was told is what the program would have
\* answered with the badges of then.
CreateSound(c) ==
    /\ c.ix.config \in DOMAIN configs /\ c.ix.feeTier \in DOMAIN feeTiers
    /\ c.ix.feeTier = <<c.ix.config, c.ix.spacing>>
    /\ c.ix.pool = <<c.ix.config, c.ix.mintA, c.ix.mintB, c.ix.spacing>>
    /\ c.ix.mintA < c.ix.mintB
    /\ c.ix.v2 => c.ix.badgeA = <<c.ix.config, c.ix.mintA>> /\ c.ix.badgeB = <<c.ix.config, c.ix.mintB>>
    /\ c.ix.v2 <=> ~IsToken(c.ix.mintA) \/ ~IsToken(c.ix.mintB)
    /\ c.supported <=> MintsSupported(c.ix, c.badged)

CollectSound(c) ==
    \A ix \in c.ixs :
        /\ ix.pool \in DOMAIN pools /\ ix.config = ix.pool[1]
        /\ ix.v2 \/ (IsToken(ix.pool[2]) /\ IsToken(ix.pool[3]))

CallSound ==
    /\ TiersRooted
    /\ (call # None /\ call.kind = "create") => CreateSound(call)
    /\ (call # None /\ call.kind = "collect") => CollectSound(call)

\* The client's own list of extensions says of a mint what the program says
\* (PoolUtil.isSupportedToken, is_supported_token_mint).
LEMMA SameAnswer ==
    ASSUME NEW c, NEW m
    PROVE  isSupportedToken(c, m) <=> is_supported_token_mint(m, <<c, m>> \in badges)
  BY DEF isSupportedToken, is_supported_token_mint, IsToken, getTokenBadge, Welcome, NeedBadge

\* More badges never make a pair of mints less acceptable.
LEMMA BadgesHelp ==
    ASSUME NEW ix, NEW held, NEW more, held \subseteq more, MintsSupported(ix, held)
    PROVE  MintsSupported(ix, more)
  <1>1. ASSUME NEW m, NEW b, is_supported_token_mint(m, b \in held)
        PROVE  is_supported_token_mint(m, b \in more)
    BY <1>1 DEF is_supported_token_mint
  <1> QED BY <1>1 DEF MintsSupported

\* An instruction with the badges' own addresses meets the mints as they are.
LEMMA MintsAllowed ==
    ASSUME NEW ix,
           ix.v2 => ix.badgeA = <<ix.config, ix.mintA>> /\ ix.badgeB = <<ix.config, ix.mintB>>,
           ix.v2 <=> ~IsToken(ix.mintA) \/ ~IsToken(ix.mintB)
    PROVE  MintsSupported(ix, badges) <=>
              /\ MintAllowed(ix, ix.config, ix.mintA, IF ix.v2 THEN ix.badgeA ELSE None)
              /\ MintAllowed(ix, ix.config, ix.mintB, IF ix.v2 THEN ix.badgeB ELSE None)
  <1>1. CASE ix.v2
    <2>1. /\ is_token_badge_initialized(ix.config, ix.mintA, ix.badgeA) <=> <<ix.config, ix.mintA>> \in badges
          /\ is_token_badge_initialized(ix.config, ix.mintB, ix.badgeB) <=> <<ix.config, ix.mintB>> \in badges
      BY <1>1 DEF is_token_badge_initialized
    <2> QED BY <1>1, <2>1 DEF MintsSupported, MintAllowed, is_supported_token_mint
  <1>2. CASE ~ix.v2
    <2>1. IsToken(ix.mintA) /\ IsToken(ix.mintB)
      BY <1>2
    <2> QED BY <1>2, <2>1 DEF MintsSupported, MintAllowed, is_supported_token_mint, IsToken
  <1> QED BY <1>1, <1>2

\* Nobody ever closes a configuration, a fee tier or a pool.
Remain ==
    /\ DOMAIN configs \subseteq DOMAIN configs' /\ DOMAIN feeTiers \subseteq DOMAIN feeTiers'
    /\ DOMAIN pools \subseteq DOMAIN pools'
    /\ TiersRooted'

\* What others do leaves a prepared transaction sound.
LEMMA CallStaysSound ==
    ASSUME CallSound, Remain, call' = call
    PROVE  CallSound'
  BY DEF CallSound, Remain, CreateSound, CollectSound, MintsSupported

LEMMA NothingCloses == ASSUME Inv, TiersRooted, [Next]_vars PROVE Remain
  <1>1. CASE UNCHANGED <<configs, feeTiers, pools>>
    BY <1>1 DEF Remain, TiersRooted
  <1>2. ASSUME NEW p, NEW q, pools' = [pools EXCEPT ![p] = q], UNCHANGED <<configs, feeTiers>>
        PROVE  Remain
    BY <1>2 DEF Remain, TiersRooted
  <1>3. ASSUME NEW ix, NEW updated, NEW named, SetPool(ix, updated, named)
        PROVE  Remain
    BY <1>2, <1>3 DEF SetPool
  <1>4. ASSUME NEW ix, NEW held, NEW updated, SetConfig(ix, held, updated)
        PROVE  Remain
    BY <1>4 DEF SetConfig, Remain, TiersRooted
  <1>5. CASE InitializeConfig
    BY <1>5 DEF InitializeConfig, initialize_config, Put, Remain, TiersRooted
  <1>6. CASE \/ SetFeeAuthority \/ SetCollectProtocolFeesAuthority
             \/ SetRewardEmissionsSuperAuthority \/ SetDefaultProtocolFeeRate
    BY <1>4, <1>6 DEF SetFeeAuthority, SetCollectProtocolFeesAuthority, SetRewardEmissionsSuperAuthority,
       SetDefaultProtocolFeeRate, set_fee_authority, set_collect_protocol_fees_authority,
       set_reward_emissions_super_authority, set_default_protocol_fee_rate
  <1>7. CASE InitializeFeeTier
    <2>1. PICK ix : initialize_fee_tier(ix)
      BY <1>7 DEF InitializeFeeTier
    <2>2. ix.feeTier[1] = ix.config
      BY <2>1 DEF initialize_fee_tier
    <2> QED BY <2>1, <2>2 DEF initialize_fee_tier, Put, Remain, TiersRooted
  <1>8. CASE SetDefaultFeeRate
    BY <1>8 DEF SetDefaultFeeRate, set_default_fee_rate, Remain, TiersRooted
  <1>9. CASE \/ InitializeConfigExtension \/ SetConfigExtensionAuthority \/ SetTokenBadgeAuthority
             \/ InitializeTokenBadge \/ DeleteTokenBadge
    <2>1. CASE InitializeConfigExtension
      BY <1>1, <2>1 DEF InitializeConfigExtension, initialize_config_extension
    <2>2. CASE SetConfigExtensionAuthority
      BY <1>1, <2>2 DEF SetConfigExtensionAuthority, set_config_extension_authority
    <2>3. CASE SetTokenBadgeAuthority
      BY <1>1, <2>3 DEF SetTokenBadgeAuthority, set_token_badge_authority
    <2>4. CASE InitializeTokenBadge
      BY <1>1, <2>4 DEF InitializeTokenBadge, initialize_token_badge
    <2>5. CASE DeleteTokenBadge
      BY <1>1, <2>5 DEF DeleteTokenBadge, delete_token_badge
    <2> QED BY <1>9, <2>1, <2>2, <2>3, <2>4, <2>5
  <1>10. CASE InitializePool \/ InitializePoolV2
    <2>1. PICK ix : initialize_pool(ix)
      BY <1>10 DEF InitializePool, InitializePoolV2
    <2> QED BY <2>1 DEF initialize_pool, PoolInitialized, Put, Remain, TiersRooted
  <1>11. CASE \/ SetFeeRate \/ SetProtocolFeeRate \/ CollectProtocolFees \/ CollectProtocolFeesV2
    BY <1>3, <1>11, ZenonT(60) DEF SetFeeRate, SetProtocolFeeRate, CollectProtocolFees, CollectProtocolFeesV2,
       set_fee_rate, set_protocol_fee_rate, collect_protocol_fees
  <1>12. CASE \/ InitializeReward \/ InitializeRewardV2
              \/ SetRewardAuthority \/ SetRewardAuthorityBySuperAuthority
              \/ SetRewardEmissions \/ SetRewardEmissionsV2
    <2>1. CASE InitializeReward
      BY <1>3, <2>1 DEF InitializeReward, initialize_reward
    <2>2. CASE InitializeRewardV2
      BY <1>3, <2>2 DEF InitializeRewardV2, initialize_reward
    <2>3. CASE SetRewardAuthority
      BY <1>3, <2>3 DEF SetRewardAuthority, set_reward_authority
    <2>4. CASE SetRewardAuthorityBySuperAuthority
      BY <1>3, <2>4 DEF SetRewardAuthorityBySuperAuthority, set_reward_authority_by_super_authority
    <2>5. CASE SetRewardEmissions
      BY <1>3, <2>5 DEF SetRewardEmissions, set_reward_emissions, SetEmissions
    <2>6. CASE SetRewardEmissionsV2
      BY <1>3, <2>6 DEF SetRewardEmissionsV2, set_reward_emissions_v2, SetEmissions
    <2> QED BY <1>12, <2>1, <2>2, <2>3, <2>4, <2>5, <2>6
  <1>13. CASE \E p \in DOMAIN pools : Trade(p)
    BY <1>13 DEF Trade, Remain, TiersRooted
  <1>14. CASE \/ \E c \in Configs, a, b \in Mints, s \in Spacings : createPool(c, a, b, s)
              \/ \E u \in Users, ps \in SUBSET DOMAIN pools : collectProtocolFees(u, ps)
    BY <1>1, <1>14 DEF createPool, collectProtocolFees, Prepare, chain
  <1>15. CASE Submit
    <2>1. CASE pools' = PoolInitialized(call.ix)
      BY <1>15, <2>1 DEF Submit, PoolInitialized, Put, Remain, TiersRooted
    <2>2. CASE DOMAIN pools' = DOMAIN pools
      BY <1>15, <2>2 DEF Submit, Remain, TiersRooted
    <2> QED BY <1>15, <2>1, <2>2 DEF Submit
  <1>16. CASE UNCHANGED vars
    BY <1>1, <1>16 DEF vars, chain
  <1> QED
    BY <1>5, <1>6, <1>7, <1>8, <1>9, <1>10, <1>11, <1>12, <1>13, <1>14, <1>15, <1>16 DEF Next

\* Nobody but the client touches what it has prepared.
LEMMA CallUntouched ==
    ASSUME [Next]_vars
    PROVE  \/ call' = call
           \/ call' = None
           \/ \E c \in Configs, a, b \in Mints, s \in Spacings : createPool(c, a, b, s)
           \/ \E u \in Users, ps \in SUBSET DOMAIN pools : collectProtocolFees(u, ps)
  <1>1. ASSUME NEW u, NEW c, NEW named, By(u, c, named)
        PROVE  call' = call
    BY <1>1 DEF By
  <1>2. ASSUME NEW ix, NEW updated, NEW named, SetPool(ix, updated, named)
        PROVE  call' = call
    BY <1>1, <1>2 DEF SetPool
  <1>3. CASE \/ SetFeeAuthority \/ SetCollectProtocolFeesAuthority
             \/ SetRewardEmissionsSuperAuthority \/ SetDefaultProtocolFeeRate
    BY <1>1, <1>3 DEF SetFeeAuthority, SetCollectProtocolFeesAuthority, SetRewardEmissionsSuperAuthority,
       SetDefaultProtocolFeeRate, set_fee_authority, set_collect_protocol_fees_authority,
       set_reward_emissions_super_authority, set_default_protocol_fee_rate
  <1>4. CASE \/ InitializeConfig \/ InitializeFeeTier \/ SetDefaultFeeRate
             \/ InitializePool \/ InitializePoolV2 \/ \E p \in DOMAIN pools : Trade(p)
    <2>1. CASE InitializeConfig
      BY <1>1, <2>1 DEF InitializeConfig, initialize_config
    <2>2. CASE InitializeFeeTier
      BY <1>1, <2>2 DEF InitializeFeeTier, initialize_fee_tier
    <2>3. CASE SetDefaultFeeRate
      BY <1>1, <2>3 DEF SetDefaultFeeRate, set_default_fee_rate
    <2>4. CASE InitializePool
      BY <1>1, <2>4 DEF InitializePool, initialize_pool, ByAnyone
    <2>5. CASE InitializePoolV2
      BY <1>1, <2>5 DEF InitializePoolV2, initialize_pool, ByAnyone
    <2>6. CASE \E p \in DOMAIN pools : Trade(p)
      BY <2>6 DEF Trade, ByAnyone
    <2> QED BY <1>4, <2>1, <2>2, <2>3, <2>4, <2>5, <2>6
  <1>5. CASE \/ InitializeConfigExtension \/ SetConfigExtensionAuthority \/ SetTokenBadgeAuthority
             \/ InitializeTokenBadge \/ DeleteTokenBadge
    <2>1. CASE InitializeConfigExtension
      BY <1>1, <2>1 DEF InitializeConfigExtension, initialize_config_extension
    <2>2. CASE SetConfigExtensionAuthority
      BY <1>1, <2>2 DEF SetConfigExtensionAuthority, set_config_extension_authority
    <2>3. CASE SetTokenBadgeAuthority
      BY <1>1, <2>3 DEF SetTokenBadgeAuthority, set_token_badge_authority
    <2>4. CASE InitializeTokenBadge
      BY <1>1, <2>4 DEF InitializeTokenBadge, initialize_token_badge
    <2>5. CASE DeleteTokenBadge
      BY <1>1, <2>5 DEF DeleteTokenBadge, delete_token_badge
    <2> QED BY <1>5, <2>1, <2>2, <2>3, <2>4, <2>5
  <1>6. CASE \/ SetFeeRate \/ SetProtocolFeeRate \/ CollectProtocolFees \/ CollectProtocolFeesV2
             \/ InitializeReward \/ InitializeRewardV2
             \/ SetRewardAuthority \/ SetRewardAuthorityBySuperAuthority
             \/ SetRewardEmissions \/ SetRewardEmissionsV2
    <2>1. CASE SetFeeRate
      BY <1>2, <2>1 DEF SetFeeRate, set_fee_rate
    <2>2. CASE SetProtocolFeeRate
      BY <1>2, <2>2 DEF SetProtocolFeeRate, set_protocol_fee_rate
    <2>3. CASE CollectProtocolFees
      BY <1>2, <2>3 DEF CollectProtocolFees, collect_protocol_fees
    <2>4. CASE CollectProtocolFeesV2
      BY <1>2, <2>4 DEF CollectProtocolFeesV2, collect_protocol_fees
    <2>5. CASE InitializeReward
      BY <1>2, <2>5 DEF InitializeReward, initialize_reward
    <2>6. CASE InitializeRewardV2
      BY <1>2, <2>6 DEF InitializeRewardV2, initialize_reward
    <2>7. CASE SetRewardAuthority
      BY <1>2, <2>7 DEF SetRewardAuthority, set_reward_authority
    <2>8. CASE SetRewardAuthorityBySuperAuthority
      BY <1>2, <2>8 DEF SetRewardAuthorityBySuperAuthority, set_reward_authority_by_super_authority
    <2>9. CASE SetRewardEmissions
      BY <1>2, <2>9 DEF SetRewardEmissions, set_reward_emissions, SetEmissions
    <2>10. CASE SetRewardEmissionsV2
      BY <1>2, <2>10 DEF SetRewardEmissionsV2, set_reward_emissions_v2, SetEmissions
    <2> QED BY <1>6, <2>1, <2>2, <2>3, <2>4, <2>5, <2>6, <2>7, <2>8, <2>9, <2>10
  <1>7. CASE Submit \/ UNCHANGED vars
    BY <1>7 DEF Submit, vars
  <1> QED BY <1>3, <1>4, <1>5, <1>6, <1>7 DEF Next

\* createPool reads the fee tier and derives every address itself.
LEMMA CreatePrepared ==
    ASSUME CallSound, NEW c \in Configs, NEW a \in Mints, NEW b \in Mints, NEW s \in Spacings,
           createPool(c, a, b, s)
    PROVE  CallSound'
  <1> DEFINE ix == call'.ix
  <1>1. /\ a < b /\ getFeeTier(c, s) \in DOMAIN feeTiers
        /\ call'.kind = "create" /\ call'.badged = badges
        /\ call'.supported = (isSupportedToken(c, a) /\ isSupportedToken(c, b))
        /\ ix = IF isV2IxRequiredPool(a, b)
                THEN initializePoolV2Ix(c, getWhirlpool(c, a, b, s), a, b, getTokenBadge(c, a),
                                        getTokenBadge(c, b), getFeeTier(c, s), s)
                ELSE initializePoolIx(c, getWhirlpool(c, a, b, s), a, b, getFeeTier(c, s), s)
        /\ UNCHANGED <<configs, feeTiers, extensions, badges, pools>>
    BY DEF createPool, Prepare, chain
  <1>2. /\ ix.config = c /\ ix.mintA = a /\ ix.mintB = b /\ ix.spacing = s
        /\ ix.pool = <<c, a, b, s>> /\ ix.feeTier = <<c, s>>
        /\ ix.v2 => ix.badgeA = <<c, a>> /\ ix.badgeB = <<c, b>>
        /\ ix.v2 <=> ~IsToken(a) \/ ~IsToken(b)
    <2>1. CASE isV2IxRequiredPool(a, b)
      <3>1. ix = initializePoolV2Ix(c, getWhirlpool(c, a, b, s), a, b, getTokenBadge(c, a),
                                    getTokenBadge(c, b), getFeeTier(c, s), s)
        BY <1>1, <2>1
      <3>2. ~IsToken(a) \/ ~IsToken(b)
        BY <2>1 DEF isV2IxRequiredPool
      <3> HIDE DEF ix
      <3> QED BY <3>1, <3>2 DEF initializePoolV2Ix, getWhirlpool, getFeeTier, getTokenBadge
    <2>2. CASE ~isV2IxRequiredPool(a, b)
      <3>1. ix = initializePoolIx(c, getWhirlpool(c, a, b, s), a, b, getFeeTier(c, s), s)
        BY <1>1, <2>2
      <3>2. ~(~IsToken(a) \/ ~IsToken(b))
        BY <2>2 DEF isV2IxRequiredPool
      <3> HIDE DEF ix
      <3> QED BY <3>1, <3>2 DEF initializePoolIx, getWhirlpool, getFeeTier
    <2> QED BY <2>1, <2>2
  <1>3. call'.supported <=> MintsSupported(ix, call'.badged)
    <2>1. /\ isSupportedToken(c, a) <=> is_supported_token_mint(a, <<c, a>> \in badges)
          /\ isSupportedToken(c, b) <=> is_supported_token_mint(b, <<c, b>> \in badges)
      BY SameAnswer
    <2> HIDE DEF ix
    <2>2. MintsSupported(ix, call'.badged) <=> isSupportedToken(c, a) /\ isSupportedToken(c, b)
      BY <1>1, <1>2, <2>1 DEF MintsSupported
    <2>3. CASE isSupportedToken(c, a) /\ isSupportedToken(c, b)
      <3>1. call'.supported = TRUE
        BY <1>1, <2>3
      <3> QED BY <2>2, <2>3, <3>1
    <2>4. CASE ~(isSupportedToken(c, a) /\ isSupportedToken(c, b))
      <3>1. call'.supported = FALSE
        BY <1>1, <2>4
      <3> QED BY <2>2, <2>4, <3>1
    <2> QED BY <2>3, <2>4
  <1>4. <<c, s>> \in DOMAIN feeTiers /\ c \in DOMAIN configs
    <2>1. <<c, s>> \in DOMAIN feeTiers
      BY <1>1 DEF getFeeTier
    <2>2. <<c, s>>[1] \in DOMAIN configs
      BY <2>1 DEF CallSound, TiersRooted
    <2> QED BY <2>1, <2>2
  <1>5. TiersRooted'
    BY <1>1 DEF CallSound, TiersRooted
  <1>6. CreateSound(call)'
    <2> HIDE DEF ix
    <2>1. /\ ix.config \in DOMAIN configs' /\ ix.feeTier \in DOMAIN feeTiers'
          /\ ix.mintA < ix.mintB /\ ix.feeTier = <<ix.config, ix.spacing>>
          /\ ix.pool = <<ix.config, ix.mintA, ix.mintB, ix.spacing>>
          /\ ix.v2 => ix.badgeA = <<ix.config, ix.mintA>> /\ ix.badgeB = <<ix.config, ix.mintB>>
          /\ ix.v2 <=> ~IsToken(ix.mintA) \/ ~IsToken(ix.mintB)
      BY <1>1, <1>2, <1>4
    <2> QED BY <2>1, <1>3 DEF CreateSound, ix, MintsSupported
  <1> QED BY <1>1, <1>5, <1>6 DEF CallSound

\* collectProtocolFees takes the version that the pool's mints ask for.
LEMMA CollectPrepared ==
    ASSUME CallSound, NEW u \in Users, NEW ps \in SUBSET DOMAIN pools, collectProtocolFees(u, ps)
    PROVE  CallSound'
  <1> DEFINE IxOf(p) == IF isV2IxRequiredPool(p[2], p[3])
                        THEN collectProtocolFeesV2Ix(p[1], p, u)
                        ELSE collectProtocolFeesIx(p[1], p, u)
  <1>1. /\ call'.kind = "collect" /\ call'.ixs = {IxOf(p) : p \in ps}
        /\ UNCHANGED <<configs, feeTiers, extensions, badges, pools>>
    BY DEF collectProtocolFees, Prepare, chain
  <1>2. ASSUME NEW p \in ps
        PROVE  /\ IxOf(p).pool = p /\ IxOf(p).config = p[1]
               /\ IxOf(p).v2 \/ (IsToken(p[2]) /\ IsToken(p[3]))
    <2>1. CASE isV2IxRequiredPool(p[2], p[3])
      <3>1. IxOf(p) = collectProtocolFeesV2Ix(p[1], p, u)
        BY <2>1
      <3> QED BY <3>1 DEF collectProtocolFeesV2Ix
    <2>2. CASE ~isV2IxRequiredPool(p[2], p[3])
      <3>1. IxOf(p) = collectProtocolFeesIx(p[1], p, u)
        BY <2>2
      <3>2. IsToken(p[2]) /\ IsToken(p[3])
        BY <2>2 DEF isV2IxRequiredPool
      <3> QED BY <3>1, <3>2 DEF collectProtocolFeesIx
    <2> QED BY <2>1, <2>2
  <1> HIDE DEF IxOf
  <1>3. CollectSound(call)'
    BY <1>1, <1>2 DEF CollectSound, IsToken
  <1>4. TiersRooted'
    BY <1>1 DEF CallSound, TiersRooted
  <1> QED BY <1>1, <1>3, <1>4 DEF CallSound

LEMMA CallStep == Inv /\ CallSound /\ [Next]_vars => CallSound'
  <1> SUFFICES ASSUME Inv, CallSound, [Next]_vars PROVE CallSound'
    OBVIOUS
  <1>1. Remain
    BY NothingCloses DEF CallSound
  <1>2. CASE call' = call
    BY <1>1, <1>2, CallStaysSound
  <1>3. CASE call' = None
    BY <1>1, <1>3 DEF CallSound, Remain
  <1>4. CASE \E c \in Configs, a, b \in Mints, s \in Spacings : createPool(c, a, b, s)
    BY <1>4, CreatePrepared
  <1>5. CASE \E u \in Users, ps \in SUBSET DOMAIN pools : collectProtocolFees(u, ps)
    BY <1>5, CollectPrepared
  <1> QED BY <1>2, <1>3, <1>4, <1>5, CallUntouched

\* A transaction that createPool or collectProtocolFees prepared is refused for
\* what others did after it was prepared, and for nothing else: no version,
\* address, order of mints or list of extensions of the client's is at odds
\* with the program's (whirlpool-client-impl.ts, composites/collect-protocol-fees.ts).
THEOREM ClientIsAccepted == Spec => []ClientAccepted
  <1>1. Init => CallSound
    BY DEF Init, CallSound, TiersRooted
  <1>2. CallSound => CreateAccepted
    <2> SUFFICES ASSUME CallSound, call # None, call.kind = "create"
                 PROVE  /\ \/ CanInitializePool(call.ix) \/ call.ix.pool \in DOMAIN pools
                           \/ ~call.supported \/ ~(call.badged \subseteq badges)
                        /\ (~call.supported /\ badges \subseteq call.badged) => ~CanInitializePool(call.ix)
      BY DEF CreateAccepted
    <2>1. CreateSound(call)
      BY DEF CallSound
    <2>2. MintsSupported(call.ix, badges) <=>
            /\ MintAllowed(call.ix, call.ix.config, call.ix.mintA, IF call.ix.v2 THEN call.ix.badgeA ELSE None)
            /\ MintAllowed(call.ix, call.ix.config, call.ix.mintB, IF call.ix.v2 THEN call.ix.badgeB ELSE None)
      BY <2>1, MintsAllowed DEF CreateSound
    <2>3. call.ix.pool \notin DOMAIN pools => (CanInitializePool(call.ix) <=> MintsSupported(call.ix, badges))
      BY <2>1, <2>2 DEF CreateSound, CanInitializePool
    <2>4. CanInitializePool(call.ix) => MintsSupported(call.ix, badges)
      BY <2>2 DEF CanInitializePool
    <2>5. (call.supported /\ call.badged \subseteq badges) => MintsSupported(call.ix, badges)
      BY <2>1, BadgesHelp DEF CreateSound
    <2>6. (MintsSupported(call.ix, badges) /\ badges \subseteq call.badged) => call.supported
      BY <2>1, BadgesHelp DEF CreateSound
    <2> QED BY <2>3, <2>4, <2>5, <2>6
  <1>3. Inv /\ CallSound => CollectAccepted
    BY DEF Inv, Rooted, CallSound, CollectSound, CollectAccepted, CanCollectProtocolFees, PoolUnder
  <1>4. Inv /\ CallSound => ClientAccepted
    BY <1>2, <1>3 DEF ClientAccepted
  <1> QED BY <1>1, <1>4, InvInit, InvStep, CallStep, PTL DEF Spec

===============================================================================
