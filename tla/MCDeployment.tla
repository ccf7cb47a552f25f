----------------------------- MODULE MCDeployment ------------------------------
(***************************************************************************)
(* The migrations that are checked: the first deployment on each network,  *)
(* the pools added later, the scripts that touch what is in use, and those *)
(* that only put new implementations on the chain.                         *)
(***************************************************************************)
EXTENDS Deployment, ArbitrumScripts, AvalancheScripts

Migration(scripts, given, bound) == [scripts |-> scripts, given |-> given, cuts |-> bound]

Earlier(names) == [i \in DOMAIN names |-> [name |-> names[i], fields |-> <<>>]]

(* What the later scripts find: the token manager and the loans factory,   *)
(* the diamond with the facet that is replaced, and the first pools.       *)
InUse ==
  Earlier(<<"TokenManagerTUP", "SmartLoansFactoryTUP", "AssetsOperationsArbitrumFacet",
            "WethPoolTUP", "UsdcPoolTUP">>)
    \o <<[name |-> Diamond, fields |-> [AssetsOperationsArbitrumFacet |-> 3]]>>

UsdtInUse ==
  Earlier(<<"SmartLoansFactoryTUP", "UsdtPoolTUP">>)
    \o <<[name |-> "TokenManagerTUP", fields |-> [USDT |-> 2]]>>

First ==
  {Migration(<<arbitrum_1_rates_calculator, arbitrum_2_pools, arbitrum_3_managers,
               arbitrum_4_provider, arbitrum_6_smart_loan, arbitrum_7_linear_indices,
               arbitrum_8_pools_init>>, <<>>, 1),
   Migration(<<avalanche_1_rates_calculator, avalanche_2_pools, avalanche_3_managers,
               avalanche_4_pangolin_exchange, avalanche_5_traderjoe_exchange,
               avalanche_6_smart_loan, avalanche_7_linear_indices, avalanche_8_pools_init,
               avalanche_9_verify_contracts>>, Earlier(<<"AddressProviderTUP">>), 1),
   Migration(<<avalanche_1_rates_calculator, avalanche_2_pools, avalanche_3_managers,
               avalanche_4_pangolin_exchange, avalanche_5_traderjoe_exchange,
               avalanche_6_smart_loan>>, <<>>, 0)}

NewPools ==
  {Migration(<<arbitrum_12_btc_pool>>, InUse, 2),
   Migration(<<arbitrum_13_usdt_pool>>, InUse, 2),
   Migration(<<arbitrum_14_stable_pools>>, InUse, 1),
   Migration(<<arbitrum_15_non_stable_pools>>, InUse, 2),
   Migration(<<avalanche_11_btc_eth_pools>>, InUse, 1),
   Migration(<<avalanche_12_usdt_pool>>, UsdtInUse, 2)}

Upgrades ==
  {Migration(<<arbitrum_11_flashloan_liquidator, arbitrum_16_sushiswap_exchange,
               arbitrum_19_pools_impl, arbitrum_42_vprime, arbitrum_43_vprime_controller>>,
             InUse, 2),
   Migration(<<arbitrum_23_assets_operations, arbitrum_25_operations_facet>>, InUse, 2),
   Migration(<<avalanche_10_flashloan_liquidator, avalanche_35_prime,
               avalanche_35_prime_vesting, avalanche_42_vprime,
               avalanche_43_vprime_controller>>, InUse, 2)}

Implementations ==
  {Migration(<<arbitrum_17_sushi_swap_dex_facet, arbitrum_18_beefy_finance_facet,
               arbitrum_20_tj_v2_facet, arbitrum_21_glp_facet, arbitrum_22_solvency_facet,
               arbitrum_24_yield_yak_facet, arbitrum_25_operations_facet,
               arbitrum_26_flashloan_liquidator, arbitrum_27_paraswap_facet, arbitrum_28_slf,
               arbitrum_29_deposit_swap, arbitrum_29_level_finance, arbitrum_30_gmx_v2,
               arbitrum_30_new_pools, arbitrum_31_rates_calculators, arbitrum_32_dai_pool,
               arbitrum_33_asset_operation_facet, arbitrum_33_wrapped_native_token_facet,
               arbitrum_34_liquidation_facet, arbitrum_35_token_manager,
               arbitrum_35_view_facet, arbitrum_36_health_meter,
               arbitrum_37_yield_yak_swap_facet, arbitrum_38_penpie_facet,
               arbitrum_38_timelock, arbitrum_39_ltip_facet, arbitrum_40_prime,
               arbitrum_40_prime_vesting, arbitrum_41_sprime>>, InUse, 1),
   Migration(<<avalanche_13_tj_v2_facet, avalanche_14_flashloan_liquidator,
               avalanche_15_new_pools, avalanche_16_solvency_facet, avalanche_17_gmx_v2,
               avalanche_17_rates_calculators, avalanche_17_vector_finance,
               avalanche_18_balancer_v2, avalanche_18_vector_finance_old,
               avalanche_19_assets_operations, avalanche_19_gogopool_facet,
               avalanche_20_liquidation_flashloan, avalanche_21_paraswap_v2,
               avalanche_22_asset_operation_facet, avalanche_22_wrapped_native_token_facet,
               avalanche_23_glp_facet, avalanche_24_liquidation_facet,
               avalanche_25_token_manager, avalanche_25_view_facet, avalanche_26_deposit_swap,
               avalanche_27_btc_eligible_users_list, avalanche_28_random_token_rewarder,
               avalanche_29_cai_facet, avalanche_29_health_meter,
               avalanche_30_pangolin_dex_facet, avalanche_31_traderjoe_dex_facet,
               avalanche_32_yield_yak_facet, avalanche_33_yield_yak_swap_facet,
               avalanche_34_timelock, avalanche_34_wombat_facet,
               avalanche_34_yieldyak_wombat_facet, avalanche_35_deposit_rewarder,
               avalanche_36_gmx_v2_plus, avalanche_41_sprime>>, InUse, 1),
   Migration(<<upgrade_0_deploy_contract, upgrade_1_competition_contracts,
               upgrade_2_yak_staking, upgrade_3_yak_staking_smart_loan,
               upgrade_4_rates_calculator>>, <<>>, 2)}

Checked == First \union NewPools \union Upgrades \union Implementations
================================================================================
