---------------------------- MODULE ArbitrumScripts ----------------------------
(***************************************************************************)
(* The scripts of src/deploy/arbitrum, each named after its file.          *)
(***************************************************************************)
EXTENDS DeploySteps

ArbitrumFacets ==
  <<"ParaSwapFacet", "GLPFacet", "GMDFacet", "OwnershipFacet", "AssetsExposureController",
    "HealthMeterFacetProd", "SolvencyFacetProdArbitrum", "LTIPFacet",
    "SmartLoanWrappedNativeTokenFacet", "AssetsOperationsArbitrumFacet",
    "YieldYakSwapArbitrumFacet", "YieldYakFacetArbi", "SushiSwapDEXFacet",
    "BeefyFinanceArbitrumFacet", "SushiSwapFacet", "PenpieFacet", "LevelFinanceFacet",
    "GmxV2FacetArbitrum", "GmxV2PlusFacetArbitrum", "GmxV2CallbacksFacetArbitrum",
    "SmartLoanLiquidationFacet", "RecoveryFacet", "SmartLoanViewFacet">>

arbitrum_1_rates_calculator == RatesCalculator("Weth") \o RatesCalculator("Usdc")

arbitrum_2_pools ==
  Embed({"Pool", "WrappedNativeTokenPool"} \union PoolFiles("Weth") \union PoolFiles("Usdc"))
    \o deployPool("WethPool") \o deployPool("UsdcPool")

arbitrum_3_managers ==
  Embed({"TokenManager"}) \o Read({"WethPoolTUP", "UsdcPoolTUP"}) \o Deploy("TokenManager")
    \o Proxy("TokenManagerTUP", "TokenManager", [ETH |-> "WethPoolTUP", USDC |-> "UsdcPoolTUP"])

arbitrum_4_provider ==
  Upgradeable("AddressProvider") \o Proxy("AddressProviderTUP", "AddressProvider", NoLinks)

arbitrum_6_smart_loan == SmartLoans({"TokenManagerTUP", "AddressProviderTUP"}, ArbitrumFacets)

arbitrum_7_linear_indices ==
  Embed(IndexFiles("Weth") \union IndexFiles("Usdc"))
    \o deployIndices("Weth") \o deployIndices("Usdc")

arbitrum_8_pools_init == initPool("Weth") \o initPool("Usdc")

arbitrum_11_flashloan_liquidator ==
  Embed({"LiquidationFlashloanArbitrum"}) \o Read({Diamond})
    \o Deploy("LiquidationFlashloanArbitrum")
    \o Put(Diamond, "liquidator" :> "LiquidationFlashloanArbitrum")

arbitrum_12_btc_pool == Embed({"Pool"} \union PoolFiles("Btc")) \o NewPool("Btc", "BTC")

arbitrum_13_usdt_pool == Embed({"Pool"} \union PoolFiles("Usdt")) \o NewPool("Usdt", "USDT")

arbitrum_14_stable_pools ==
  Embed({"Pool"} \union UNION {PoolFiles(a) : a \in {"Usdt", "Dai", "Frax"}})
    \o NewPool("Usdt", "USDT") \o NewPool("Dai", "DAI") \o NewPool("Frax", "FRAX")

arbitrum_15_non_stable_pools ==
  Embed({"Pool"} \union UNION {PoolFiles(a) : a \in {"Uni", "Link", "Arb"}})
    \o NewPool("Arb", "ARB")

arbitrum_16_sushiswap_exchange ==
  Embed({"SushiSwapIntermediary", "SushiSwapIntermediaryTUP"})
    \o Read({"TokenManagerTUP"}) \o Deploy("SushiSwapIntermediary")
    \o Proxy("SushiSwapIntermediaryTUP", "SushiSwapIntermediary",
             "tokenManager" :> "TokenManagerTUP")

arbitrum_19_pools_impl ==
  Embed({"Pool", "WethPool", "UsdcPool"}) \o Deploy("WethPool") \o Deploy("UsdcPool")
    \o Put("WethPoolTUP", "impl" :> "WethPool") \o Put("UsdcPoolTUP", "impl" :> "UsdcPool")

arbitrum_23_assets_operations ==
  Upgradeable("AssetsOperationsArbitrumFacet") \o Read({Diamond})
    \o Pause(Diamond)
    \o ReplaceFacet(Diamond, "AssetsOperationsArbitrumFacet" :> "AssetsOperationsArbitrumFacet")
    \o Unpause(Diamond)

arbitrum_42_vprime ==
  Read({"SmartLoansFactoryTUP"}) \o Upgradeable("vPrime")
    \o Proxy("vPrimeUP", "vPrime", "factory" :> "SmartLoansFactoryTUP")

arbitrum_43_vprime_controller ==
  Upgradeable("vPrimeControllerArbitrum")
    \o Proxy("vPrimeControllerUP", "vPrimeControllerArbitrum", NoLinks)
--------------------------------------------------------------------------------
(* The scripts that only put new implementations on the chain: the         *)
(* multisig makes the proxies and the diamond use them.                    *)
arbitrum_17_sushi_swap_dex_facet == Upgradeable("SushiSwapDEXFacet")
arbitrum_18_beefy_finance_facet == Upgradeable("BeefyFinanceArbitrumFacet")
arbitrum_20_tj_v2_facet ==
  Embed({"TraderJoeV2Facet"}) \o Upgradeable("TraderJoeV2ArbitrumFacet")
arbitrum_21_glp_facet == Upgradeable("GLPFacetArbi")
arbitrum_22_solvency_facet == Upgradeable("SolvencyFacetProdArbitrum")
arbitrum_24_yield_yak_facet == Upgradeable("YieldYakFacetArbi")
arbitrum_25_operations_facet == Upgradeable("AssetsOperationsArbitrumFacet")
arbitrum_26_flashloan_liquidator == Upgradeable("LiquidationFlashloanArbitrum")
arbitrum_27_paraswap_facet == Upgradeable("ParaSwapFacet")
arbitrum_28_slf == Upgradeable("SmartLoansFactory")
arbitrum_29_deposit_swap == Upgradeable("DepositSwapArbitrum")
arbitrum_29_level_finance == Upgradeable("LevelFinanceFacet")
arbitrum_30_gmx_v2 == Upgradeable("GmxV2CallbacksFacetArbitrum")
arbitrum_30_new_pools ==
  Embed({"Pool"}) \o DeployEach(<<"WethPool", "BtcPool", "UsdcPool", "ArbPool">>)
arbitrum_31_rates_calculators == Upgradeable("UsdcVariableUtilisationRatesCalculator")
arbitrum_32_dai_pool == Embed({"Pool"}) \o Upgradeable("DaiPool")
arbitrum_33_asset_operation_facet == Upgradeable("AssetsOperationsArbitrumFacet")
arbitrum_33_wrapped_native_token_facet == Upgradeable("SmartLoanWrappedNativeTokenFacet")
arbitrum_34_liquidation_facet == Upgradeable("SmartLoanLiquidationFacet")
arbitrum_35_token_manager == Upgradeable("TokenManager")
arbitrum_35_view_facet == Upgradeable("SmartLoanViewFacet")
arbitrum_36_health_meter == Upgradeable("HealthMeterFacetProd")
arbitrum_37_yield_yak_swap_facet == Upgradeable("YieldYakSwapArbitrumFacet")
arbitrum_38_penpie_facet == Upgradeable("PenpieFacet")
arbitrum_38_timelock == Deploy("Timelock")
arbitrum_39_ltip_facet == Upgradeable("LTIPFacet")
arbitrum_40_prime == Upgradeable("Prime_L2")
arbitrum_40_prime_vesting == Upgradeable("PrimeVesting")
arbitrum_41_sprime == Upgradeable("sPrimeUniswap") \o Upgradeable("sPrimeUniswapImpl")
================================================================================
