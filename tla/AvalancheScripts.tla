---------------------------- MODULE AvalancheScripts ---------------------------
(***************************************************************************)
(* The scripts of src/deploy/avalanche and src/deploy/upgrade, each named  *)
(* after its file.  Those tagged `avalanche', 1 to 8, are run by one       *)
(* command, in the order of their numbers.                                 *)
(***************************************************************************)
EXTENDS DeploySteps

AvalancheFacets ==
  <<"ParaSwapFacet", "GLPFacet", "GMDFacet", "OwnershipFacet", "AssetsExposureController",
    "HealthMeterFacetProd", "SolvencyFacetProdAvalanche", "GmxV2FacetAvalanche",
    "GmxV2PlusFacetAvalanche", "GmxV2CallbacksFacetAvalanche", "AssetsOperationsFacet",
    "SmartLoanWrappedNativeTokenFacet", "PangolinDEXFacet", "TraderJoeDEXFacet",
    "TraderJoeV2AvalancheFacet", "YieldYakFacet", "BeefyFinanceAvalancheFacet",
    "VectorFinanceFacet", "VectorFinanceFacetOld", "CurveFacet", "SteakHutFinanceFacet",
    "YieldYakSwapFacet", "TraderJoeV2AutopoolsFacet", "BalancerV2Facet", "GogoPoolFacet",
    "WombatFacet", "YieldYakWombatFacet", "UniswapV3Facet", "CaiFacet",
    "SmartLoanLiquidationFacet", "RecoveryFacet", "SmartLoanViewFacet">>

avalanche_1_rates_calculator == RatesCalculator("Wavax") \o RatesCalculator("Usdc")

avalanche_2_pools ==
  Embed({"Pool", "WrappedNativeTokenPool"} \union PoolFiles("Wavax") \union PoolFiles("Usdc"))
    \o deployPool("WavaxPool") \o deployPool("UsdcPool")

avalanche_3_managers ==
  Embed({"TokenManager"}) \o Read({"WavaxPoolTUP", "UsdcPoolTUP"}) \o Deploy("TokenManager")
    \o Proxy("TokenManagerTUP", "TokenManager", [AVAX |-> "WavaxPoolTUP", USDC |-> "UsdcPoolTUP"])

Intermediary(name) ==
  Embed({name, TUP(name)}) \o Deploy(name)
    \o Proxy(TUP(name), name, "tokenManager" :> "TokenManagerTUP")

avalanche_4_pangolin_exchange == Intermediary("PangolinIntermediary")

avalanche_5_traderjoe_exchange == Intermediary("TraderJoeIntermediary")

(* No script of Avalanche makes AddressProviderTUP: it is read here.       *)
avalanche_6_smart_loan ==
  SmartLoans({"PangolinIntermediaryTUP", "TraderJoeIntermediaryTUP", "TokenManagerTUP",
              "AddressProviderTUP"}, AvalancheFacets)

avalanche_7_linear_indices ==
  Embed(IndexFiles("Wavax") \union IndexFiles("Usdc"))
    \o deployIndices("Wavax") \o deployIndices("Usdc")

avalanche_8_pools_init == initPool("Wavax") \o initPool("Usdc")

(* The contracts whose sources avalanche_9 verifies, in three parts.       *)
VerifiedPools ==
  {"WavaxVariableUtilisationRatesCalculator", "UsdcVariableUtilisationRatesCalculator",
   ByFactory("WavaxPool"), ByFactory("UsdcPool"), "WavaxPoolTUP", "UsdcPoolTUP"}
VerifiedLoans ==
  {"PangolinIntermediary", "PangolinIntermediaryTUP", "TraderJoeIntermediary",
   "TraderJoeIntermediaryTUP", "SmartLoansFactory", "SmartLoansFactoryTUP", Diamond,
   "VectorFinanceFacet", "YieldYakFacet", "DiamondCutFacet", "SolvencyFacetProdAvalanche",
   "AssetsOperationsFacet", "DiamondInit", "DiamondLoupeFacet", "OwnershipFacet"}
VerifiedRest ==
  {"PangolinDEXFacet", "TraderJoeDEXFacet", "SmartLoanLiquidationFacet", "SmartLoanViewFacet",
   "SmartLoanWrappedNativeTokenFacet", "TokenManager", "TokenManagerTUP", "UsdcPoolFactory",
   "WavaxPoolFactory"}
     \union UNION {{n, TUP(n)} : n \in IndexFiles("Wavax") \union IndexFiles("Usdc")}
avalanche_9_verify_contracts == Read(VerifiedPools \union VerifiedLoans \union VerifiedRest)

avalanche_10_flashloan_liquidator ==
  Embed({"LiquidationFlashloan"}) \o Read({Diamond})
    \o DeployWith("LiquidationFlashloan", "diamond" :> Diamond)
    \o Put(Diamond, "liquidator" :> "LiquidationFlashloan")

avalanche_11_btc_eth_pools ==
  Embed({"Pool"} \union PoolFiles("Eth") \union PoolFiles("Btc"))
    \o deployPool("EthPool") \o deployPool("BtcPool")
    \o Embed(IndexFiles("Eth") \union IndexFiles("Btc"))
    \o deployIndices("Eth") \o deployIndices("Btc")
    \o RatesCalculator("Eth") \o RatesCalculator("Btc")
    \o initPool("Eth") \o initPool("Btc")
    \o SetOnce("TokenManagerTUP", [BTC |-> "BtcPoolTUP", ETH |-> "EthPoolTUP"])

(* The pool of USDT is replaced: the registration of the old one goes.     *)
avalanche_12_usdt_pool ==
  Embed({"Pool"} \union PoolFiles("Usdt")) \o deployPool("UsdtPool")
    \o Embed(IndexFiles("Usdt")) \o deployIndices("Usdt")
    \o RatesCalculator("Usdt") \o initPool("Usdt")
    \o RemoveField("TokenManagerTUP", "USDT")
    \o SetOnce("TokenManagerTUP", "USDT" :> "UsdtPoolTUP")

avalanche_35_prime ==
  Upgradeable("Prime") \o Embed({"PrimeBridge"}) \o DeployWith("PrimeBridge", "prime" :> "Prime")

(* The list of participants fits in one batch, which is also the last.     *)
avalanche_35_prime_vesting ==
  Upgradeable("PrimeVesting") \o SetOnce("PrimeVesting", "participants" :> "PrimeVesting")

avalanche_42_vprime == Upgradeable("vPrime") \o Proxy("vPrimeUP", "vPrime", NoLinks)

avalanche_43_vprime_controller ==
  Upgradeable("vPrimeControllerAvalanche")
    \o Proxy("vPrimeControllerUP", "vPrimeControllerAvalanche", NoLinks)
--------------------------------------------------------------------------------
avalanche_13_tj_v2_facet == Upgradeable("TraderJoeV2AvalancheFacet")
avalanche_14_flashloan_liquidator ==
  Embed({"LiquidationFlashloanAvalanche"}) \o Read({Diamond})
    \o DeployWith("LiquidationFlashloanAvalanche", "diamond" :> Diamond)
avalanche_15_new_pools ==
  Embed({"Pool"}) \o DeployEach(<<"EthPool", "BtcPool", "UsdcPool", "UsdtPool", "WavaxPool">>)
avalanche_16_solvency_facet == Upgradeable("SolvencyFacetProdAvalanche")
avalanche_17_gmx_v2 == Upgradeable("GmxV2CallbacksFacetAvalanche")
avalanche_17_rates_calculators ==
  DeployEach(<<"UsdcVariableUtilisationRatesCalculator", "UsdtVariableUtilisationRatesCalculator">>)
avalanche_17_vector_finance == Upgradeable("VectorFinanceFacet")
avalanche_18_balancer_v2 == Upgradeable("BalancerV2Facet")
avalanche_18_vector_finance_old == Upgradeable("VectorFinanceFacetOld")
avalanche_19_assets_operations == Upgradeable("AssetsOperationsAvalancheFacet")
avalanche_19_gogopool_facet == Upgradeable("GogoPoolFacet")
avalanche_20_liquidation_flashloan == Upgradeable("LiquidationFlashloanAvalanche")
avalanche_21_paraswap_v2 == Upgradeable("ParaSwapFacet")
avalanche_22_asset_operation_facet == Upgradeable("AssetsOperationsAvalancheFacet")
avalanche_22_wrapped_native_token_facet == Upgradeable("SmartLoanWrappedNativeTokenFacet")
avalanche_23_glp_facet == Upgradeable("GLPFacet")
avalanche_24_liquidation_facet == Upgradeable("SmartLoanLiquidationFacet")
avalanche_25_token_manager == Upgradeable("TokenManager")
avalanche_25_view_facet == Upgradeable("SmartLoanViewFacet")
avalanche_26_deposit_swap == Upgradeable("DepositSwapAvalanche")
avalanche_27_btc_eligible_users_list == Deploy("BtcEligibleUsersList")
avalanche_28_random_token_rewarder == Deploy("RandomTokenRewarder")
avalanche_29_cai_facet == Upgradeable("CaiFacet")
avalanche_29_health_meter == Upgradeable("HealthMeterFacetProd")
avalanche_30_pangolin_dex_facet == Upgradeable("PangolinDEXFacet")
avalanche_31_traderjoe_dex_facet == Upgradeable("TraderJoeDEXFacet")
avalanche_32_yield_yak_facet == Upgradeable("YieldYakFacet")
avalanche_33_yield_yak_swap_facet == Upgradeable("YieldYakSwapFacet")
avalanche_34_timelock == Deploy("Timelock")
avalanche_34_wombat_facet == Upgradeable("WombatFacet")
avalanche_34_yieldyak_wombat_facet == Upgradeable("YieldYakWombatFacet")
avalanche_35_deposit_rewarder == Upgradeable("DepositRewarderERC20")
avalanche_36_gmx_v2_plus ==
  Embed({"GmxV2PlusFacetAvalanche", "GmxV2CallbacksFacetAvalanche"})
    \o Deploy("GmxV2PlusFacetAvalanche")
avalanche_41_sprime == Embed({"sPrime"}) \o Deploy("SPrime")
--------------------------------------------------------------------------------
upgrade_0_deploy_contract == Deploy("TestGmxV2")
upgrade_1_competition_contracts ==
  DeployEach(<<"PoolWithAccessNFT", "SmartLoansFactoryWithAccessNFT",
               "SmartLoanLimitedCollateral", "BorrowAccessNFT", "DepositAccessNFT">>)
upgrade_2_yak_staking == Deploy("YieldYakRouter")
upgrade_3_yak_staking_smart_loan == Deploy("SmartLoan")

upgrade_4_rates_calculator == RatesCalculator("Wavax") \o RatesCalculator("Usdc")
================================================================================
