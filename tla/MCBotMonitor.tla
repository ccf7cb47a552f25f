---------------------------- MODULE MCBotMonitor ----------------------------
(* Two accounts and some of the bots: what the wallet's bot meets, alone    *)
(* and beside the flash loan bot, what the ltv loop and the monitor list,   *)
(* and what the liquidators' failed transactions are reported from.         *)
EXTENDS FailedTxMonitor

CONSTANTS ann, bob

\* A vault over an LP token and one over GLP; staked positions.
Vaults == {"YY_TJ_AVAX_USDC_LP", "YY_GLP"}
Stakes == {"staked_AVAX", "staked_USDC"}

Scenario(bots, h, i, falling, to, most) ==
    [team |-> bots, held |-> (ann :> h) @@ (bob :> i),
     falling |-> falling, falls |-> to, most |-> most]
MCScenarios ==
    {Scenario({"wallet"}, Vaults, Stakes, Loans, {"edge", "low"}, 2),
     Scenario({"wallet"}, {}, Stakes, {bob}, {"low", "bankrupt"}, 2),
     Scenario({"wallet", "flash"}, {"YY_GLP"}, {}, {ann}, {"low"}, 2),
     Scenario({"flash"}, Vaults \cup Stakes, {}, {ann}, {"low", "backed"}, 2),
     Scenario({"ltv"}, Vaults, {}, {ann}, {"even", "backed"}, 2),
     Scenario({}, {}, {}, Loans, {"healthy", "bankrupt"}, 5),
     Scenario({}, {}, {}, {}, {}, 0)}

\* One or two transactions of the liquidators in a block.
MCBlocks == UNION {[1..n -> BOOLEAN] : n \in {1, 2}}
=============================================================================
