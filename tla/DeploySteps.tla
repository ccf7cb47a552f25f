------------------------------ MODULE DeploySteps ------------------------------
(***************************************************************************)
(* The instructions the migration scripts (src/deploy) are written in, and *)
(* the helpers several scripts share.  A script is a sequence of steps;    *)
(* each step is one call a script awaits: the script may be cut off after  *)
(* any of them.  A transaction takes effect in the step that sends it,     *)
(* also where the script awaits no more than its submission: those of one  *)
(* sender are mined in the order of their nonces, so a late one delays     *)
(* those behind it and overtakes nothing; and a step that fails because an *)
(* earlier one is not mined yet ends the script there, as a cut behind     *)
(* that one does.  A transaction that is accepted and never mined, or      *)
(* reverts when it is, is left out.                                        *)
(*                                                                         *)
(* A contract is named as in the scripts.  `links' are the                 *)
(* addresses a constructor, an initialiser or a setter is given: a         *)
(* function from the name of the field to the name of the record whose     *)
(* address is put there.                                                   *)
(***************************************************************************)
EXTENDS Sequences, SequencesExt, TLC

NoLinks == <<>>

(* The commit is written into the sources, which are compiled again.       *)
Embed(files) == <<[op |-> "embed", files |-> files]>>

(* hardhat-deploy: a new contract unless the record is of the same         *)
(* bytecode and the same constructor arguments.  A verification that is    *)
(* refused throws: it is one of the ways the script is cut off.            *)
DeployWith(name, links) == <<[op |-> "deploy", name |-> name, links |-> links]>>
Deploy(name) == DeployWith(name, NoLinks)

(* ethers.getContract of each name: throws if one has no record.           *)
Read(names) == <<[op |-> "read", names |-> names]>>

(* A factory makes a contract; when that is mined the script keeps the new *)
(* address in a file of its own.                                           *)
ByFactory(name) == "by-factory/" \o name
Make(factory, name) ==
  <<[op |-> "make", factory |-> factory, name |-> name], [op |-> "file", name |-> name]>>

(* A transaction that sets fields which may be set once: an initialiser,   *)
(* addPoolAssets, a diamond cut that adds functions (only while paused).   *)
SetOnce(target, links) == <<[op |-> "set", target |-> target, links |-> links]>>
AddFacets(diamond, links) == <<[op |-> "add", target |-> diamond, links |-> links]>>

(* A transaction that may be repeated: upgradeTo, whitelistLiquidators.    *)
Put(target, links) == <<[op |-> "put", target |-> target, links |-> links]>>

(* A cut that replaces functions: they must be there, of another facet.    *)
ReplaceFacet(diamond, links) == <<[op |-> "replace", target |-> diamond, links |-> links]>>

RemoveField(target, field) == <<[op |-> "remove", target |-> target, field |-> field]>>
Pause(diamond) == <<[op |-> "pause", target |-> diamond]>>
Unpause(diamond) == <<[op |-> "unpause", target |-> diamond]>>

Diamond == "SmartLoanDiamondBeacon"
TUP(name) == name \o "TUP"
--------------------------------------------------------------------------------
(* What most scripts do: stamp a contract, deploy it, have it verified.    *)
Upgradeable(name) == Embed({name}) \o Deploy(name)

(* Scripts that only put new implementations on the chain.                 *)
DeployEach(names) == Embed(ToSet(names)) \o FlattenSeq([i \in DOMAIN names |-> Deploy(names[i])])

(* A proxy whose constructor runs the initialiser of its implementation.   *)
Proxy(name, impl, links) == DeployWith(name, ("impl" :> impl) @@ links)

deployPool(contract) ==
  Deploy(contract \o "Factory")
    \o Make(contract \o "Factory", contract)
    \o Proxy(TUP(contract), ByFactory(contract), NoLinks)

deployLinearIndex(name, pool) ==
  Deploy(name)
    \o Proxy(TUP(name), name, NoLinks)
    \o SetOnce(TUP(name), "owner" :> TUP(pool))

initPool(asset) ==
  SetOnce(asset \o "PoolTUP",
          [rates |-> asset \o "VariableUtilisationRatesCalculator",
           registry |-> "SmartLoansFactoryTUP",
           depositIndex |-> asset \o "DepositIndexTUP",
           borrowIndex |-> asset \o "BorrowIndexTUP"])

RatesCalculator(asset) == Upgradeable(asset \o "VariableUtilisationRatesCalculator")

PoolFiles(asset) == {asset \o "Pool", asset \o "PoolFactory", asset \o "PoolTUP"}
IndexFiles(asset) == {asset \o "BorrowIndex", asset \o "DepositIndex"}

deployIndices(asset) ==
  deployLinearIndex(asset \o "BorrowIndex", asset \o "Pool")
    \o deployLinearIndex(asset \o "DepositIndex", asset \o "Pool")

(* A whole pool, from its factory to its registration, in one script.      *)
NewPool(asset, symbol) ==
  deployPool(asset \o "Pool")
    \o Embed(IndexFiles(asset)) \o deployIndices(asset)
    \o RatesCalculator(asset)
    \o initPool(asset)
    \o SetOnce("TokenManagerTUP", symbol :> asset \o "PoolTUP")
--------------------------------------------------------------------------------
deployFacet(name) == Deploy(name) \o AddFacets(Diamond, name :> name)

deployDiamond ==
  Deploy("DiamondCutFacet")
    \o DeployWith(Diamond, "DiamondCutFacet" :> "DiamondCutFacet")
    \o Deploy("DiamondInit")
    \o Deploy("DiamondLoupeFacet")
    \o AddFacets(Diamond, [DiamondInit |-> "DiamondInit",
                           DiamondLoupeFacet |-> "DiamondLoupeFacet"])
    \o Unpause(Diamond)

(* facets: the facets of a chain, in the order in which they are added.    *)
deployAllFacets(facets) ==
  Pause(Diamond)
    \o FlattenSeq([i \in DOMAIN facets |-> deployFacet(facets[i])])
    \o Unpause(Diamond)

(* SmartLoansFactory, the diamond, the factory's proxy, then every facet.  *)
SmartLoans(providers, facets) ==
  Embed({Diamond, "DeploymentConstants", "DiamondStorageLib",
         "SmartLoansFactory", "SmartLoansFactoryTUP"})
    \o Deploy("SmartLoansFactory")
    \o deployDiamond
    \o Proxy("SmartLoansFactoryTUP", "SmartLoansFactory", "loans" :> Diamond)
    \o Read(providers)
    \o deployAllFacets(facets)
================================================================================
