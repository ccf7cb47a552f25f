------------------------------ MODULE DeployRules ------------------------------
(***************************************************************************)
(* How the scripts of src/deploy are written: rules that make a migration  *)
(* safe to cut off and run again, wherever that happens.  They speak of the *)
(* text of a plan alone; the scripts follow them, and Deployment assumes   *)
(* them of every plan.  A plan has scripts and the contracts it is given.  *)
(***************************************************************************)
EXTENDS DeploySteps, Naturals

(* What a step puts into a contract, and the record it makes.              *)
LinksOf(step) ==
  IF step.op \in {"deploy", "set", "add", "put", "replace"} THEN step.links ELSE NoLinks
Makes(step) ==
  (IF step.op = "deploy" THEN {step.name} ELSE {})
    \union (IF step.op = "file" THEN {ByFactory(step.name)} ELSE {})

StepsOf(plan) == UNION {Range(plan.scripts[i]) : i \in DOMAIN plan.scripts}
GivenIn(plan) == {plan.given[g].name : g \in DOMAIN plan.given}
--------------------------------------------------------------------------------
(* A script that pauses the diamond, or deploys one, unpauses it later.    *)
Stops(step) == (step.op = "pause" /\ step.target = Diamond) \/ Diamond \in Makes(step)
Reopens(step) == step.op = "unpause" /\ step.target = Diamond
ReopensWhatItStops(s) ==
  \A k \in DOMAIN s : Stops(s[k]) => \E j \in DOMAIN s : k < j /\ Reopens(s[j])
--------------------------------------------------------------------------------
(* The fields by which a pool and its indices know one another are set by  *)
(* initialisers only, both indices of a pool by one of them.               *)
Wiring == {"owner", "depositIndex", "borrowIndex"}
Initialises(step) == step.op = "set" /\ "depositIndex" \in DOMAIN step.links
WiresOnce(step) ==
  /\ DOMAIN LinksOf(step) \intersect Wiring # {} => step.op = "set"
  /\ "borrowIndex" \in DOMAIN LinksOf(step) <=> "depositIndex" \in DOMAIN LinksOf(step)
  /\ step.op = "remove" => step.field \notin Wiring

Entrusts(step, index, pool) ==
  /\ step.op = "set" /\ step.target = index
  /\ "owner" \in DOMAIN step.links /\ step.links["owner"] = pool

DeployedBefore(plan, i, k, name) ==
  \E j \in 1..i : \E l \in DOMAIN plan.scripts[j] :
     LET step == plan.scripts[j][l]
     IN  step.op = "deploy" /\ step.name = name /\ (j = i => l < k)

(* Before step k of script i some step makes the pool the owner of its     *)
(* index, and neither is deployed anew after it; in a later script not at  *)
(* all, since it may be run again from its first step.                     *)
EntrustedBefore(plan, i, k, index, pool) ==
  \E j \in 1..i : \E l \in DOMAIN plan.scripts[j] :
     LET s == plan.scripts[j]
         keeps(step) == {index, pool} \intersect Makes(step) = {}
     IN  /\ Entrusts(s[l], index, pool) /\ (j = i => l < k)
         /\ \A m \in DOMAIN s : (l < m /\ (j = i => m < k)) => keeps(s[m])
         /\ \A n \in (j + 1)..i : \A m \in DOMAIN plan.scripts[n] : keeps(plan.scripts[n][m])

(* A pool is initialised after it was deployed, with two indices that have *)
(* it as their owner.                                                      *)
InitialisesOwners(plan) ==
  \A i \in DOMAIN plan.scripts : \A k \in DOMAIN plan.scripts[i] :
     LET step == plan.scripts[i][k]
     IN  Initialises(step) =>
            /\ DeployedBefore(plan, i, k, step.target)
            /\ step.links["depositIndex"] # step.links["borrowIndex"]
            /\ \A field \in {"depositIndex", "borrowIndex"} :
                  EntrustedBefore(plan, i, k, step.links[field], step.target)
--------------------------------------------------------------------------------
(* What is filed is what a factory made in the step before it.             *)
FilesWhatWasMade(s) ==
  \A k \in DOMAIN s : s[k].op = "file" =>
     k > 1 /\ s[k - 1].op = "make" /\ s[k - 1].name = s[k].name

(* What factories make has records of its own.                             *)
RecordsApart(plan) ==
  \A m \in StepsOf(plan) : m.op = "file" =>
     /\ ByFactory(m.name) \notin GivenIn(plan)
     /\ \A d \in StepsOf(plan) : d.op = "deploy" => d.name # ByFactory(m.name)
     /\ \A n \in StepsOf(plan) :
           (n.op = "file" /\ ByFactory(n.name) = ByFactory(m.name)) => n.name = m.name

(* A pool is a proxy of what its factory made, and a script that has one   *)
(* made deploys the proxy after it.                                        *)
PoolsOf(plan) == {step.target : step \in {x \in StepsOf(plan) : Initialises(x)}}
IsProxyOf(step, pool, made) ==
  /\ step.op = "deploy" /\ step.name = pool
  /\ "impl" \in DOMAIN step.links /\ step.links["impl"] = made
PoolsAreProxies(plan) ==
  \A pool \in PoolsOf(plan) :
     /\ \A m \in StepsOf(plan) : m.op = "file" => pool # ByFactory(m.name)
     /\ \A step \in StepsOf(plan) : (step.op = "deploy" /\ step.name = pool) =>
           \E m \in StepsOf(plan) : m.op = "file" /\ IsProxyOf(step, pool, ByFactory(m.name))
ProxiesFollow(plan, s) ==
  \A k \in DOMAIN s : s[k].op = "file" =>
     \A pool \in PoolsOf(plan) :
        (\E step \in StepsOf(plan) : IsProxyOf(step, pool, ByFactory(s[k].name))) =>
           \E j \in DOMAIN s : k < j /\ s[j].op = "deploy" /\ s[j].name = pool
--------------------------------------------------------------------------------
(* The token manager's fields, but for its implementation, are the pools   *)
(* registered for assets: what steps up to script i may have put there.    *)
Manager == "TokenManagerTUP"
Registers(step) ==
  \/ step.op = "deploy" /\ step.name = Manager
  \/ step.op \in {"set", "add", "put", "replace"} /\ step.target = Manager
AssetsIn(fields) == DOMAIN fields \ {"impl"}
MayRegister(plan, i, asset, pool) ==
  \/ \E j \in 1..i : \E k \in DOMAIN plan.scripts[j] :
        LET step == plan.scripts[j][k]
        IN  Registers(step) /\ asset \in AssetsIn(step.links) /\ step.links[asset] = pool
  \/ \E g \in DOMAIN plan.given :
        LET given == plan.given[g]
        IN  /\ given.name = Manager /\ asset \in AssetsIn(given.fields)
            /\ plan.given[given.fields[asset]].name = pool
AssetsOf(plan) ==
  (UNION {AssetsIn(LinksOf(step)) : step \in {x \in StepsOf(plan) : Registers(x)}})
    \union (UNION {AssetsIn(plan.given[g].fields) :
                     g \in {x \in DOMAIN plan.given : plan.given[x].name = Manager}})

(* A script that deploys a registered pool anew registers it afterwards.   *)
RegistersAgain(plan, i) ==
  LET s == plan.scripts[i]
  IN  \A k \in DOMAIN s : s[k].op = "deploy" =>
         \A asset \in AssetsOf(plan) : MayRegister(plan, i, asset, s[k].name) =>
            \E j \in DOMAIN s :
               k < j /\ s[j].op = "set" /\ s[j].target = Manager /\ asset \in DOMAIN s[j].links
RegistersProxies(plan) ==
  \A step \in StepsOf(plan) : Registers(step) =>
     \A asset \in AssetsIn(step.links), m \in StepsOf(plan) :
        m.op = "file" => step.links[asset] # ByFactory(m.name)
--------------------------------------------------------------------------------
IsSequence(s) == Len(s) \in Nat /\ DOMAIN s = 1..Len(s)
WellFormed(plan) ==
  /\ IsSequence(plan.scripts) /\ plan.scripts # <<>>
  /\ \A i \in DOMAIN plan.scripts : IsSequence(plan.scripts[i])
  /\ IsSequence(plan.given)
  /\ \A g, h \in DOMAIN plan.given : plan.given[g].name = plan.given[h].name => g = h
  /\ \A g \in DOMAIN plan.given :
        LET fields == plan.given[g].fields
        IN  /\ DOMAIN fields \intersect Wiring = {}
            /\ \A f \in DOMAIN fields : fields[f] \in DOMAIN plan.given

FollowsTheRules(plan) ==
  /\ WellFormed(plan)
  /\ \A step \in StepsOf(plan) : WiresOnce(step)
  /\ InitialisesOwners(plan)
  /\ RecordsApart(plan) /\ PoolsAreProxies(plan) /\ RegistersProxies(plan)
  /\ \A i \in DOMAIN plan.scripts :
        /\ ReopensWhatItStops(plan.scripts[i])
        /\ FilesWhatWasMade(plan.scripts[i])
        /\ ProxiesFollow(plan, plan.scripts[i])
        /\ RegistersAgain(plan, i)
================================================================================
