--------------------------- MODULE DeploymentProofs ---------------------------
(***************************************************************************)
(* Migrations whose scripts follow the rules of DeployRules come out right, *)
(* however many scripts and pools they have and wherever they are cut off   *)
(* and run again.  The inductive invariant says, of each thing that a       *)
(* script may have left half done, which step still to come mends it:       *)
(*   Handed            what is filed next was made last and nobody has it;  *)
(*   Reopening         a diamond that is stopped is unpaused later in the   *)
(*                     running script;                                      *)
(*   Entrusted         an index belongs to its pool from the step that says *)
(*                     so until one of the two is deployed anew;            *)
(*   WiredPools        and once a pool is initialised for good, since       *)
(*                     initialisers run once;                               *)
(*   Implemented       the record of a factory names what the recorded      *)
(*                     proxy uses, or the proxy is deployed anew later;     *)
(*   Registrations     a registered pool is the recorded one, or is         *)
(*                     registered anew later.                               *)
(* A script that is run again from its first step has all of its mending    *)
(* steps ahead of it again.                                                 *)
(***************************************************************************)
EXTENDS Deployment, TLAPS

-----------------------------------------------------------------------------
(* The inductive invariant *)

Statuses == {"running", "cut", "thrown", "stuck", "done"}
ContractFields == {"name", "version", "args", "fields", "active"}

\* What is about to be filed is the contract made last, and nobody has recorded it.
Handed ==
    (pc \in DOMAIN Script /\ Current.op = "file") =>
       /\ Len(chain) \in DOMAIN chain
       /\ chain[Len(chain)].name = Current.name /\ DOMAIN chain[Len(chain)].fields = {}
       /\ \A n \in DOMAIN records : records[n] # Len(chain)

\* Addresses are those of contracts, and no two records share one.
Shape ==
    /\ plan \in Plans
    /\ script \in DOMAIN plan.scripts /\ pc \in 1..(Len(Script) + 1)
    /\ status \in Statuses /\ (status = "cut" => reached # {})
    /\ \E S : chain \in Seq(S)
    /\ \A a \in DOMAIN chain :
          /\ DOMAIN chain[a] = ContractFields
          /\ \A f \in DOMAIN chain[a].fields : chain[a].fields[f] \in DOMAIN chain
    /\ \A n \in DOMAIN records : records[n] \in DOMAIN chain
    /\ \A n, m \in DOMAIN records : records[n] = records[m] => n = m
    /\ Handed

\* A recorded contract has the name of its record, or its factory's name for it.
MadeRecords == {ByFactory(m.name) : m \in {x \in StepsOf(plan) : x.op = "file"}}
Named ==
    \A n \in DOMAIN records :
       /\ n \notin MadeRecords => chain[records[n]].name = n
       /\ \A m \in StepsOf(plan) :
             (m.op = "file" /\ n = ByFactory(m.name)) => chain[records[n]].name = m.name

Reopening ==
    (Known({Diamond}) /\ ~chain[Address(Diamond)].active) =>
       /\ ~BetweenScripts
       /\ \E j \in DOMAIN Script : pc <= j /\ Reopens(Script[j])

\* Before step k of script i, step l of script j has been done and nothing
\* of these names made since: in a later script by no step of it at all.
Passed(i, k, j, l) == j < i \/ (j = i /\ l < k)
Untouched(scripts, i, k, names, j, l) ==
    /\ \A m \in DOMAIN scripts[j] :
          (l < m /\ (j = i => m < k)) => names \cap Makes(scripts[j][m]) = {}
    /\ \A n \in (j + 1)..i : \A m \in DOMAIN scripts[n] :
          names \cap Makes(scripts[n][m]) = {}

Owns(contracts, pool, index) ==
    /\ "owner" \in DOMAIN contracts[index].fields
    /\ contracts[index].fields["owner"] = pool
Entrusted ==
    \A j \in 1..script : \A l \in DOMAIN plan.scripts[j] :
       LET step == plan.scripts[j][l]
           index == step.target
           pool == step.links["owner"]
       IN  ( /\ step.op = "set" /\ "owner" \in DOMAIN step.links
             /\ Passed(script, pc, j, l)
             /\ Untouched(plan.scripts, script, pc, {index, pool}, j, l) ) =>
              /\ index \in DOMAIN records /\ pool \in DOMAIN records
              /\ Owns(chain, records[pool], records[index])

WiredPools ==
    \A p \in PoolProxies :
       LET fields == chain[p].fields
       IN  /\ "borrowIndex" \in DOMAIN fields
           /\ fields["depositIndex"] # fields["borrowIndex"]
           /\ Owns(chain, p, fields["depositIndex"]) /\ Owns(chain, p, fields["borrowIndex"])

Proxies ==
    /\ \A j \in 1..script : \A l \in DOMAIN plan.scripts[j] :
          LET step == plan.scripts[j][l]
          IN  (step.op = "deploy" /\ step.name \in PoolsOf(plan) /\ Passed(script, pc, j, l)) =>
                 /\ step.name \in DOMAIN records
                 /\ "impl" \in DOMAIN chain[Address(step.name)].args
    /\ \A p \in PoolProxies :
          /\ chain[p].name \in PoolsOf(plan) \cap DOMAIN records
          /\ "impl" \in DOMAIN chain[p].args

Implements(impl, n) ==
    \E m, step \in StepsOf(plan) :
       /\ m.op = "file" /\ chain[impl].name = m.name
       /\ IsProxyOf(step, n, ByFactory(m.name))
       /\ ByFactory(m.name) \in DOMAIN records
       /\ \/ Address(ByFactory(m.name)) = impl
          \/ /\ ~BetweenScripts
             /\ \E j \in DOMAIN Script : pc <= j /\ Script[j].op = "deploy" /\ Script[j].name = n
Implemented ==
    \A n \in PoolsOf(plan) \cap DOMAIN records :
       LET args == chain[Address(n)].args
       IN  "impl" \in DOMAIN args =>
              args["impl"] \in DOMAIN chain /\ Implements(args["impl"], n)

Recorded(asset, pool) ==
    LET n == chain[pool].name
    IN  /\ n \in DOMAIN records /\ MayRegister(plan, script, asset, n)
        /\ \/ Address(n) = pool
           \/ /\ ~BetweenScripts
              /\ \E j \in DOMAIN Script :
                    /\ pc <= j /\ Script[j].op = "set" /\ Script[j].target = Manager
                    /\ asset \in DOMAIN Script[j].links
Registrations ==
    Known({Manager}) =>
       LET pools == chain[Address(Manager)].fields
       IN  \A asset \in AssetsIn(pools) : Recorded(asset, pools[asset])

IInv ==
    /\ Shape /\ Named /\ Reopening /\ Entrusted /\ WiredPools
    /\ Proxies /\ Implemented /\ Registrations

-----------------------------------------------------------------------------
(* Plans and their steps *)

LEMMA PlanIs ==
    ASSUME Shape
    PROVE  /\ FollowsTheRules(plan)
           /\ Len(plan.scripts) \in Nat /\ DOMAIN plan.scripts = 1..Len(plan.scripts)
           /\ script \in 1..Len(plan.scripts)
           /\ Len(Script) \in Nat /\ DOMAIN Script = 1..Len(Script)
BY PlansAssumption DEF Shape, FollowsTheRules, WellFormed, IsSequence, Script

LEMMA StepIn ==
    ASSUME NEW i \in DOMAIN plan.scripts, NEW k \in DOMAIN plan.scripts[i]
    PROVE  plan.scripts[i][k] \in StepsOf(plan)
BY DEF StepsOf, Range

LEMMA CurrentIn ==
    ASSUME Shape, More PROVE Current \in StepsOf(plan) /\ WiresOnce(Current)
<1>1. Current \in StepsOf(plan)
  BY StepIn DEF Shape, More, Current, Script
<1>. QED BY <1>1, PlanIs DEF FollowsTheRules

-----------------------------------------------------------------------------
(* What a step does to the contracts and the records *)

LEMMA Appended ==
    ASSUME NEW S, NEW s \in Seq(S), NEW x
    PROVE  /\ Append(s, x) \in Seq(S \cup {x})
           /\ DOMAIN Append(s, x) = DOMAIN s \cup {Len(s) + 1}
           /\ Len(s) + 1 \notin DOMAIN s
           /\ Append(s, x)[Len(s) + 1] = x
           /\ \A j \in DOMAIN s : Append(s, x)[j] = s[j]
<1>1. s \in Seq(S \cup {x}) /\ Len(s) \in Nat /\ DOMAIN s = 1 .. Len(s)
  OBVIOUS
<1>2. Append(s, x) \in Seq(S \cup {x}) /\ Len(Append(s, x)) = Len(s) + 1
  BY <1>1
<1>. QED BY <1>1, <1>2

LEMMA Replaced ==
    ASSUME NEW S, NEW s \in Seq(S), NEW a \in DOMAIN s, NEW x
    PROVE  /\ [s EXCEPT ![a] = x] \in Seq(S \cup {x})
           /\ DOMAIN [s EXCEPT ![a] = x] = DOMAIN s
           /\ [s EXCEPT ![a] = x][a] = x
           /\ \A j \in DOMAIN s : j # a => [s EXCEPT ![a] = x][j] = s[j]
<1>1. s \in Seq(S \cup {x}) /\ Len(s) \in Nat /\ DOMAIN s = 1 .. Len(s)
  OBVIOUS
<1>. QED BY <1>1

LEMMA Merged ==
    ASSUME NEW f, NEW g
    PROVE  /\ DOMAIN Merge(f, g) = DOMAIN f \cup DOMAIN g
           /\ \A x \in DOMAIN f : Merge(f, g)[x] = f[x]
           /\ \A x \in DOMAIN g : x \notin DOMAIN f => Merge(f, g)[x] = g[x]
BY DEF Merge

\* A new contract at a new address; an address recorded; or the target changed.
NewAddress == Len(chain) + 1
Appears(c) ==
    /\ \E S : chain' \in Seq(S)
    /\ Len(chain') = NewAddress
    /\ DOMAIN chain' = DOMAIN chain \cup {NewAddress} /\ NewAddress \notin DOMAIN chain
    /\ chain'[NewAddress] = c /\ \A a \in DOMAIN chain : chain'[a] = chain[a]
Records(r, address) ==
    /\ DOMAIN records' = DOMAIN records \cup {r} /\ records'[r] = address
    /\ \A n \in DOMAIN records : n # r => records'[n] = records[n]
Creates(r, c) == Appears(c) /\ Records(r, NewAddress)
Target == Address(Current.target)
Alters(c) ==
    /\ Current.target \in DOMAIN records /\ Target \in DOMAIN chain
    /\ \E S : chain' \in Seq(S)
    /\ DOMAIN chain' = DOMAIN chain /\ records' = records
    /\ chain'[Target] = c /\ \A a \in DOMAIN chain : a # Target => chain'[a] = chain[a]

LEMMA RecordIs ==
    ASSUME NEW r, NEW address, Record(r, address) PROVE Records(r, address)
BY DEF Record, Records, Merge

LEMMA AppearsIs ==
    ASSUME Shape, NEW c, chain' = Append(chain, c) PROVE Appears(c)
<1>1. PICK S : chain \in Seq(S)
  BY DEF Shape
<1>2. /\ Append(chain, c) \in Seq(S \cup {c})
      /\ DOMAIN Append(chain, c) = DOMAIN chain \cup {Len(chain) + 1}
      /\ Len(chain) + 1 \notin DOMAIN chain
      /\ Append(chain, c)[Len(chain) + 1] = c
      /\ \A a \in DOMAIN chain : Append(chain, c)[a] = chain[a]
  BY <1>1, Appended
<1>3. Len(chain') = NewAddress
  BY <1>1 DEF NewAddress
<1>. QED BY <1>2, <1>3 DEF Appears, NewAddress

LEMMA CreateIs ==
    ASSUME Shape, NEW r, NEW c, Create(r, c) PROVE Creates(r, c)
BY AppearsIs, RecordIs DEF Create, Creates, NewAddress

LEMMA ChangeIs ==
    ASSUME Shape, NEW c, Change(Current.target, c), Known({Current.target}) PROVE Alters(c)
<1>1. PICK S : chain \in Seq(S)
  BY DEF Shape
<1>2. /\ chain' = [chain EXCEPT ![Target] = c] /\ records' = records
      /\ Current.target \in DOMAIN records /\ Target \in DOMAIN chain
  BY DEF Change, Target, Known, Shape, Address
<1>3. /\ [chain EXCEPT ![Target] = c] \in Seq(S \cup {c})
      /\ DOMAIN [chain EXCEPT ![Target] = c] = DOMAIN chain
      /\ [chain EXCEPT ![Target] = c][Target] = c
      /\ \A a \in DOMAIN chain : a # Target => [chain EXCEPT ![Target] = c][a] = chain[a]
  BY <1>1, <1>2, Replaced
<1>4. /\ \E T : chain' \in Seq(T)
      /\ DOMAIN chain' = DOMAIN chain /\ records' = records
      /\ chain'[Target] = c /\ \A a \in DOMAIN chain : a # Target => chain'[a] = chain[a]
  BY <1>2, <1>3
<1>. QED BY <1>2, <1>4 DEF Alters

-----------------------------------------------------------------------------
(* The kinds of steps *)

Writing == {"set", "add", "put", "replace"}
Keeps ==
    /\ Current.op \in {"embed", "read", "deploy"} /\ chain' = chain /\ records' = records
    /\ Current.op = "deploy" => Unchanged(Current)
Deploys ==
    /\ Current.op = "deploy" /\ Known(Given(Current.links))
    /\ Creates(Current.name, NewContract(Current.name, Resolved(Current.links)))
Builds ==
    /\ Current.op = "make" /\ Appears(NewContract(Current.name, <<>>)) /\ records' = records
Files ==
    /\ Current.op = "file" /\ chain' = chain
    /\ Records(ByFactory(Current.name), Len(chain))
Writes ==
    /\ Current.op \in Writing /\ Known(Given(Current.links)) /\ ~Taken(Current)
    /\ Alters([chain[Target] EXCEPT !.fields = Merge(Resolved(Current.links), @)])
Removes ==
    /\ Current.op = "remove"
    /\ Alters([chain[Target] EXCEPT
                 !.fields = [k \in DOMAIN @ \ {Current.field} |-> @[k]]])
Switches ==
    /\ Current.op \in {"pause", "unpause"}
    /\ Alters([chain[Target] EXCEPT !.active = (Current.op = "unpause")])

LEMMA StepIs ==
    ASSUME Shape, Step
    PROVE  /\ More /\ Succeeds(Current) /\ Running /\ pc \in DOMAIN Script /\ pc' = pc + 1
           /\ UNCHANGED <<plan, script, status, fresh, reached, cuts, commit>>
           /\ Keeps \/ Deploys \/ Builds \/ Files \/ Writes \/ Removes \/ Switches
<1>1. /\ More /\ Succeeds(Current) /\ Running /\ pc \in DOMAIN Script /\ pc' = pc + 1
      /\ UNCHANGED <<plan, script, status, fresh, reached, cuts, commit>>
      /\ Effect(Current)
  BY DEF Step, More
<1>. SUFFICES Keeps \/ Deploys \/ Builds \/ Files \/ Writes \/ Removes \/ Switches
  BY <1>1
<1>2. CASE Current.op \in {"embed", "read"}
  BY <1>1, <1>2 DEF Effect, world, Keeps
<1>3. CASE Current.op = "deploy"
  <2>1. Known(Given(Current.links))
    BY <1>1, <1>3 DEF Succeeds
  <2>2. CASE Unchanged(Current)
    BY <1>1, <1>3, <2>2 DEF Effect, world, Keeps
  <2>3. CASE ~Unchanged(Current)
    <3>1. Create(Current.name, NewContract(Current.name, Resolved(Current.links)))
      BY <1>1, <1>3, <2>3 DEF Effect
    <3>. QED BY <1>3, <2>1, <3>1, CreateIs DEF Deploys
  <2>. QED BY <2>2, <2>3
<1>4. CASE Current.op \in {"make", "file"}
  <2>1. CASE Current.op = "make"
    BY <1>1, <2>1, AppearsIs DEF Effect, Builds
  <2>2. CASE Current.op = "file"
    BY <1>1, <2>2, RecordIs DEF Effect, Files
  <2>. QED BY <1>4, <2>1, <2>2
<1>5. CASE Current.op \in Writing
  <2>1. Known(Given(Current.links)) /\ ~Taken(Current) /\ Known({Current.target})
    BY <1>1, <1>5 DEF Succeeds, Writing
  <2>2. Change(Current.target,
               [chain[Target] EXCEPT !.fields = Merge(Resolved(Current.links), @)])
    BY <1>1, <1>5 DEF Effect, Writing, SetFields, Target
  <2>. QED BY <1>5, <2>1, <2>2, ChangeIs DEF Writes
<1>6. CASE Current.op = "remove"
  <2>1. Known({Current.target})
    BY <1>1, <1>6 DEF Succeeds
  <2>2. Change(Current.target,
               [chain[Target] EXCEPT !.fields = [k \in DOMAIN @ \ {Current.field} |-> @[k]]])
    BY <1>1, <1>6 DEF Effect, Target
  <2>. QED BY <1>6, <2>1, <2>2, ChangeIs DEF Removes
<1>7. CASE Current.op \in {"pause", "unpause"}
  <2>1. Known({Current.target})
    BY <1>1, <1>7 DEF Succeeds
  <2>2. Change(Current.target, [chain[Target] EXCEPT !.active = (Current.op = "unpause")])
    <3>1. CASE Current.op = "pause"
      <4>1. (Current.op = "unpause") = FALSE
        BY <3>1
      <4>2. Change(Current.target, [chain[Target] EXCEPT !.active = FALSE])
        BY <1>1, <3>1 DEF Effect, Target
      <4>. QED BY <4>1, <4>2
    <3>2. CASE Current.op = "unpause"
      <4>1. (Current.op = "unpause") = TRUE
        BY <3>2
      <4>2. Change(Current.target, [chain[Target] EXCEPT !.active = TRUE])
        BY <1>1, <3>2 DEF Effect, Target
      <4>. QED BY <4>1, <4>2
    <3>. QED BY <1>7, <3>1, <3>2
  <2>. QED BY <1>7, <2>1, <2>2, ChangeIs DEF Switches
<1>. QED BY <1>1, <1>2, <1>3, <1>4, <1>5, <1>6, <1>7 DEF Effect, Writing

\* What every step respects, and what it may add to the wiring.
Grows ==
    /\ DOMAIN chain \subseteq DOMAIN chain'
    /\ \A a \in DOMAIN chain : chain'[a].name = chain[a].name /\ chain'[a].args = chain[a].args
    /\ DOMAIN records \subseteq DOMAIN records'
    /\ DOMAIN records' \subseteq DOMAIN records \cup Makes(Current)
    /\ \A n \in DOMAIN records : n \notin Makes(Current) => records'[n] = records[n]
    /\ \A a \in DOMAIN chain : \A f \in Wiring \cap DOMAIN chain[a].fields :
          f \in DOMAIN chain'[a].fields /\ chain'[a].fields[f] = chain[a].fields[f]
    /\ \A a \in DOMAIN chain' : \A f \in Wiring \cap DOMAIN chain'[a].fields :
          \/ a \in DOMAIN chain /\ f \in DOMAIN chain[a].fields
          \/ Current.op = "set" /\ f \in DOMAIN Current.links /\ a = Target
    /\ Current.op = "set" =>
          /\ records' = records /\ Known(Given(Current.links)) /\ Known({Current.target})
          /\ \A f \in DOMAIN Current.links :
                /\ f \in DOMAIN chain'[Target].fields
                /\ chain'[Target].fields[f] = Address(Current.links[f])

\* The parts of Shape about contracts and records.
ContractsOK ==
    /\ \E S : chain \in Seq(S)
    /\ \A a \in DOMAIN chain :
          /\ DOMAIN chain[a] = ContractFields
          /\ \A f \in DOMAIN chain[a].fields : chain[a].fields[f] \in DOMAIN chain
    /\ \A n \in DOMAIN records : records[n] \in DOMAIN chain
    /\ \A n, m \in DOMAIN records : records[n] = records[m] => n = m

LEMMA NewIs ==
    ASSUME NEW n, NEW links
    PROVE  LET c == NewContract(n, Resolved(links))
           IN  /\ DOMAIN c = ContractFields /\ c.name = n /\ c.args = c.fields
               /\ c.active = FALSE /\ DOMAIN c.fields = DOMAIN links
               /\ \A f \in DOMAIN links : c.fields[f] = records[links[f]]
BY DEF NewContract, Resolved, Address, ContractFields

LEMMA MadeIs ==
    ASSUME NEW n
    PROVE  LET c == NewContract(n, <<>>)
           IN  /\ DOMAIN c = ContractFields /\ c.name = n
               /\ c.active = FALSE /\ DOMAIN c.fields = {} /\ DOMAIN c.args = {}
BY DEF NewContract, ContractFields

LEMMA FieldsIs ==
    ASSUME NEW old, DOMAIN old = ContractFields, NEW F
    PROVE  LET c == [old EXCEPT !.fields = F]
           IN  /\ DOMAIN c = ContractFields /\ c.name = old.name /\ c.args = old.args
               /\ c.active = old.active /\ c.fields = F
BY DEF ContractFields

LEMMA ActiveIs ==
    ASSUME NEW old, DOMAIN old = ContractFields, NEW b
    PROVE  LET c == [old EXCEPT !.active = b]
           IN  /\ DOMAIN c = ContractFields /\ c.name = old.name /\ c.args = old.args
               /\ c.active = b /\ c.fields = old.fields
BY DEF ContractFields

LEMMA LinksKnown ==
    ASSUME Shape, NEW links, Known(Given(links))
    PROVE  \A f \in DOMAIN links : links[f] \in DOMAIN records /\ records[links[f]] \in DOMAIN chain
BY DEF Known, Given, Shape

LEMMA ShapeParts == Shape => ContractsOK
BY DEF Shape, ContractsOK

LEMMA MakesIs ==
    /\ Current.op = "deploy" => Makes(Current) = {Current.name}
    /\ Current.op = "file" => Makes(Current) = {ByFactory(Current.name)}
    /\ Current.op \notin {"deploy", "file"} => Makes(Current) = {}
BY DEF Makes

LEMMA KeepsGrows == ASSUME Shape, Keeps PROVE Grows /\ ContractsOK'
<1>1. chain' = chain /\ records' = records /\ Current.op # "set"
  BY DEF Keeps
<1>2. ContractsOK'
  BY <1>1, ShapeParts DEF ContractsOK
<1>. QED BY <1>1, <1>2 DEF Grows

LEMMA AppearsGrows ==
    ASSUME Shape, NEW c, Appears(c), records' = records, Current.op # "set",
           DOMAIN c = ContractFields, DOMAIN c.fields \cap Wiring = {},
           \A f \in DOMAIN c.fields : c.fields[f] \in DOMAIN chain
    PROVE  Grows /\ ContractsOK'
<1>1. ContractsOK
  BY ShapeParts
<1>2. ContractsOK'
  BY <1>1 DEF Appears, ContractsOK
<1>3. Grows
  BY DEF Grows, Appears
<1>. QED BY <1>2, <1>3

LEMMA RecordsGrows ==
    ASSUME Shape, NEW r, chain' = chain, r \in Makes(Current), Current.op # "set",
           Records(r, Len(chain)), Len(chain) \in DOMAIN chain,
           \A n \in DOMAIN records : records[n] # Len(chain)
    PROVE  Grows /\ ContractsOK'
<1>1. ContractsOK
  BY ShapeParts
<1>2. ContractsOK'
  BY <1>1 DEF Records, ContractsOK
<1>3. Grows
  BY DEF Grows, Records
<1>. QED BY <1>2, <1>3

LEMMA CreatesGrows ==
    ASSUME Shape, NEW r, NEW c, Creates(r, c), r \in Makes(Current), Current.op # "set",
           DOMAIN c = ContractFields, DOMAIN c.fields \cap Wiring = {},
           \A f \in DOMAIN c.fields : c.fields[f] \in DOMAIN chain
    PROVE  Grows /\ ContractsOK'
<1>1. ContractsOK
  BY ShapeParts
<1>2. \A a \in DOMAIN chain' :
         /\ DOMAIN chain'[a] = ContractFields
         /\ \A f \in DOMAIN chain'[a].fields : chain'[a].fields[f] \in DOMAIN chain'
  BY <1>1 DEF Creates, Appears, Records, ContractsOK
<1>3. \A n \in DOMAIN records' : records'[n] \in DOMAIN chain'
  BY <1>1 DEF Creates, Appears, Records, ContractsOK
<1>4. \A n, m \in DOMAIN records' : records'[n] = records'[m] => n = m
  BY <1>1 DEF Creates, Appears, Records, ContractsOK
<1>5. ContractsOK'
  BY <1>2, <1>3, <1>4 DEF ContractsOK, Creates, Appears, Records
<1>6. Grows
  BY DEF Grows, Creates, Appears, Records
<1>. QED BY <1>5, <1>6

LEMMA AltersGrows ==
    ASSUME Shape, NEW c, Alters(c), Current.op \notin {"deploy", "file"},
           DOMAIN c = ContractFields, c.name = chain[Target].name, c.args = chain[Target].args,
           \A f \in DOMAIN c.fields : c.fields[f] \in DOMAIN chain,
           \A f \in Wiring \cap DOMAIN chain[Target].fields :
              f \in DOMAIN c.fields /\ c.fields[f] = chain[Target].fields[f],
           \A f \in Wiring \cap DOMAIN c.fields :
              \/ f \in DOMAIN chain[Target].fields
              \/ Current.op = "set" /\ f \in DOMAIN Current.links,
           Current.op = "set" =>
              /\ Known(Given(Current.links))
              /\ \A f \in DOMAIN Current.links :
                    f \in DOMAIN c.fields /\ c.fields[f] = Address(Current.links[f])
    PROVE  Grows /\ ContractsOK'
<1>1. ContractsOK
  BY ShapeParts
<1>2. ContractsOK'
  BY <1>1 DEF Alters, ContractsOK
<1>3. Makes(Current) = {}
  BY MakesIs
<1>4. Known({Current.target})
  BY DEF Alters, Known
<1>5. Grows
  BY <1>3, <1>4 DEF Grows, Alters
<1>. QED BY <1>2, <1>5

LEMMA StepGrows == ASSUME Shape, Step PROVE Grows /\ ContractsOK'
<1>1. /\ More /\ Succeeds(Current)
      /\ Keeps \/ Deploys \/ Builds \/ Files \/ Writes \/ Removes \/ Switches
  BY StepIs
<1>2. WiresOnce(Current)
  BY <1>1, CurrentIn
<1>3. CASE Keeps
  BY <1>3, KeepsGrows
<1>4. CASE Deploys
  <2> DEFINE c == NewContract(Current.name, Resolved(Current.links))
  <2>1. /\ DOMAIN c = ContractFields /\ DOMAIN c.fields = DOMAIN Current.links
        /\ \A f \in DOMAIN Current.links : c.fields[f] = records[Current.links[f]]
    BY DEF NewContract, Resolved, Address, ContractFields
  <2>2. \A f \in DOMAIN Current.links : records[Current.links[f]] \in DOMAIN chain
    BY <1>4, LinksKnown DEF Deploys
  <2>3. DOMAIN Current.links \cap Wiring = {}
    BY <1>2, <1>4 DEF WiresOnce, Deploys, LinksOf
  <2>4. Creates(Current.name, c) /\ Current.name \in Makes(Current) /\ Current.op # "set"
    BY <1>4, MakesIs DEF Deploys
  <2> HIDE DEF c
  <2>. QED BY <2>1, <2>2, <2>3, <2>4, CreatesGrows
<1>5. CASE Builds
  <2> DEFINE c == NewContract(Current.name, <<>>)
  <2>1. DOMAIN c = ContractFields /\ DOMAIN c.fields = {}
    BY MadeIs
  <2>2. Appears(c) /\ records' = records /\ Current.op # "set"
    BY <1>5 DEF Builds
  <2> HIDE DEF c
  <2>. QED BY <2>1, <2>2, AppearsGrows
<1>6. CASE Files
  <2>1. /\ Current.op = "file" /\ chain' = chain /\ Records(ByFactory(Current.name), Len(chain))
        /\ ByFactory(Current.name) \in Makes(Current)
    BY <1>6, MakesIs DEF Files
  <2>2. Len(chain) \in DOMAIN chain /\ \A n \in DOMAIN records : records[n] # Len(chain)
    BY <1>1, <2>1 DEF Shape, Handed, More
  <2>. QED BY <2>1, <2>2, RecordsGrows
<1>7. CASE Writes
  <2> DEFINE F == Merge(Resolved(Current.links), chain[Target].fields)
             c == [chain[Target] EXCEPT !.fields = F]
  <2>1. Alters(c) /\ Current.op \in Writing /\ Known(Given(Current.links)) /\ ~Taken(Current)
    BY <1>7 DEF Writes
  <2>2. Target \in DOMAIN chain /\ DOMAIN chain[Target] = ContractFields
        /\ \A f \in DOMAIN chain[Target].fields : chain[Target].fields[f] \in DOMAIN chain
    BY <2>1 DEF Alters, Shape
  <2>3. /\ DOMAIN F = DOMAIN Current.links \cup DOMAIN chain[Target].fields
        /\ \A f \in DOMAIN Current.links : F[f] = Address(Current.links[f])
        /\ \A f \in DOMAIN chain[Target].fields :
              f \notin DOMAIN Current.links => F[f] = chain[Target].fields[f]
    BY DEF Merge, Resolved
  <2> HIDE DEF F
  <2>4. /\ DOMAIN c = ContractFields /\ c.name = chain[Target].name
        /\ c.args = chain[Target].args /\ c.fields = F
    BY <2>2, FieldsIs
  <2> HIDE DEF c
  <2>5. \A f \in DOMAIN Current.links : Address(Current.links[f]) \in DOMAIN chain
    BY <2>1, LinksKnown DEF Address
  <2>6. DOMAIN Current.links \cap Wiring # {} => Current.op = "set"
    BY <1>2, <2>1 DEF WiresOnce, LinksOf, Writing
  <2>7. Current.op = "set" => DOMAIN Current.links \cap DOMAIN chain[Target].fields = {}
    BY <2>1 DEF Taken, Target
  <2>8. \A f \in DOMAIN c.fields : c.fields[f] \in DOMAIN chain
    BY <2>2, <2>3, <2>4, <2>5
  <2>9. \A f \in Wiring \cap DOMAIN chain[Target].fields :
           f \in DOMAIN c.fields /\ c.fields[f] = chain[Target].fields[f]
    BY <2>3, <2>4, <2>6, <2>7
  <2>10. \A f \in Wiring \cap DOMAIN c.fields :
            \/ f \in DOMAIN chain[Target].fields
            \/ Current.op = "set" /\ f \in DOMAIN Current.links
    BY <2>3, <2>4, <2>6
  <2>11. Current.op \notin {"deploy", "file"}
    BY <2>1 DEF Writing
  <2>. QED BY <2>1, <2>3, <2>4, <2>8, <2>9, <2>10, <2>11, AltersGrows
<1>8. CASE Removes
  <2> DEFINE F == [k \in DOMAIN chain[Target].fields \ {Current.field} |-> chain[Target].fields[k]]
             c == [chain[Target] EXCEPT !.fields = F]
  <2>1. Alters(c) /\ Current.op = "remove" /\ Current.field \notin Wiring
    BY <1>2, <1>8 DEF Removes, WiresOnce
  <2>2. Target \in DOMAIN chain /\ DOMAIN chain[Target] = ContractFields
        /\ \A f \in DOMAIN chain[Target].fields : chain[Target].fields[f] \in DOMAIN chain
    BY <2>1 DEF Alters, Shape
  <2>3. /\ DOMAIN F = DOMAIN chain[Target].fields \ {Current.field}
        /\ \A f \in DOMAIN F : F[f] = chain[Target].fields[f]
    OBVIOUS
  <2> HIDE DEF F
  <2>4. /\ DOMAIN c = ContractFields /\ c.name = chain[Target].name
        /\ c.args = chain[Target].args /\ c.fields = F
    BY <2>2, FieldsIs
  <2> HIDE DEF c
  <2>5. Current.op \notin {"deploy", "file", "set"}
    BY <2>1
  <2>. QED BY <2>1, <2>2, <2>3, <2>4, <2>5, AltersGrows
<1>9. CASE Switches
  <2> DEFINE c == [chain[Target] EXCEPT !.active = (Current.op = "unpause")]
  <2>1. Alters(c) /\ Current.op \notin {"deploy", "file", "set"}
    BY <1>9 DEF Switches
  <2>2. Target \in DOMAIN chain /\ DOMAIN chain[Target] = ContractFields
        /\ \A f \in DOMAIN chain[Target].fields : chain[Target].fields[f] \in DOMAIN chain
    BY <2>1 DEF Alters, Shape
  <2>4. /\ DOMAIN c = ContractFields /\ c.name = chain[Target].name
        /\ c.args = chain[Target].args /\ c.fields = chain[Target].fields
    BY <2>2, ActiveIs
  <2> HIDE DEF c
  <2>. QED BY <2>1, <2>2, <2>4, AltersGrows
<1>. QED BY <1>1, <1>3, <1>4, <1>5, <1>6, <1>7, <1>8, <1>9

\* What is filed next was made just now.
LEMMA HandedAfter == ASSUME Shape, Step PROVE Handed'
<1>1. /\ pc \in DOMAIN Script /\ pc' = pc + 1 /\ plan' = plan /\ script' = script
      /\ Keeps \/ Deploys \/ Builds \/ Files \/ Writes \/ Removes \/ Switches
  BY StepIs
<1>2. Script' = Script /\ Current' = Script[pc + 1] /\ Current = Script[pc]
  BY <1>1 DEF Script, Current
<1>3. SUFFICES ASSUME pc + 1 \in DOMAIN Script, Script[pc + 1].op = "file"
               PROVE  /\ Len(chain') \in DOMAIN chain'
                      /\ chain'[Len(chain')].name = Script[pc + 1].name
                      /\ DOMAIN chain'[Len(chain')].fields = {}
                      /\ \A n \in DOMAIN records' : records'[n] # Len(chain')
  BY <1>1, <1>2 DEF Handed
<1>4. pc \in Nat /\ FilesWhatWasMade(Script)
  BY <1>1, PlanIs DEF Shape, Script, FollowsTheRules
<1>5. Current.op = "make" /\ Current.name = Script[pc + 1].name
  <2>1. (pc + 1) - 1 = pc
    BY <1>4
  <2>. QED BY <1>2, <1>3, <1>4, <2>1 DEF FilesWhatWasMade
<1>6. Builds
  BY <1>1, <1>5 DEF Keeps, Deploys, Files, Writes, Writing, Removes, Switches
<1> DEFINE c == NewContract(Current.name, <<>>)
<1>7. Appears(c) /\ records' = records
  BY <1>6 DEF Builds
<1>8. c.name = Current.name /\ DOMAIN c.fields = {}
  BY MadeIs
<1> HIDE DEF c
<1>9. \A n \in DOMAIN records : records[n] \in DOMAIN chain
  BY DEF Shape
<1>. QED BY <1>5, <1>7, <1>8, <1>9 DEF Appears

\* The first step of a script files nothing.
LEMMA FirstStep ==
    ASSUME NEW p, FollowsTheRules(p), NEW i \in DOMAIN p.scripts, 1 \in DOMAIN p.scripts[i]
    PROVE  p.scripts[i][1].op # "file"
<1>1. FilesWhatWasMade(p.scripts[i])
  BY DEF FollowsTheRules
<1>2. p.scripts[i][1].op = "file" => 1 > 1
  BY <1>1 DEF FilesWhatWasMade
<1>. QED BY <1>2

LEMMA HandedFirst ==
    ASSUME FollowsTheRules(plan'), script' \in DOMAIN plan'.scripts, pc' = 1
    PROVE  Handed'
BY FirstStep DEF Handed, Current, Script

-----------------------------------------------------------------------------
(* The other actions *)

\* Nothing moves; the script starts over; it has come to its end.
Halts == UNCHANGED <<plan, script, pc, world>> /\ (~BetweenScripts => ~BetweenScripts')
Repeats == UNCHANGED <<plan, script, world>> /\ pc' = 1 /\ ~BetweenScripts'
Ends ==
    /\ pc = Len(Script) + 1 /\ UNCHANGED <<plan, world>>
    /\ \/ UNCHANGED <<script, pc>>
       \/ script < Len(plan.scripts) /\ script' = script + 1 /\ pc' = 1

LEMMA ShapeFrom ==
    ASSUME Shape, ContractsOK', plan' = plan, script' \in DOMAIN plan.scripts,
           pc' \in 1..(Len(plan.scripts[script']) + 1), status' \in Statuses,
           status' = "cut" => reached' # {}, Handed'
    PROVE  Shape'
BY DEF Shape, ContractsOK, Script

LEMMA SameContracts == ASSUME Shape, UNCHANGED world PROVE ContractsOK'
BY ShapeParts DEF ContractsOK, world

LEMMA HandedKept ==
    ASSUME Shape, UNCHANGED <<plan, script, pc, world>> PROVE Handed'
BY DEF Shape, Handed, Current, Script, world

LEMMA FinishIs ==
    ASSUME Shape, Finish
    PROVE  Ends /\ Shape'
<1>0. plan' = plan /\ UNCHANGED world /\ status = "running" /\ pc \notin DOMAIN Script
  BY DEF Finish, NextScript, More, Running
<1>1. pc = Len(Script) + 1
  BY <1>0, PlanIs DEF Shape
<1>2. ContractsOK'
  BY <1>0, SameContracts
<1>3. CASE script < Len(plan.scripts)
  <2>1. script' = script + 1 /\ pc' = 1 /\ status' = status
    BY <1>3 DEF Finish, NextScript
  <2>2. script' \in DOMAIN plan.scripts
    BY <1>3, <2>1, PlanIs
  <2>3. Len(plan.scripts[script']) \in Nat
    BY <2>2, PlanIs DEF FollowsTheRules, WellFormed, IsSequence
  <2>4. Handed'
    BY <1>0, <2>1, <2>2, PlanIs, HandedFirst
  <2>5. Shape'
    BY <1>0, <1>2, <2>1, <2>2, <2>3, <2>4, ShapeFrom DEF Statuses
  <2>. QED BY <1>0, <1>1, <1>3, <2>1, <2>5 DEF Ends
<1>4. CASE ~(script < Len(plan.scripts))
  <2>1. script' = script /\ pc' = pc /\ status' = "done"
    BY <1>4 DEF Finish, NextScript
  <2>2. Shape'
    BY <1>0, <1>2, <2>1, ShapeFrom, HandedKept DEF Statuses, Shape, Script
  <2>. QED BY <1>0, <1>1, <2>1, <2>2 DEF Ends
<1>. QED BY <1>3, <1>4

LEMMA StopIs ==
    ASSUME Shape, NEW why \in {"cut", "thrown", "stuck"}, Abort(why), why = "cut" => pc > 1
    PROVE  Halts /\ Shape'
<1>1. /\ UNCHANGED <<plan, script, pc, world>> /\ status' = why
      /\ reached' = reached \union 1..(pc - 1)
  BY DEF Abort
<1>2. why = "cut" => 1 \in 1..(pc - 1)
  BY PlanIs DEF Shape
<1>3. ContractsOK'
  BY <1>1, SameContracts
<1>4. Shape'
  BY <1>1, <1>2, <1>3, ShapeFrom, HandedKept DEF Shape, Statuses, Script
<1>5. ~BetweenScripts'
  BY <1>1 DEF BetweenScripts, Running
<1>. QED BY <1>1, <1>4, <1>5 DEF Halts

LEMMA RestartIs ==
    ASSUME Shape, RunAgain \/ RunOnNewCommit
    PROVE  Repeats /\ Shape'
<1>1. /\ UNCHANGED <<plan, script, reached, world>> /\ pc' = 1 /\ status' = "running"
      /\ reached' # {} \/ fresh' = TRUE
  BY DEF RunAgain, RunOnNewCommit, Restart, Shape
<1>2. ContractsOK'
  BY <1>1, SameContracts
<1>3. Handed'
  BY <1>1, PlanIs, HandedFirst
<1>4. Shape'
  BY <1>1, <1>2, <1>3, ShapeFrom, PlanIs DEF Shape, Statuses, Script
<1>5. ~BetweenScripts'
  BY <1>1 DEF BetweenScripts, Running
<1>. QED BY <1>1, <1>4, <1>5 DEF Repeats

LEMMA StepShape == ASSUME Shape, Step PROVE Shape' /\ ~BetweenScripts'
<1>1. /\ Running /\ pc \in DOMAIN Script /\ pc' = pc + 1
      /\ UNCHANGED <<plan, script, status, fresh, reached, cuts, commit>>
  BY StepIs
<1>2. ContractsOK'
  BY StepGrows
<1>3. Shape'
  BY <1>1, <1>2, ShapeFrom, HandedAfter, PlanIs DEF Shape, Script, Statuses, Running
<1>4. ~BetweenScripts'
  BY <1>1, PlanIs DEF BetweenScripts, Running
<1>. QED BY <1>3, <1>4

LEMMA Moves ==
    ASSUME Shape, [Next]_vars
    PROVE  Shape' /\ (Step \/ Halts \/ Repeats \/ Ends)
<1>1. CASE Step
  BY <1>1, StepShape
<1>2. CASE Finish
  BY <1>2, FinishIs
<1>3. CASE CutOff
  BY <1>3, StopIs DEF CutOff
<1>4. CASE Throw
  BY <1>4, StopIs DEF Throw
<1>5. CASE RunAgain \/ RunOnNewCommit
  BY <1>5, RestartIs
<1>6. CASE UNCHANGED vars
  <2>1. UNCHANGED <<plan, script, pc, status, fresh, reached, world>>
    BY <1>6 DEF vars
  <2>2. ContractsOK'
    BY <2>1, SameContracts
  <2>3. Shape'
    BY <2>1, <2>2, ShapeFrom, HandedKept DEF Shape, Script
  <2>4. BetweenScripts' = BetweenScripts
    BY <2>1 DEF BetweenScripts, Running
  <2>. QED BY <2>1, <2>3, <2>4 DEF Halts
<1>. QED BY <1>1, <1>2, <1>3, <1>4, <1>5, <1>6 DEF Next

\* A step of the running script that is still to be done, and mends something.
Ahead(j) == ~BetweenScripts /\ j \in DOMAIN Script /\ pc <= j

LEMMA AheadAfterStep ==
    ASSUME Shape, Step
    PROVE  /\ Script' = Script
           /\ \A j \in DOMAIN Script : pc < j => Ahead(j)'
           /\ \A j : Ahead(j) => j = pc \/ Ahead(j)'
<1>1. /\ pc \in DOMAIN Script /\ pc' = pc + 1 /\ plan' = plan /\ script' = script
  BY StepIs
<1>2. Script' = Script
  BY <1>1 DEF Script
<1>3. \A j \in DOMAIN Script : pc < j => Ahead(j)'
  BY <1>1, <1>2, StepShape, PlanIs DEF Ahead
<1>. QED BY <1>1, <1>2, <1>3, PlanIs DEF Ahead

LEMMA AheadOtherwise ==
    ASSUME Shape
    PROVE  /\ Halts \/ Repeats => Script' = Script /\ \A j : Ahead(j) => Ahead(j)'
           /\ Ends => \A j : ~Ahead(j)
<1>1. ASSUME Halts \/ Repeats PROVE Script' = Script /\ \A j : Ahead(j) => Ahead(j)'
  <2>1. Script' = Script
    BY <1>1 DEF Halts, Repeats, Script
  <2>2. \A j : Ahead(j) => ~BetweenScripts'
    BY <1>1 DEF Halts, Repeats, Ahead
  <2>3. \A j : Ahead(j) => pc' <= j
    BY <1>1, PlanIs DEF Halts, Repeats, Ahead
  <2>. QED BY <2>1, <2>2, <2>3 DEF Ahead
<1>2. ASSUME Ends PROVE \A j : ~Ahead(j)
  BY <1>2, PlanIs DEF Ends, Ahead
<1>. QED BY <1>1, <1>2

-----------------------------------------------------------------------------
(* What the rules say of the current step *)

\* What factories make has records of its own: a deployment makes no such record.
LEMMA CurrentMakes ==
    ASSUME Shape, More
    PROVE  /\ \A n \in Makes(Current) \ MadeRecords : Current.op = "deploy" /\ n = Current.name
           /\ \A n \in Makes(Current) \cap MadeRecords :
                 /\ Current.op = "file" /\ n = ByFactory(Current.name)
                 /\ \A m \in StepsOf(plan) :
                       (m.op = "file" /\ n = ByFactory(m.name)) => m.name = Current.name
<1>1. Current \in StepsOf(plan) /\ RecordsApart(plan)
  BY CurrentIn, PlanIs DEF FollowsTheRules
<1>2. Current.op = "deploy" => Current.name \notin MadeRecords
  BY <1>1 DEF RecordsApart, MadeRecords
<1>3. Current.op = "file" => ByFactory(Current.name) \in MadeRecords
  BY <1>1 DEF MadeRecords
<1>4. Current.op = "file" => \A m \in StepsOf(plan) :
         (m.op = "file" /\ ByFactory(Current.name) = ByFactory(m.name)) => m.name = Current.name
  BY <1>1 DEF RecordsApart
<1>. QED BY <1>2, <1>3, <1>4, MakesIs

LEMMA PoolsNotMade ==
    ASSUME Shape PROVE PoolsOf(plan) \cap MadeRecords = {}
BY PlanIs DEF FollowsTheRules, PoolsAreProxies, MadeRecords

-----------------------------------------------------------------------------
(* The names of recorded contracts *)

LEMMA NamedKept == ASSUME Shape, Named, [Next]_vars PROVE Named'
<1>1. CASE Step
  <2>1. Shape' /\ Grows /\ plan' = plan /\ More
    BY <1>1, StepIs, StepShape, StepGrows
  <2>2. StepsOf(plan)' = StepsOf(plan) /\ MadeRecords' = MadeRecords
    BY <2>1 DEF StepsOf, MadeRecords
  <2>3. ASSUME NEW n \in DOMAIN records'
        PROVE  /\ n \notin MadeRecords => chain'[records'[n]].name = n
               /\ \A m \in StepsOf(plan) :
                     (m.op = "file" /\ n = ByFactory(m.name)) => chain'[records'[n]].name = m.name
    <3>1. CASE n \in DOMAIN records /\ records'[n] = records[n]
      <4>1. records[n] \in DOMAIN chain
        BY <3>1 DEF Shape
      <4>2. chain'[records'[n]].name = chain[records[n]].name
        BY <2>1, <3>1, <4>1 DEF Grows
      <4>. QED BY <3>1, <4>2 DEF Named
    <3>2. CASE Deploys /\ n = Current.name
      <4> DEFINE c == NewContract(Current.name, Resolved(Current.links))
      <4>3. c.name = n
        BY <3>2 DEF NewContract
      <4>4. Creates(n, c)
        BY <3>2 DEF Deploys
      <4> HIDE DEF c
      <4>1. chain'[records'[n]].name = n
        BY <4>3, <4>4 DEF Creates, Appears, Records
      <4>2. n \notin MadeRecords
        BY <2>1, <3>2, MakesIs, CurrentMakes DEF Deploys
      <4>. QED BY <4>1, <4>2 DEF MadeRecords
    <3>3. CASE Files /\ n = ByFactory(Current.name)
      <4>1. chain'[records'[n]].name = Current.name
        BY <2>1, <3>3 DEF Files, Records, Shape, Handed, More
      <4>2. Current \in StepsOf(plan) /\ n \in Makes(Current)
        BY <2>1, <3>3, MakesIs, CurrentIn DEF Files
      <4>3. n \in MadeRecords
        BY <3>3, <4>2 DEF Files, MadeRecords
      <4>. QED BY <2>1, <4>1, <4>2, <4>3, CurrentMakes
    <3>4. \/ n \in DOMAIN records /\ records'[n] = records[n]
          \/ Deploys /\ n = Current.name
          \/ Files /\ n = ByFactory(Current.name)
      BY <1>1, <2>3, StepIs
         DEF Keeps, Deploys, Builds, Files, Creates, Records, Writes, Removes, Switches, Alters
    <3>. QED BY <3>1, <3>2, <3>3, <3>4
  <2>. QED BY <2>2, <2>3 DEF Named
<1>2. CASE Halts \/ Repeats \/ Ends
  <2>1. plan' = plan /\ chain' = chain /\ records' = records
    BY <1>2 DEF Halts, Repeats, Ends, world
  <2>. QED BY <2>1 DEF Named, MadeRecords, StepsOf
<1>. QED BY <1>1, <1>2, Moves

-----------------------------------------------------------------------------
(* A stopped diamond is unpaused later in the script *)

LEMMA ActiveAfter ==
    ASSUME Shape, Step, NEW a \in DOMAIN chain
    PROVE  /\ ~(Switches /\ a = Target) => chain'[a].active = chain[a].active
           /\ (Switches /\ a = Target) => chain'[a].active = (Current.op = "unpause")
<1>1. CASE Keeps
  BY <1>1 DEF Keeps, Switches
<1>2. CASE Deploys \/ Builds \/ Files
  BY <1>2 DEF Deploys, Builds, Files, Creates, Appears, Switches
<1>3. CASE Writes
  <2> DEFINE c == [chain[Target] EXCEPT !.fields = Merge(Resolved(Current.links), @)]
  <2>1. Alters(c) /\ ~Switches
    BY <1>3 DEF Writes, Writing, Switches
  <2>2. Target \in DOMAIN chain /\ DOMAIN chain[Target] = ContractFields
    BY <2>1 DEF Alters, Shape
  <2>3. c.active = chain[Target].active
    BY <2>2, FieldsIs
  <2> HIDE DEF c
  <2>. QED BY <2>1, <2>3 DEF Alters
<1>4. CASE Removes
  <2> DEFINE c == [chain[Target] EXCEPT !.fields = [k \in DOMAIN @ \ {Current.field} |-> @[k]]]
  <2>1. Alters(c) /\ ~Switches
    BY <1>4 DEF Removes, Switches
  <2>2. Target \in DOMAIN chain /\ DOMAIN chain[Target] = ContractFields
    BY <2>1 DEF Alters, Shape
  <2>3. c.active = chain[Target].active
    BY <2>2, FieldsIs
  <2> HIDE DEF c
  <2>. QED BY <2>1, <2>3 DEF Alters
<1>5. CASE Switches
  <2> DEFINE c == [chain[Target] EXCEPT !.active = (Current.op = "unpause")]
  <2>1. Alters(c)
    BY <1>5 DEF Switches
  <2>2. Target \in DOMAIN chain /\ DOMAIN chain[Target] = ContractFields
    BY <2>1 DEF Alters, Shape
  <2>3. c.active = (Current.op = "unpause")
    BY <2>2, ActiveIs
  <2> HIDE DEF c
  <2>. QED BY <1>5, <2>1, <2>3 DEF Alters
<1>. QED BY <1>1, <1>2, <1>3, <1>4, <1>5, StepIs

LEMMA ReopeningIs ==
    Reopening <=> ((Known({Diamond}) /\ ~chain[Address(Diamond)].active) =>
                     \E j : Ahead(j) /\ Reopens(Script[j]))
BY DEF Reopening, Ahead

LEMMA ReopeningKept == ASSUME Shape, Reopening, [Next]_vars PROVE Reopening'
<1>1. CASE Step
  <2>1. /\ Shape' /\ Grows /\ plan' = plan /\ script' = script /\ More
        /\ pc \in DOMAIN Script /\ Current = Script[pc] /\ script \in DOMAIN plan.scripts
    BY <1>1, StepIs, StepShape, StepGrows DEF Current, Shape
  <2>2. SUFFICES ASSUME Diamond \in DOMAIN records', ~chain'[records'[Diamond]].active
                 PROVE  \E j : Ahead(j)' /\ Reopens(Script'[j])
    BY DEF Reopening, Ahead, Known, Address, Reopens
  <2>3. CASE Stops(Current)
    <3>1. \E j \in DOMAIN Script : pc < j /\ Reopens(Script[j])
      BY <2>1, <2>3, PlanIs DEF FollowsTheRules, ReopensWhatItStops, Script
    <3>. QED BY <1>1, <3>1, AheadAfterStep
  <2>4. CASE ~Stops(Current)
    <3>1. Diamond \in DOMAIN records /\ records'[Diamond] = records[Diamond]
      BY <2>1, <2>2, <2>4 DEF Grows, Stops
    <3>2. records[Diamond] \in DOMAIN chain
      BY <3>1 DEF Shape
    <3>3. ~chain[records[Diamond]].active /\ ~Reopens(Current)
      <4>1. CASE chain'[records[Diamond]].active = chain[records[Diamond]].active /\ ~Switches
        BY <1>1, <2>2, <3>1, <4>1, StepIs
           DEF Keeps, Deploys, Builds, Files, Writes, Writing, Removes, Reopens
      <4>2. CASE Switches
        <5>1. Current.target # Diamond
          BY <2>2, <2>4, <3>1, <3>2, <4>2, ActiveAfter, <1>1 DEF Stops, Switches, Target, Address
        <5>2. records[Diamond] # Target
          BY <3>1, <4>2, <5>1 DEF Shape, Switches, Alters, Target, Address
        <5>. QED BY <1>1, <2>2, <3>1, <3>2, <5>1, <5>2, ActiveAfter DEF Reopens
      <4>. QED BY <1>1, <3>2, <4>1, <4>2, ActiveAfter
    <3>4. \E j : Ahead(j) /\ Reopens(Script[j])
      BY <3>1, <3>3, ReopeningIs DEF Known, Address
    <3>. QED BY <1>1, <2>1, <3>3, <3>4, AheadAfterStep
  <2>. QED BY <2>3, <2>4
<1>2. CASE Halts \/ Repeats
  <2>1. chain' = chain /\ records' = records
    BY <1>2 DEF Halts, Repeats, world
  <2>. QED BY <1>2, <2>1, AheadOtherwise DEF Reopening, Ahead, Known, Address, Reopens
<1>3. CASE Ends
  <2>1. chain' = chain /\ records' = records
    BY <1>3 DEF Ends, world
  <2>2. ~(Known({Diamond}) /\ ~chain[Address(Diamond)].active)
    BY <1>3, ReopeningIs, AheadOtherwise
  <2>. QED BY <2>1, <2>2 DEF Reopening, Known, Address
<1>. QED BY <1>1, <1>2, <1>3, Moves

-----------------------------------------------------------------------------
(* An index belongs to the pool it was entrusted to *)

\* The next step, another attempt and the next script see no more than was seen.
LEMMA UntouchedByStep ==
    ASSUME NEW s, NEW i \in Nat, IsSequence(s[i]), NEW k \in DOMAIN s[i],
           NEW j \in 1..i, IsSequence(s[j]), NEW l \in DOMAIN s[j], ~(j = i /\ l = k),
           NEW names, Passed(i, k + 1, j, l), Untouched(s, i, k + 1, names, j, l)
    PROVE  /\ Passed(i, k, j, l) /\ Untouched(s, i, k, names, j, l)
           /\ names \cap Makes(s[i][k]) = {}
<1>1. k \in Nat /\ l \in Nat
  BY DEF IsSequence
<1>2. Passed(i, k, j, l)
  BY <1>1 DEF Passed
<1>3. \A m \in DOMAIN s[j] : m \in Nat
  BY DEF IsSequence
<1>4. Untouched(s, i, k, names, j, l)
  BY <1>1, <1>3 DEF Untouched
<1>5. names \cap Makes(s[i][k]) = {}
  <2>1. CASE j = i
    BY <1>1, <1>2, <2>1 DEF Untouched, Passed
  <2>2. CASE j # i
    <3>1. i \in (j + 1)..i
      BY <2>2
    <3>. QED BY <3>1 DEF Untouched
  <2>. QED BY <2>1, <2>2
<1>. QED BY <1>2, <1>4, <1>5

LEMMA UntouchedAgain ==
    ASSUME NEW s, NEW i \in Nat, NEW k, NEW j \in 1..i, IsSequence(s[j]),
           NEW l \in DOMAIN s[j],
           NEW names, Passed(i, 1, j, l), Untouched(s, i, 1, names, j, l)
    PROVE  Passed(i, k, j, l) /\ Untouched(s, i, k, names, j, l)
<1>1. j < i
  BY DEF Passed, IsSequence
<1>. QED BY <1>1 DEF Passed, Untouched

LEMMA UntouchedNext ==
    ASSUME NEW s, NEW i \in Nat, NEW k, NEW j \in 1..(i + 1), IsSequence(s[j]),
           NEW l \in DOMAIN s[j], k = Len(s[i]) + 1,
           NEW names, Passed(i + 1, 1, j, l), Untouched(s, i + 1, 1, names, j, l)
    PROVE  j \in 1..i /\ Passed(i, k, j, l) /\ Untouched(s, i, k, names, j, l)
<1>1. j \in 1..i
  BY DEF Passed, IsSequence
<1>2. Passed(i, k, j, l)
  BY <1>1 DEF Passed, IsSequence
<1>3. \A m \in DOMAIN s[j] : l < m => names \cap Makes(s[j][m]) = {}
  BY <1>1 DEF Untouched
<1>4. \A n \in (j + 1)..i : n \in (j + 1)..(i + 1)
  OBVIOUS
<1>5. \A n \in (j + 1)..i : \A m \in DOMAIN s[n] : names \cap Makes(s[n][m]) = {}
  BY <1>4 DEF Untouched
<1>. QED BY <1>1, <1>2, <1>3, <1>5 DEF Untouched

LEMMA OwnersKept ==
    ASSUME Shape, Step, NEW index \in DOMAIN chain, NEW pool, Owns(chain, pool, index)
    PROVE  Owns(chain', pool, index)
BY StepGrows DEF Owns, Grows, Wiring

LEMMA EntrustedKept == ASSUME Shape, Entrusted, [Next]_vars PROVE Entrusted'
<1>0. /\ script \in Nat /\ \A i \in 1..script : i \in DOMAIN plan.scripts
      /\ \A i \in DOMAIN plan.scripts : IsSequence(plan.scripts[i])
  BY PlanIs DEF FollowsTheRules, WellFormed
<1>1. CASE Step
  <2>1. /\ Grows /\ plan' = plan /\ script' = script /\ More /\ pc' = pc + 1
        /\ pc \in DOMAIN Script /\ Current = Script[pc] /\ script \in DOMAIN plan.scripts
    BY <1>1, StepIs, StepGrows DEF Current, Shape
  <2>2. SUFFICES ASSUME NEW j \in 1..script, NEW l \in DOMAIN plan.scripts[j], NEW s,
                        NEW index, NEW pool, s = plan.scripts[j][l], index = s.target,
                        pool = s.links["owner"],
                        s.op = "set", "owner" \in DOMAIN s.links,
                        Passed(script, pc + 1, j, l),
                        Untouched(plan.scripts, script, pc + 1, {index, pool}, j, l)
                 PROVE  /\ index \in DOMAIN records' /\ pool \in DOMAIN records'
                        /\ Owns(chain', records'[pool], records'[index])
    BY <2>1 DEF Entrusted
  <2>3. CASE j = script /\ l = pc
    <3>1. s = Current
      BY <2>1, <2>2, <2>3 DEF Script
    <3>2. Known(Given(s.links)) /\ Known({s.target}) /\ records' = records
      BY <2>1, <2>2, <3>1 DEF Grows
    <3>3. pool \in DOMAIN records /\ index \in DOMAIN records
      BY <2>2, <3>2 DEF Known, Given
    <3>4. /\ "owner" \in DOMAIN chain'[Target].fields
          /\ chain'[Target].fields["owner"] = Address(s.links["owner"])
      BY <2>1, <2>2, <3>1 DEF Grows
    <3>. QED BY <2>2, <3>1, <3>2, <3>3, <3>4 DEF Owns, Address, Target
  <2>4. CASE ~(j = script /\ l = pc)
    <3>1. IsSequence(plan.scripts[script]) /\ IsSequence(plan.scripts[j])
      BY <1>0, <2>1
    <3>2. /\ Passed(script, pc, j, l)
          /\ Untouched(plan.scripts, script, pc, {index, pool}, j, l)
          /\ {index, pool} \cap Makes(Current) = {}
      BY <1>0, <2>1, <2>2, <2>4, <3>1, UntouchedByStep DEF Script
    <3>3. /\ index \in DOMAIN records /\ pool \in DOMAIN records
          /\ Owns(chain, records[pool], records[index])
      BY <2>2, <3>2 DEF Entrusted
    <3>4. /\ index \in DOMAIN records' /\ pool \in DOMAIN records'
          /\ records'[index] = records[index] /\ records'[pool] = records[pool]
          /\ records[index] \in DOMAIN chain
      BY <2>1, <3>2, <3>3 DEF Grows, Shape
    <3>. QED BY <1>1, <3>3, <3>4, OwnersKept
  <2>. QED BY <2>3, <2>4
<1>2. CASE Halts \/ Repeats \/ Ends
  <2>1. plan' = plan /\ chain' = chain /\ records' = records
    BY <1>2 DEF Halts, Repeats, Ends, world
  <2>2. SUFFICES ASSUME NEW j \in 1..script', NEW l \in DOMAIN plan.scripts[j], NEW names,
                        Passed(script', pc', j, l),
                        Untouched(plan.scripts, script', pc', names, j, l)
                 PROVE  /\ j \in 1..script /\ Passed(script, pc, j, l)
                        /\ Untouched(plan.scripts, script, pc, names, j, l)
    BY <2>1 DEF Entrusted
  <2>3. CASE script' = script /\ pc' = pc
    BY <2>2, <2>3
  <2>4. CASE script' = script /\ pc' = 1
    BY <1>0, <2>2, <2>4, UntouchedAgain
  <2>5. CASE script < Len(plan.scripts) /\ script' = script + 1 /\ pc' = 1 /\ pc = Len(Script) + 1
    <3>1. j \in DOMAIN plan.scripts
      BY <1>0, <2>2, <2>5, PlanIs
    <3>. QED BY <1>0, <2>2, <2>5, <3>1, UntouchedNext DEF Script
  <2>. QED BY <1>2, <2>3, <2>4, <2>5 DEF Halts, Repeats, Ends
<1>. QED BY <1>1, <1>2, Moves

-----------------------------------------------------------------------------
(* Initialised pools *)

\* The step that initialises a pool finds both indices entrusted to it.
LEMMA InitialisedWith ==
    ASSUME Shape, Entrusted, More, Initialises(Current),
           NEW field \in {"depositIndex", "borrowIndex"}
    PROVE  /\ field \in DOMAIN Current.links
           /\ Current.links[field] \in DOMAIN records
           /\ Owns(chain, Target, records[Current.links[field]])
<1>0. /\ script \in DOMAIN plan.scripts /\ pc \in DOMAIN plan.scripts[script]
      /\ Current = plan.scripts[script][pc]
  BY DEF More, Shape, Current, Script
<1> DEFINE index == Current.links[field]
           pool == Current.target
           names == {index, pool}
<1>1. EntrustedBefore(plan, script, pc, index, pool)
  BY <1>0, PlanIs DEF FollowsTheRules, InitialisesOwners
<1>2. field \in DOMAIN Current.links
  BY CurrentIn DEF WiresOnce, Initialises, LinksOf
<1> HIDE DEF index, pool
<1>3. PICK j \in 1..script : \E l \in DOMAIN plan.scripts[j] :
         /\ Entrusts(plan.scripts[j][l], index, pool) /\ (j = script => l < pc)
         /\ Untouched(plan.scripts, script, pc, names, j, l)
  BY <1>1 DEF EntrustedBefore, Untouched
<1>4. PICK l \in DOMAIN plan.scripts[j] :
         /\ Entrusts(plan.scripts[j][l], index, pool) /\ (j = script => l < pc)
         /\ Untouched(plan.scripts, script, pc, names, j, l)
  BY <1>3
<1>5. Passed(script, pc, j, l)
  BY <1>4, PlanIs DEF Passed
<1>6. /\ plan.scripts[j][l].op = "set" /\ "owner" \in DOMAIN plan.scripts[j][l].links
      /\ plan.scripts[j][l].target = index /\ plan.scripts[j][l].links["owner"] = pool
  BY <1>4 DEF Entrusts
<1>7. index \in DOMAIN records /\ Owns(chain, records[pool], records[index])
  BY <1>4, <1>5, <1>6 DEF Entrusted
<1>. QED BY <1>2, <1>7 DEF Target, Address, index, pool

LEMMA WiredKept == ASSUME Shape, Entrusted, WiredPools, [Next]_vars PROVE WiredPools'
<1>1. CASE Step
  <2>1. Grows /\ More
    BY <1>1, StepIs, StepGrows
  <2>2. SUFFICES ASSUME NEW p \in DOMAIN chain', NEW F, F = chain'[p].fields,
                        "depositIndex" \in DOMAIN F
                 PROVE  /\ "borrowIndex" \in DOMAIN F
                        /\ F["depositIndex"] # F["borrowIndex"]
                        /\ Owns(chain', p, F["depositIndex"]) /\ Owns(chain', p, F["borrowIndex"])
    BY DEF WiredPools, PoolProxies
  <2>3. CASE p \in DOMAIN chain /\ "depositIndex" \in DOMAIN chain[p].fields
    <3> DEFINE G == chain[p].fields
    <3>1. /\ "borrowIndex" \in DOMAIN G /\ G["depositIndex"] # G["borrowIndex"]
          /\ Owns(chain, p, G["depositIndex"]) /\ Owns(chain, p, G["borrowIndex"])
          /\ G["depositIndex"] \in DOMAIN chain /\ G["borrowIndex"] \in DOMAIN chain
      BY <2>3 DEF WiredPools, PoolProxies, Shape
    <3>2. /\ "borrowIndex" \in DOMAIN F /\ F["borrowIndex"] = G["borrowIndex"]
          /\ F["depositIndex"] = G["depositIndex"]
      BY <2>1, <2>2, <2>3, <3>1 DEF Grows, Wiring
    <3> HIDE DEF G
    <3>3. Owns(chain', p, G["depositIndex"]) /\ Owns(chain', p, G["borrowIndex"])
      BY <1>1, <3>1, OwnersKept
    <3>. QED BY <3>1, <3>2, <3>3
  <2>4. CASE Initialises(Current) /\ p = Target
    <3>0. Current.op = "set"
      BY <2>4 DEF Initialises
    <3> DEFINE d == Current.links["depositIndex"]
               b == Current.links["borrowIndex"]
    <3>1. /\ d \in DOMAIN records /\ b \in DOMAIN records
          /\ "depositIndex" \in DOMAIN Current.links /\ "borrowIndex" \in DOMAIN Current.links
          /\ Owns(chain, Target, records[d]) /\ Owns(chain, Target, records[b])
      BY <2>1, <2>4, InitialisedWith
    <3>2. d # b
      BY <2>1, <2>4, PlanIs DEF FollowsTheRules, InitialisesOwners, More, Current, Script, Shape
    <3>3. records[d] # records[b] /\ records[d] \in DOMAIN chain /\ records[b] \in DOMAIN chain
      BY <3>1, <3>2 DEF Shape
    <3>4. /\ "borrowIndex" \in DOMAIN F /\ F["borrowIndex"] = records[b]
          /\ F["depositIndex"] = records[d]
      BY <2>1, <2>2, <2>4, <3>0, <3>1 DEF Grows, Address
    <3>5. Owns(chain', Target, records[d]) /\ Owns(chain', Target, records[b])
      BY <1>1, <3>1, <3>3, OwnersKept
    <3>. QED BY <2>4, <3>3, <3>4, <3>5
  <2>5. \/ p \in DOMAIN chain /\ "depositIndex" \in DOMAIN chain[p].fields
        \/ Initialises(Current) /\ p = Target
    BY <2>1, <2>2 DEF Grows, Wiring, Initialises
  <2>. QED BY <2>3, <2>4, <2>5
<1>2. CASE Halts \/ Repeats \/ Ends
  <2>1. chain' = chain
    BY <1>2 DEF Halts, Repeats, Ends, world
  <2>. QED BY <2>1 DEF WiredPools, PoolProxies
<1>. QED BY <1>1, <1>2, Moves

-----------------------------------------------------------------------------
(* Proxies and what they were given *)

\* After a step that deploys a pool the recorded one is of what the factory made.
LEMMA ProxyDeployed ==
    ASSUME Shape, Named, Step, Current.op = "deploy", NEW n \in PoolsOf(plan), n = Current.name
    PROVE  /\ n \in DOMAIN records' /\ "impl" \in DOMAIN chain'[records'[n]].args
           /\ \E m \in StepsOf(plan) :
                 /\ m.op = "file" /\ IsProxyOf(Current, n, ByFactory(m.name))
                 /\ ByFactory(m.name) \in DOMAIN records'
                 /\ chain'[records'[n]].args["impl"] = records'[ByFactory(m.name)]
<1>1. /\ Grows /\ More /\ Current \in StepsOf(plan) /\ Known(Given(Current.links))
      /\ Keeps \/ Deploys
  BY StepIs, StepGrows, CurrentIn
     DEF Succeeds, Builds, Files, Writes, Writing, Removes, Switches
<1>2. PICK m \in StepsOf(plan) : m.op = "file" /\ IsProxyOf(Current, n, ByFactory(m.name))
  BY <1>1, PlanIs DEF FollowsTheRules, PoolsAreProxies
<1> DEFINE made == ByFactory(m.name)
           A == chain'[records'[n]].args
<1>3. "impl" \in DOMAIN Current.links /\ Current.links["impl"] = made
  BY <1>2 DEF IsProxyOf
<1>4. made \in DOMAIN records
  BY <1>1, <1>3 DEF Known, Given
<1>5. made # n
  BY <1>2, PlanIs DEF FollowsTheRules, PoolsAreProxies
<1> HIDE DEF made
<1>6. made \in DOMAIN records' /\ records'[made] = records[made]
  BY <1>1, <1>4, <1>5, MakesIs DEF Grows
<1>7. n \in DOMAIN records' /\ "impl" \in DOMAIN A /\ A["impl"] = records[made]
  <2>1. CASE Keeps
    <3>1. n \in DOMAIN records /\ chain[records[n]].args = Resolved(Current.links)
      BY <2>1 DEF Keeps, Unchanged, Address
    <3>2. records' = records /\ chain' = chain
      BY <2>1 DEF Keeps
    <3>. QED BY <1>3, <3>1, <3>2 DEF Resolved, Address
  <2>2. CASE Deploys
    <3> DEFINE c == NewContract(Current.name, Resolved(Current.links))
    <3>1. "impl" \in DOMAIN c.args /\ c.args["impl"] = records[made]
      BY <1>3 DEF NewContract, Resolved, Address
    <3>2. Creates(n, c)
      BY <2>2 DEF Deploys
    <3> HIDE DEF c
    <3>. QED BY <3>1, <3>2 DEF Creates, Appears, Records
  <2>. QED BY <1>1, <2>1, <2>2
<1>. QED BY <1>2, <1>6, <1>7 DEF made

\* A record of a pool is left alone, or its proxy is being deployed.
LEMMA PoolRecords ==
    ASSUME Shape, Step, NEW n \in PoolsOf(plan), n \in DOMAIN records'
    PROVE  \/ Current.op = "deploy" /\ n = Current.name
           \/ /\ n \in DOMAIN records /\ records'[n] = records[n] /\ n \notin Makes(Current)
              /\ chain'[records'[n]].args = chain[records[n]].args
<1>1. Grows /\ More
  BY StepIs, StepGrows
<1>2. CASE n \in Makes(Current)
  BY <1>1, <1>2, CurrentMakes, PoolsNotMade
<1>3. CASE n \notin Makes(Current)
  <2>1. n \in DOMAIN records /\ records'[n] = records[n] /\ records[n] \in DOMAIN chain
    BY <1>1, <1>3 DEF Grows, Shape
  <2>. QED BY <1>1, <1>3, <2>1 DEF Grows
<1>. QED BY <1>2, <1>3

LEMMA PoolsOfSame == plan' = plan => PoolsOf(plan)' = PoolsOf(plan) /\ StepsOf(plan)' = StepsOf(plan)
OBVIOUS

LEMMA ProxiesKept == ASSUME Shape, Named, Proxies, [Next]_vars PROVE Proxies'
<1>0. /\ script \in Nat /\ \A i \in 1..script : i \in DOMAIN plan.scripts
      /\ \A i \in DOMAIN plan.scripts : IsSequence(plan.scripts[i])
  BY PlanIs DEF FollowsTheRules, WellFormed
<1>1. CASE Step
  <2>1. /\ Grows /\ plan' = plan /\ script' = script /\ More /\ pc' = pc + 1
        /\ pc \in DOMAIN plan.scripts[script] /\ Current = plan.scripts[script][pc]
        /\ script \in DOMAIN plan.scripts /\ Current \in StepsOf(plan)
    BY <1>1, StepIs, StepGrows, CurrentIn DEF Current, Shape, Script
  <2>2. ASSUME NEW n \in PoolsOf(plan), n \in DOMAIN records,
               "impl" \in DOMAIN chain[records[n]].args
        PROVE  n \in DOMAIN records' /\ "impl" \in DOMAIN chain'[records'[n]].args
    <3>1. n \in DOMAIN records'
      BY <2>1, <2>2 DEF Grows
    <3>2. CASE Current.op = "deploy" /\ n = Current.name
      BY <1>1, <3>2, ProxyDeployed
    <3>3. CASE ~(Current.op = "deploy" /\ n = Current.name)
      BY <1>1, <2>2, <3>1, <3>3, PoolRecords
    <3>. QED BY <3>2, <3>3
  <2>3. ASSUME NEW n \in PoolsOf(plan), Current.op = "deploy", n = Current.name
        PROVE  n \in DOMAIN records' /\ "impl" \in DOMAIN chain'[records'[n]].args
    BY <1>1, <2>3, ProxyDeployed
  <2>4. ASSUME NEW j \in 1..script, NEW l \in DOMAIN plan.scripts[j], NEW s,
               s = plan.scripts[j][l], s.op = "deploy", s.name \in PoolsOf(plan),
               Passed(script, pc + 1, j, l)
        PROVE  s.name \in DOMAIN records' /\ "impl" \in DOMAIN chain'[records'[s.name]].args
    <3>1. CASE j = script /\ l = pc
      BY <2>1, <2>3, <2>4, <3>1
    <3>2. CASE ~(j = script /\ l = pc)
      <4>1. l \in Nat /\ pc \in Nat
        BY <1>0, <2>1, <2>4 DEF IsSequence
      <4>2. Passed(script, pc, j, l)
        BY <1>0, <2>4, <3>2, <4>1 DEF Passed
      <4>3. s.name \in DOMAIN records /\ "impl" \in DOMAIN chain[records[s.name]].args
        BY <2>4, <4>2 DEF Proxies, Address
      <4>. QED BY <2>2, <2>4, <4>3
    <3>. QED BY <3>1, <3>2
  <2>5. ASSUME NEW p \in DOMAIN chain', "depositIndex" \in DOMAIN chain'[p].fields
        PROVE  /\ chain'[p].name \in PoolsOf(plan) \cap DOMAIN records'
               /\ "impl" \in DOMAIN chain'[p].args
    <3>1. CASE p \in DOMAIN chain /\ "depositIndex" \in DOMAIN chain[p].fields
      <4>1. chain[p].name \in PoolsOf(plan) \cap DOMAIN records /\ "impl" \in DOMAIN chain[p].args
        BY <3>1 DEF Proxies, PoolProxies
      <4>. QED BY <2>1, <3>1, <4>1 DEF Grows
    <3>2. CASE Initialises(Current) /\ p = Target
      <4>1. Current.target \in PoolsOf(plan)
        BY <2>1, <3>2 DEF PoolsOf
      <4>2. DeployedBefore(plan, script, pc, Current.target)
        BY <2>1, <3>2, PlanIs DEF FollowsTheRules, InitialisesOwners
      <4>3. /\ Current.target \in DOMAIN records
            /\ "impl" \in DOMAIN chain[records[Current.target]].args
        BY <4>1, <4>2, <1>0, PlanIs DEF DeployedBefore, Proxies, Passed, Address
      <4>4. Target \in DOMAIN chain /\ Target = records[Current.target]
        BY <4>3 DEF Shape, Target, Address
      <4>5. chain[Target].name = Current.target
        BY <4>1, <4>3, <4>4, PoolsNotMade DEF Named
      <4>. QED BY <2>1, <3>2, <4>1, <4>3, <4>4, <4>5 DEF Grows
    <3>. QED BY <2>1, <2>5, <3>1, <3>2 DEF Grows, Wiring, Initialises
  <2>. QED BY <2>1, <2>4, <2>5, PoolsOfSame DEF Proxies, PoolProxies, Address
<1>2. CASE Halts \/ Repeats \/ Ends
  <2>1. plan' = plan /\ chain' = chain /\ records' = records
    BY <1>2 DEF Halts, Repeats, Ends, world
  <2>2. ASSUME NEW j \in 1..script', NEW l \in DOMAIN plan.scripts[j], Passed(script', pc', j, l)
        PROVE  j \in 1..script /\ Passed(script, pc, j, l)
    <3>1. CASE script' = script /\ pc' = pc
      BY <2>2, <3>1
    <3>2. CASE script' = script /\ pc' = 1
      BY <1>0, <2>2, <3>2 DEF Passed, IsSequence
    <3>3. CASE script < Len(plan.scripts) /\ script' = script + 1 /\ pc' = 1 /\ pc = Len(Script) + 1
      <4>1. j \in DOMAIN plan.scripts /\ IsSequence(plan.scripts[j])
        BY <1>0, <2>2, <3>3, PlanIs
      <4>. QED BY <1>0, <2>2, <3>3, <4>1 DEF Passed, IsSequence, Script
    <3>. QED BY <1>2, <3>1, <3>2, <3>3 DEF Halts, Repeats, Ends
  <2>. QED BY <2>1, <2>2, PoolsOfSame DEF Proxies, PoolProxies, Address
<1>. QED BY <1>1, <1>2, Moves

LEMMA ImplementedIs ==
    Implemented <=>
       \A n \in PoolsOf(plan) \cap DOMAIN records :
          "impl" \in DOMAIN chain[records[n]].args =>
             /\ chain[records[n]].args["impl"] \in DOMAIN chain
             /\ \E m, step \in StepsOf(plan) :
                   /\ m.op = "file" /\ chain[chain[records[n]].args["impl"]].name = m.name
                   /\ IsProxyOf(step, n, ByFactory(m.name))
                   /\ ByFactory(m.name) \in DOMAIN records
                   /\ \/ records[ByFactory(m.name)] = chain[records[n]].args["impl"]
                      \/ \E j : Ahead(j) /\ Script[j].op = "deploy" /\ Script[j].name = n
BY DEF Implemented, Implements, Ahead, Address

LEMMA ImplementedKept == ASSUME Shape, Named, Implemented, [Next]_vars PROVE Implemented'
<1>1. CASE Step
  <2>1. /\ Grows /\ plan' = plan /\ script' = script /\ More
        /\ pc \in DOMAIN Script /\ Current = Script[pc] /\ script \in DOMAIN plan.scripts
        /\ Shape' /\ Script' = Script /\ Named' /\ Current \in StepsOf(plan)
    BY <1>1, StepIs, StepGrows, StepShape, AheadAfterStep, NamedKept, CurrentIn DEF Current, Shape
  <2>2. SUFFICES ASSUME NEW n \in PoolsOf(plan), n \in DOMAIN records', NEW impl,
                        "impl" \in DOMAIN chain'[records'[n]].args,
                        impl = chain'[records'[n]].args["impl"]
                 PROVE  /\ impl \in DOMAIN chain'
                        /\ \E m, step \in StepsOf(plan) :
                              /\ m.op = "file" /\ chain'[impl].name = m.name
                              /\ IsProxyOf(step, n, ByFactory(m.name))
                              /\ ByFactory(m.name) \in DOMAIN records'
                              /\ \/ records'[ByFactory(m.name)] = impl
                                 \/ \E j : /\ Ahead(j)' /\ Script[j].op = "deploy"
                                           /\ Script[j].name = n
    BY <2>1, PoolsOfSame DEF Implemented, Implements, Ahead, Address
  <2>3. CASE Current.op = "deploy" /\ n = Current.name
    <3>1. PICK m \in StepsOf(plan) :
             /\ m.op = "file" /\ IsProxyOf(Current, n, ByFactory(m.name))
             /\ ByFactory(m.name) \in DOMAIN records'
             /\ impl = records'[ByFactory(m.name)]
      BY <1>1, <2>2, <2>3, ProxyDeployed
    <3>2. impl \in DOMAIN chain'
      BY <2>1, <3>1 DEF Shape
    <3>3. chain'[impl].name = m.name
      BY <2>1, <3>1, PoolsOfSame DEF Named
    <3>. QED BY <2>1, <3>1, <3>2, <3>3
  <2>4. CASE ~(Current.op = "deploy" /\ n = Current.name)
    <3>1. /\ n \in DOMAIN records /\ n \notin Makes(Current)
          /\ "impl" \in DOMAIN chain[records[n]].args /\ impl = chain[records[n]].args["impl"]
      BY <1>1, <2>2, <2>4, PoolRecords
    <3>2. PICK m \in StepsOf(plan), step \in StepsOf(plan) :
             /\ m.op = "file" /\ chain[impl].name = m.name
             /\ IsProxyOf(step, n, ByFactory(m.name))
             /\ ByFactory(m.name) \in DOMAIN records
             /\ \/ records[ByFactory(m.name)] = impl
                \/ \E j : Ahead(j) /\ Script[j].op = "deploy" /\ Script[j].name = n
      BY <2>2, <3>1, ImplementedIs
    <3>3. impl \in DOMAIN chain /\ impl \in DOMAIN chain' /\ chain'[impl].name = m.name
      BY <2>1, <2>2, <3>1, <3>2, ImplementedIs DEF Grows
    <3> DEFINE made == ByFactory(m.name)
    <3>4. made \in DOMAIN records'
      BY <2>1, <3>2 DEF Grows
    <3>5. \/ records'[made] = impl
          \/ \E j : Ahead(j)' /\ Script[j].op = "deploy" /\ Script[j].name = n
      <4>1. CASE \E j : Ahead(j) /\ Script[j].op = "deploy" /\ Script[j].name = n
        BY <1>1, <2>1, <2>4, <4>1, AheadAfterStep
      <4>2. CASE records[made] = impl /\ made \notin Makes(Current)
        BY <2>1, <3>2, <4>2 DEF Grows
      <4>3. CASE made \in Makes(Current)
        <5>1. made \in MadeRecords
          BY <3>2 DEF MadeRecords
        <5>2. Current.op = "file" /\ made = ByFactory(Current.name)
          BY <2>1, <4>3, <5>1, CurrentMakes
        <5>3. ProxiesFollow(plan, Script)
          BY <2>1, PlanIs DEF FollowsTheRules, Script
        <5>4. \E j \in DOMAIN Script : pc < j /\ Script[j].op = "deploy" /\ Script[j].name = n
          BY <2>1, <2>2, <3>2, <5>2, <5>3 DEF ProxiesFollow
        <5>. QED BY <1>1, <5>4, AheadAfterStep
      <4>. QED BY <3>2, <4>1, <4>2, <4>3
    <3>. QED BY <3>2, <3>3, <3>4, <3>5
  <2>. QED BY <2>3, <2>4
<1>2. CASE Halts \/ Repeats \/ Ends
  <2>1. plan' = plan /\ chain' = chain /\ records' = records
    BY <1>2 DEF Halts, Repeats, Ends, world
  <2>2. \/ Script' = Script /\ \A j : Ahead(j) => Ahead(j)'
        \/ \A j : ~Ahead(j)
    BY <1>2, AheadOtherwise
  <2>3. SUFFICES ASSUME NEW n \in PoolsOf(plan) \cap DOMAIN records,
                        "impl" \in DOMAIN chain[records[n]].args, NEW impl,
                        impl = chain[records[n]].args["impl"]
                 PROVE  /\ impl \in DOMAIN chain
                        /\ \E m, step \in StepsOf(plan) :
                              /\ m.op = "file" /\ chain[impl].name = m.name
                              /\ IsProxyOf(step, n, ByFactory(m.name))
                              /\ ByFactory(m.name) \in DOMAIN records
                              /\ \/ records[ByFactory(m.name)] = impl
                                 \/ \E j : /\ Ahead(j)' /\ Script'[j].op = "deploy"
                                           /\ Script'[j].name = n
    BY <2>1, PoolsOfSame DEF Implemented, Implements, Ahead, Address
  <2>. QED BY <2>2, <2>3, ImplementedIs
<1>. QED BY <1>1, <1>2, Moves

-----------------------------------------------------------------------------
(* The pools the token manager knows *)

LEMMA RegistrationsIs ==
    Registrations <=>
       (Manager \in DOMAIN records =>
          \A asset \in AssetsIn(chain[records[Manager]].fields) :
             LET pool == chain[records[Manager]].fields[asset]
                 n == chain[pool].name
             IN  /\ n \in DOMAIN records /\ MayRegister(plan, script, asset, n)
                 /\ \/ records[n] = pool
                    \/ \E j : /\ Ahead(j) /\ Script[j].op = "set" /\ Script[j].target = Manager
                              /\ asset \in DOMAIN Script[j].links)
BY DEF Registrations, Recorded, Ahead, Address, Known

LEMMA RegisteredApart ==
    ASSUME Shape, NEW i \in 1..Len(plan.scripts), NEW asset, NEW n, MayRegister(plan, i, asset, n)
    PROVE  n \notin MadeRecords /\ asset \in AssetsOf(plan)
<1>1. FollowsTheRules(plan) /\ \A j \in 1..i : j \in DOMAIN plan.scripts
  BY PlanIs
<1>2. ASSUME NEW j \in 1..i, NEW k \in DOMAIN plan.scripts[j], NEW s,
             s = plan.scripts[j][k], Registers(s), asset \in AssetsIn(s.links),
             s.links[asset] = n
      PROVE  n \notin MadeRecords /\ asset \in AssetsOf(plan)
  <2>1. s \in StepsOf(plan)
    BY <1>1, <1>2, StepIn
  <2>2. n \notin MadeRecords
    BY <1>1, <1>2, <2>1 DEF FollowsTheRules, RegistersProxies, MadeRecords
  <2>3. LinksOf(s) = s.links
    BY <1>2 DEF LinksOf, Registers
  <2>. QED BY <1>2, <2>1, <2>2, <2>3 DEF AssetsOf
<1>3. ASSUME NEW g \in DOMAIN plan.given, plan.given[g].name = Manager,
             asset \in AssetsIn(plan.given[g].fields),
             plan.given[plan.given[g].fields[asset]].name = n
      PROVE  n \notin MadeRecords /\ asset \in AssetsOf(plan)
  <2>1. plan.given[g].fields[asset] \in DOMAIN plan.given
    BY <1>1, <1>3 DEF FollowsTheRules, WellFormed, AssetsIn
  <2>2. n \in GivenIn(plan)
    BY <1>3, <2>1 DEF GivenIn
  <2>3. n \notin MadeRecords
    BY <1>1, <2>2 DEF FollowsTheRules, RecordsApart, MadeRecords
  <2>4. g \in {x \in DOMAIN plan.given : plan.given[x].name = Manager}
    BY <1>3
  <2> DEFINE U == UNION {AssetsIn(plan.given[h].fields) :
                           h \in {x \in DOMAIN plan.given : plan.given[x].name = Manager}}
  <2>5. asset \in U
    BY <1>3, <2>4
  <2>6. U \subseteq AssetsOf(plan)
    BY DEF AssetsOf
  <2> HIDE DEF U
  <2>. QED BY <2>3, <2>5, <2>6
<1>. QED BY <1>2, <1>3 DEF MayRegister

\* What the token manager knows after a step it knew before, or is given by it.
LEMMA AssetsAfter ==
    ASSUME Shape, Step, Manager \in DOMAIN records',
           NEW asset \in AssetsIn(chain'[records'[Manager]].fields), NEW pool,
           pool = chain'[records'[Manager]].fields[asset]
    PROVE  \/ /\ Registers(Current) /\ asset \in AssetsIn(Current.links)
              /\ Current.links[asset] \in DOMAIN records /\ pool = records[Current.links[asset]]
           \/ /\ Manager \in DOMAIN records
              /\ asset \in AssetsIn(chain[records[Manager]].fields)
              /\ pool = chain[records[Manager]].fields[asset]
              /\ ~(/\ Current.op = "set" /\ Current.target = Manager
                   /\ asset \in DOMAIN Current.links)
<1> DEFINE a == records'[Manager]
<1>1. asset # "impl" /\ asset \in DOMAIN chain'[a].fields
  BY DEF AssetsIn
<1>2. CASE Keeps
  <2>1. Current.op # "set" /\ chain' = chain /\ records' = records
    BY <1>2 DEF Keeps
  <2>. QED BY <2>1
<1>3. CASE Deploys
  <2> DEFINE c == NewContract(Current.name, Resolved(Current.links))
  <2>1. /\ DOMAIN c.fields = DOMAIN Current.links
        /\ \A f \in DOMAIN Current.links : c.fields[f] = records[Current.links[f]]
    BY DEF NewContract, Resolved, Address
  <2>2. Creates(Current.name, c) /\ Current.op = "deploy"
    BY <1>3 DEF Deploys
  <2>3. \A f \in DOMAIN Current.links : Current.links[f] \in DOMAIN records
    BY <1>3, LinksKnown DEF Deploys
  <2> HIDE DEF c
  <2>4. CASE Current.name = Manager
    <3>1. chain'[a] = c
      BY <2>2, <2>4 DEF Creates, Appears, Records
    <3>2. asset \in DOMAIN Current.links /\ pool = records[Current.links[asset]]
      BY <1>1, <2>1, <3>1
    <3>. QED BY <1>1, <2>2, <2>3, <2>4, <3>2 DEF Registers, AssetsIn
  <2>5. CASE Current.name # Manager
    <3>1. Manager \in DOMAIN records /\ a = records[Manager] /\ a \in DOMAIN chain
      BY <2>2, <2>5 DEF Creates, Records, Shape
    <3>2. chain'[a] = chain[a]
      BY <2>2, <3>1 DEF Creates, Appears, Records
    <3>. QED BY <2>2, <3>1, <3>2
  <2>. QED BY <2>4, <2>5
<1>4. CASE Builds
  <2>1. /\ records' = records /\ Current.op = "make"
        /\ \A b \in DOMAIN chain : chain'[b] = chain[b]
    BY <1>4 DEF Builds, Appears
  <2>2. Manager \in DOMAIN records /\ a = records[Manager] /\ a \in DOMAIN chain
    BY <2>1 DEF Shape
  <2>. QED BY <2>1, <2>2
<1>5. CASE Files
  <2> DEFINE r == ByFactory(Current.name)
  <2>1. /\ Records(r, Len(chain)) /\ Current.op = "file" /\ chain' = chain
        /\ DOMAIN chain[Len(chain)].fields = {}
    BY <1>5, StepIs DEF Files, Shape, Handed
  <2> HIDE DEF r
  <2>2. r # Manager
    BY <1>1, <2>1 DEF Records
  <2>3. Manager \in DOMAIN records /\ a = records[Manager]
    BY <2>1, <2>2 DEF Records
  <2>. QED BY <2>1, <2>3
<1>6. CASE Writes
  <2> DEFINE F == Merge(Resolved(Current.links), chain[Target].fields)
             c == [chain[Target] EXCEPT !.fields = F]
  <2>1. Alters(c) /\ Current.op \in Writing /\ ~Taken(Current)
    BY <1>6 DEF Writes
  <2>2. Target \in DOMAIN chain /\ DOMAIN chain[Target] = ContractFields
    BY <2>1 DEF Alters, Shape
  <2>3. /\ DOMAIN F = DOMAIN Current.links \cup DOMAIN chain[Target].fields
        /\ \A f \in DOMAIN Current.links : F[f] = records[Current.links[f]]
        /\ \A f \in DOMAIN chain[Target].fields :
              f \notin DOMAIN Current.links => F[f] = chain[Target].fields[f]
    BY DEF Merge, Resolved, Address
  <2> HIDE DEF F
  <2>4. c.fields = F
    BY <2>2, FieldsIs
  <2> HIDE DEF c
  <2>5. Manager \in DOMAIN records /\ a = records[Manager] /\ a \in DOMAIN chain
    BY <2>1 DEF Alters, Shape
  <2>6. CASE Current.target = Manager
    <3>1. a = Target /\ chain'[a] = c
      BY <2>1, <2>5, <2>6 DEF Alters, Target, Address
    <3>2. CASE asset \in DOMAIN Current.links
      <4>1. Current.links[asset] \in DOMAIN records
        BY <1>6, <3>2, LinksKnown DEF Writes
      <4>2. pool = records[Current.links[asset]]
        BY <2>3, <2>4, <3>1, <3>2
      <4>. QED BY <1>1, <2>1, <2>6, <3>2, <4>1, <4>2 DEF Registers, AssetsIn, Writing
    <3>3. CASE asset \notin DOMAIN Current.links
      <4>1. asset \in DOMAIN chain[a].fields /\ pool = chain[a].fields[asset]
        BY <1>1, <2>3, <2>4, <3>1, <3>3
      <4>. QED BY <1>1, <2>5, <3>3, <4>1 DEF AssetsIn
    <3>. QED BY <3>2, <3>3
  <2>7. CASE Current.target # Manager
    <3>1. a # Target
      BY <2>1, <2>5, <2>7 DEF Shape, Alters, Target, Address
    <3>2. chain'[a] = chain[a]
      BY <2>1, <2>5, <3>1 DEF Alters
    <3>. QED BY <2>5, <2>7, <3>2
  <2>. QED BY <2>6, <2>7
<1>7. CASE Removes
  <2> DEFINE F == [k \in DOMAIN chain[Target].fields \ {Current.field} |-> chain[Target].fields[k]]
             c == [chain[Target] EXCEPT !.fields = F]
  <2>1. Alters(c) /\ Current.op = "remove"
    BY <1>7 DEF Removes
  <2>2. Target \in DOMAIN chain /\ DOMAIN chain[Target] = ContractFields
    BY <2>1 DEF Alters, Shape
  <2>3. /\ DOMAIN F \subseteq DOMAIN chain[Target].fields
        /\ \A f \in DOMAIN F : F[f] = chain[Target].fields[f]
    OBVIOUS
  <2> HIDE DEF F
  <2>4. c.fields = F
    BY <2>2, FieldsIs
  <2> HIDE DEF c
  <2>5. Manager \in DOMAIN records /\ a = records[Manager] /\ a \in DOMAIN chain
    BY <2>1 DEF Alters, Shape
  <2>6. asset \in DOMAIN chain[a].fields /\ pool = chain[a].fields[asset]
    <3>1. CASE a = Target
      BY <1>1, <2>1, <2>3, <2>4, <3>1 DEF Alters
    <3>2. CASE a # Target
      BY <1>1, <2>1, <2>5, <3>2 DEF Alters
    <3>. QED BY <3>1, <3>2
  <2>. QED BY <1>1, <2>1, <2>5, <2>6 DEF AssetsIn
<1>8. CASE Switches
  <2> DEFINE c == [chain[Target] EXCEPT !.active = (Current.op = "unpause")]
  <2>1. Alters(c) /\ Current.op # "set"
    BY <1>8 DEF Switches
  <2>2. Target \in DOMAIN chain /\ DOMAIN chain[Target] = ContractFields
    BY <2>1 DEF Alters, Shape
  <2>3. c.fields = chain[Target].fields
    BY <2>2, ActiveIs
  <2> HIDE DEF c
  <2>4. Manager \in DOMAIN records /\ a = records[Manager] /\ a \in DOMAIN chain
    BY <2>1 DEF Alters, Shape
  <2>5. chain'[a].fields = chain[a].fields
    BY <2>1, <2>3, <2>4 DEF Alters
  <2>. QED BY <2>1, <2>4, <2>5
<1>. QED BY <1>2, <1>3, <1>4, <1>5, <1>6, <1>7, <1>8, StepIs

\* A pool deployed anew is registered anew later in the script.
LEMMA StillRecorded ==
    ASSUME Shape, Step, NEW asset, NEW n \in DOMAIN records, MayRegister(plan, script, asset, n)
    PROVE  \/ records'[n] = records[n]
           \/ \E j : /\ Ahead(j)' /\ Script[j].op = "set" /\ Script[j].target = Manager
                     /\ asset \in DOMAIN Script[j].links
<1>1. /\ Grows /\ More /\ pc \in DOMAIN Script /\ Current = Script[pc]
      /\ script \in DOMAIN plan.scripts
  BY StepIs, StepGrows DEF Current, Shape
<1>2. n \notin MadeRecords /\ asset \in AssetsOf(plan)
  BY RegisteredApart, PlanIs
<1>3. CASE n \notin Makes(Current)
  BY <1>1, <1>3 DEF Grows
<1>4. CASE n \in Makes(Current)
  <2>1. Current.op = "deploy" /\ n = Current.name
    BY <1>1, <1>2, <1>4, CurrentMakes
  <2>2. RegistersAgain(plan, script)
    BY <1>1, PlanIs DEF FollowsTheRules
  <2>3. \E j \in DOMAIN Script : /\ pc < j /\ Script[j].op = "set" /\ Script[j].target = Manager
                                 /\ asset \in DOMAIN Script[j].links
    BY <1>1, <1>2, <2>1, <2>2 DEF RegistersAgain, Script
  <2>. QED BY <2>3, AheadAfterStep
<1>. QED BY <1>3, <1>4

LEMMA RegistrationsKept == ASSUME Shape, Named, Registrations, [Next]_vars PROVE Registrations'
<1>1. CASE Step
  <2>1. /\ Grows /\ plan' = plan /\ script' = script /\ More /\ Shape' /\ Script' = Script
        /\ pc \in DOMAIN Script /\ Current = Script[pc] /\ script \in DOMAIN plan.scripts
        /\ Current \in StepsOf(plan)
    BY <1>1, StepIs, StepGrows, StepShape, AheadAfterStep, CurrentIn DEF Current, Shape
  <2>2. SUFFICES ASSUME Manager \in DOMAIN records',
                        NEW asset \in AssetsIn(chain'[records'[Manager]].fields),
                        NEW pool, pool = chain'[records'[Manager]].fields[asset]
                 PROVE  /\ chain'[pool].name \in DOMAIN records'
                        /\ MayRegister(plan, script, asset, chain'[pool].name)
                        /\ \/ records'[chain'[pool].name] = pool
                           \/ \E j : /\ Ahead(j)' /\ Script[j].op = "set"
                                     /\ Script[j].target = Manager
                                     /\ asset \in DOMAIN Script[j].links
    BY <2>1 DEF Registrations, Recorded, Ahead, Address, Known
  <2>3. CASE /\ Registers(Current) /\ asset \in AssetsIn(Current.links)
             /\ Current.links[asset] \in DOMAIN records /\ pool = records[Current.links[asset]]
    <3> DEFINE n == Current.links[asset]
    <3>1. n \notin MadeRecords
      BY <2>1, <2>3, PlanIs DEF FollowsTheRules, RegistersProxies, MadeRecords
    <3>2. pool \in DOMAIN chain /\ chain[pool].name = n
      BY <2>3, <3>1 DEF Named, Shape
    <3>3. chain'[pool].name = n /\ n \in DOMAIN records'
      BY <2>1, <2>3, <3>2 DEF Grows
    <3>4. MayRegister(plan, script, asset, n)
      BY <2>1, <2>3, PlanIs DEF MayRegister, Script
    <3> HIDE DEF n
    <3>. QED BY <1>1, <2>3, <3>3, <3>4, StillRecorded DEF n
  <2>4. CASE /\ Manager \in DOMAIN records
             /\ asset \in AssetsIn(chain[records[Manager]].fields)
             /\ pool = chain[records[Manager]].fields[asset]
             /\ ~(/\ Current.op = "set" /\ Current.target = Manager
                  /\ asset \in DOMAIN Current.links)
    <3> DEFINE n == chain[pool].name
    <3>1. /\ n \in DOMAIN records /\ MayRegister(plan, script, asset, n)
          /\ \/ records[n] = pool
             \/ \E j : /\ Ahead(j) /\ Script[j].op = "set" /\ Script[j].target = Manager
                       /\ asset \in DOMAIN Script[j].links
      BY <2>4, RegistrationsIs
    <3>2. pool \in DOMAIN chain
      BY <2>4 DEF Shape, AssetsIn
    <3>3. chain'[pool].name = n /\ n \in DOMAIN records'
      BY <2>1, <3>1, <3>2 DEF Grows
    <3> HIDE DEF n
    <3>4. \/ records'[n] = pool
          \/ \E j : /\ Ahead(j)' /\ Script[j].op = "set" /\ Script[j].target = Manager
                    /\ asset \in DOMAIN Script[j].links
      <4>1. CASE records[n] = pool
        BY <1>1, <3>1, <4>1, StillRecorded
      <4>2. CASE \E j : /\ Ahead(j) /\ Script[j].op = "set" /\ Script[j].target = Manager
                        /\ asset \in DOMAIN Script[j].links
        BY <1>1, <2>1, <2>4, <4>2, AheadAfterStep
      <4>. QED BY <3>1, <4>1, <4>2
    <3>. QED BY <3>1, <3>3, <3>4
  <2>. QED BY <1>1, <2>2, <2>3, <2>4, AssetsAfter
<1>2. CASE Halts \/ Repeats \/ Ends
  <2>1. plan' = plan /\ chain' = chain /\ records' = records
    BY <1>2 DEF Halts, Repeats, Ends, world
  <2>2. \/ Script' = Script /\ \A j : Ahead(j) => Ahead(j)'
        \/ \A j : ~Ahead(j)
    BY <1>2, AheadOtherwise
  <2>3. \A i \in 1..script : i \in 1..script'
    BY <1>2, PlanIs DEF Halts, Repeats, Ends
  <2>4. \A asset, n : MayRegister(plan, script, asset, n) => MayRegister(plan, script', asset, n)
    BY <2>3 DEF MayRegister
  <2>5. SUFFICES ASSUME Manager \in DOMAIN records,
                        NEW asset \in AssetsIn(chain[records[Manager]].fields),
                        NEW pool, pool = chain[records[Manager]].fields[asset]
                 PROVE  /\ chain[pool].name \in DOMAIN records
                        /\ MayRegister(plan, script', asset, chain[pool].name)
                        /\ \/ records[chain[pool].name] = pool
                           \/ \E j : /\ Ahead(j)' /\ Script'[j].op = "set"
                                     /\ Script'[j].target = Manager
                                     /\ asset \in DOMAIN Script'[j].links
    BY <2>1 DEF Registrations, Recorded, Ahead, Address, Known
  <2>. QED BY <2>2, <2>4, <2>5, RegistrationsIs
<1>. QED BY <1>1, <1>2, Moves

-----------------------------------------------------------------------------
(* The beginning, and the theorems *)

LEMMA InitIInv == Init => IInv
<1>. SUFFICES ASSUME Init PROVE IInv
  OBVIOUS
<1>1. /\ plan \in Plans /\ script = 1 /\ pc = 1 /\ status = "running" /\ reached = {}
      /\ chain = [i \in DOMAIN plan.given |->
                    [name |-> plan.given[i].name, version |-> 0, args |-> <<>>,
                     fields |-> plan.given[i].fields, active |-> TRUE]]
      /\ records = [n \in GivenIn(plan) |->
                      CHOOSE i \in DOMAIN plan.given : plan.given[i].name = n]
  BY DEF Init
<1>2. FollowsTheRules(plan) /\ WellFormed(plan)
  BY <1>1, PlansAssumption DEF FollowsTheRules
<1>3. /\ DOMAIN chain = DOMAIN plan.given
      /\ \A i \in DOMAIN chain :
            /\ DOMAIN chain[i] = ContractFields /\ chain[i].name = plan.given[i].name
            /\ DOMAIN chain[i].args = {} /\ chain[i].fields = plan.given[i].fields
            /\ chain[i].active = TRUE
  BY <1>1 DEF ContractFields
<1>4. DOMAIN records = GivenIn(plan)
  BY <1>1
<1>5. \A n \in GivenIn(plan) : records[n] \in DOMAIN plan.given /\ plan.given[records[n]].name = n
  BY <1>1 DEF GivenIn
<1>6. \A g \in DOMAIN plan.given :
         plan.given[g].name \in GivenIn(plan) /\ records[plan.given[g].name] = g
  <2>1. \A g \in DOMAIN plan.given : plan.given[g].name \in GivenIn(plan)
    BY DEF GivenIn
  <2>. QED BY <1>2, <1>5, <2>1 DEF WellFormed
<1>7. \E S : chain \in Seq(S)
  <2> DEFINE S == {chain[i] : i \in DOMAIN chain}
  <2>1. Len(plan.given) \in Nat /\ DOMAIN chain = 1..Len(plan.given)
    BY <1>2, <1>3 DEF WellFormed, IsSequence
  <2>2. chain = [i \in 1..Len(plan.given) |-> chain[i]]
    BY <1>1, <2>1
  <2>3. \A i \in 1..Len(plan.given) : chain[i] \in S
    BY <2>1
  <2> HIDE DEF S
  <2>4. chain \in [1..Len(plan.given) -> S]
    BY <2>2, <2>3
  <2>5. chain \in Seq(S)
    BY <2>1, <2>4
  <2>. QED BY <2>5
<1>8. 1 \in DOMAIN plan.scripts /\ IsSequence(plan.scripts[1])
  BY <1>2 DEF WellFormed, IsSequence
<1>9. Shape
  <2>1. script \in DOMAIN plan.scripts /\ pc \in 1..(Len(Script) + 1)
    BY <1>1, <1>8 DEF Script, IsSequence
  <2>2. \A a \in DOMAIN chain : \A f \in DOMAIN chain[a].fields : chain[a].fields[f] \in DOMAIN chain
    BY <1>2, <1>3 DEF WellFormed
  <2>3. \A n \in DOMAIN records : records[n] \in DOMAIN chain
    BY <1>3, <1>4, <1>5
  <2>4. \A n, m \in DOMAIN records : records[n] = records[m] => n = m
    BY <1>4, <1>5
  <2>5. ContractsOK
    BY <1>3, <1>7, <2>2, <2>3, <2>4 DEF ContractsOK
  <2>6. Handed
    BY <1>1, <1>2, <1>8, FirstStep DEF Handed, Current, Script
  <2>. QED BY <1>1, <2>1, <2>5, <2>6 DEF Shape, ContractsOK, Statuses
<1>10. Named
  <2>1. \A n \in DOMAIN records : chain[records[n]].name = n /\ n \notin MadeRecords
    BY <1>2, <1>3, <1>4, <1>5 DEF FollowsTheRules, RecordsApart, MadeRecords
  <2>. QED BY <2>1 DEF Named, MadeRecords
<1>11. Reopening
  BY <1>3, <1>4, <1>5 DEF Reopening, Known, Address
<1>12. \A j \in 1..script : \A l \in DOMAIN plan.scripts[j] : ~Passed(script, pc, j, l)
  BY <1>1, <1>8 DEF Passed, IsSequence
<1>13. Entrusted
  BY <1>12 DEF Entrusted
<1>14. PoolProxies = {}
  BY <1>2, <1>3 DEF PoolProxies, WellFormed, Wiring
<1>15. WiredPools /\ Proxies
  BY <1>12, <1>14 DEF WiredPools, Proxies
<1>16. Implemented
  BY <1>3, <1>4, <1>5 DEF Implemented, Address
<1>17. Registrations
  <2>. SUFFICES ASSUME Manager \in DOMAIN records,
                       NEW asset \in AssetsIn(chain[records[Manager]].fields)
                PROVE  LET pool == chain[records[Manager]].fields[asset]
                           n == chain[pool].name
                       IN  /\ n \in DOMAIN records /\ MayRegister(plan, script, asset, n)
                           /\ records[n] = pool
    BY RegistrationsIs
  <2> DEFINE g == records[Manager]
             pool == chain[g].fields[asset]
  <2>1. /\ g \in DOMAIN plan.given /\ plan.given[g].name = Manager
        /\ asset \in AssetsIn(plan.given[g].fields) /\ pool = plan.given[g].fields[asset]
    BY <1>3, <1>4, <1>5
  <2>2. pool \in DOMAIN plan.given
    BY <1>2, <2>1 DEF WellFormed, AssetsIn
  <2>3. chain[pool].name = plan.given[pool].name
    BY <1>3, <2>2
  <2>4. MayRegister(plan, script, asset, plan.given[pool].name)
    BY <2>1 DEF MayRegister
  <2>. QED BY <1>4, <1>6, <2>2, <2>3, <2>4
<1>. QED BY <1>9, <1>10, <1>11, <1>13, <1>15, <1>16, <1>17 DEF IInv

LEMMA NextIInv == IInv /\ [Next]_vars => IInv'
<1>. SUFFICES ASSUME IInv, [Next]_vars PROVE IInv'
  OBVIOUS
<1>1. Shape' /\ Named' /\ Reopening'
  BY Moves, NamedKept, ReopeningKept DEF IInv
<1>2. Entrusted' /\ WiredPools' /\ Proxies'
  BY EntrustedKept, WiredKept, ProxiesKept DEF IInv
<1>3. Implemented' /\ Registrations'
  BY ImplementedKept, RegistrationsKept DEF IInv
<1>. QED BY <1>1, <1>2, <1>3 DEF IInv

\* The invariant: what a script has left half done it mends before it ends,
\* from its next step on or, when it is run again, from its first.
THEOREM Mended == Spec => []IInv
BY InitIInv, NextIInv, PTL DEF Spec

\* An initialised pool has two indices of its own, each owned by this pool
\* (initPool and deployLinearIndex of src/deploy).
THEOREM WiredHolds == Spec => []PoolsWired
<1>1. IInv => PoolsWired
  BY DEF IInv, WiredPools, PoolsWired, Owns
<1>. QED BY <1>1, Mended, PTL

\* Between scripts the protocol is not paused (deployAllFacets, src/deploy).
THEOREM PauseEnds == Spec => []NotLeftPaused
<1>1. IInv => NotLeftPaused
  BY DEF IInv, Reopening, NotLeftPaused
<1>. QED BY <1>1, Mended, PTL

\* Between scripts the registered pools are the recorded ones, and the record
\* of a pool's factory names what its proxy uses (deployPool, addPoolAssets).
THEOREM RecordsHold == Spec => []RecordsAgree
<1>1. IInv => RecordsAgree
  <2>. SUFFICES ASSUME IInv, BetweenScripts
                PROVE  /\ Known({Manager}) =>
                            LET pools == chain[Address(Manager)].fields
                            IN  \A asset \in AssetsIn(pools) :
                                   Address(chain[pools[asset]].name) = pools[asset]
                       /\ \A p \in PoolProxies :
                            Address(chain[p].name) = p =>
                               Address(ByFactory(chain[chain[p].args.impl].name)) = chain[p].args.impl
    BY DEF RecordsAgree
  <2>1. \A j : ~Ahead(j)
    BY DEF Ahead
  <2>2. Known({Manager}) =>
           LET pools == chain[Address(Manager)].fields
           IN  \A asset \in AssetsIn(pools) : Address(chain[pools[asset]].name) = pools[asset]
    BY <2>1, RegistrationsIs DEF IInv, Known, Address
  <2>3. ASSUME NEW p \in PoolProxies, Address(chain[p].name) = p
        PROVE  Address(ByFactory(chain[chain[p].args.impl].name)) = chain[p].args.impl
    <3> DEFINE n == chain[p].name
    <3>1. n \in PoolsOf(plan) \cap DOMAIN records /\ "impl" \in DOMAIN chain[p].args
      BY <2>3 DEF IInv, Proxies
    <3>2. records[n] = p
      BY <2>3 DEF Address
    <3> HIDE DEF n
    <3>. QED BY <2>1, <3>1, <3>2, ImplementedIs DEF IInv, Address
  <2>. QED BY <2>2, <2>3
<1>. QED BY <1>1, Mended, PTL
===============================================================================
