------------------------------- MODULE Deployment ------------------------------
(***************************************************************************)
(* A migration: scripts of src/deploy run in order against a chain, with   *)
(* records of what was deployed kept beside the sources.  A script may be  *)
(* cut off after any step (a refused verification, a lost connection); it  *)
(* is then run again from its first step, on the same commit or on a later *)
(* one.  hardhat-deploy leaves out the deployments whose record is still   *)
(* of the same bytecode and arguments, and nothing else.                   *)
(***************************************************************************)
EXTENDS DeployRules, Integers

CONSTANTS
  Plans       \* the migrations: [scripts: a sequence of scripts,
              \*  given: the contracts recorded beforehand, each with its fields,
              \*  cuts: the bound on how often its scripts are cut off]

ASSUME PlansAssumption == \A migration \in Plans : FollowsTheRules(migration)

VARIABLES
  plan,       \* the migration
  script,     \* the number of the running script in it
  pc,         \* the number of its next step
  status,     \* "running", "cut" off, "thrown" by a failing step, "stuck" or "done"
  fresh,      \* whether this attempt runs on a commit made after the last one ended
  reached,    \* the steps of this script that earlier attempts have completed
  cuts,       \* how many times a script was cut off
  commit,     \* the commit checked out
  stamped,    \* the commit written into each source file
  records,    \* deployments/<network>: the address recorded for each name
  chain       \* the contracts, each at its index: its name, bytecode, constructor
              \* arguments, current fields, and whether it is active (the diamond)

world == <<stamped, records, chain>>
vars == <<plan, script, pc, status, fresh, reached, cuts, commit, world>>

Script == plan.scripts[script]
Current == Script[pc]

Merge(f, g) == [x \in DOMAIN f \union DOMAIN g |-> IF x \in DOMAIN f THEN f[x] ELSE g[x]]
Address(name) == records[name]
Resolved(links) == [k \in DOMAIN links |-> Address(links[k])]
Known(names) == names \subseteq DOMAIN records
Given(links) == {links[k] : k \in DOMAIN links}
Version(name) == IF name \in DOMAIN stamped THEN stamped[name] ELSE 0

NewContract(name, links) ==
  [name |-> name, version |-> Version(name), args |-> links, fields |-> links, active |-> FALSE]

Init ==
  /\ plan \in Plans
  /\ script = 1 /\ pc = 1 /\ status = "running" /\ fresh = FALSE /\ reached = {}
  /\ cuts = 0 /\ commit = 1
  /\ stamped = <<>>
  /\ chain = [i \in DOMAIN plan.given |->
                [name |-> plan.given[i].name, version |-> 0, args |-> <<>>,
                 fields |-> plan.given[i].fields, active |-> TRUE]]
  /\ records = [n \in GivenIn(plan) |->
                  CHOOSE i \in DOMAIN plan.given : plan.given[i].name = n]
--------------------------------------------------------------------------------
\* Mutant of Unchanged: the bytecode is not compared.
UnchangedArguments(step) ==
  /\ step.name \in DOMAIN records
  /\ chain[Address(step.name)].args = Resolved(step.links)

\* Mutant of Unchanged: the constructor's arguments are not compared.
UnchangedBytecode(step) ==
  /\ step.name \in DOMAIN records
  /\ chain[Address(step.name)].version = Version(step.name)

(* A deployment that is left out: its record is of this very contract.     *)
Unchanged(step) ==
  /\ step.name \in DOMAIN records
  /\ LET old == chain[Address(step.name)]
     IN  /\ old.version = Version(step.name)
         /\ old.args = Resolved(step.links)

\* Mutant of Taken: an initialiser runs as often as it is called.
NeverTaken(step) == FALSE

(* What is set once is set already: initializer, _addPoolAsset and the     *)
(* diamond's check of the functions it is to add.                          *)
Taken(step) ==
  /\ step.op \in {"set", "add"}
  /\ DOMAIN step.links \intersect DOMAIN chain[Address(step.target)].fields # {}

(* Whether the current step succeeds; a step that does not throws.         *)
Succeeds(step) ==
  LET target == chain[Address(step.target)]
      write == {"set", "add", "put", "replace"}
  IN
  /\ step.op = "read" => Known(step.names)
  /\ step.op = "deploy" => Known(Given(step.links))
  /\ step.op = "make" => Known({step.factory})
  /\ step.op \in write \union {"remove", "pause", "unpause"} => Known({step.target})
  /\ step.op \in write => Known(Given(step.links))
  /\ ~Taken(step)
  /\ step.op \in {"add", "replace", "unpause"} => ~target.active
  /\ step.op = "pause" => target.active
  /\ step.op = "replace" =>
       /\ DOMAIN step.links \subseteq DOMAIN target.fields
       /\ \A k \in DOMAIN step.links : target.fields[k] # Address(step.links[k])
  /\ step.op = "remove" => step.field \in DOMAIN target.fields

Record(name, address) == records' = Merge([r \in {name} |-> address], records)

(* hardhat-deploy records a new address at once.                           *)
Create(name, contract) ==
  /\ chain' = Append(chain, contract)
  /\ Record(name, Len(chain) + 1)
  /\ UNCHANGED stamped

Change(name, contract) ==
  /\ chain' = [chain EXCEPT ![Address(name)] = contract]
  /\ UNCHANGED <<stamped, records>>

SetFields(step) ==
  LET target == chain[Address(step.target)]
  IN  Change(step.target, [target EXCEPT !.fields = Merge(Resolved(step.links), @)])

Effect(step) ==
  LET target == chain[Address(step.target)]
  IN
  \/ /\ step.op = "embed"
     /\ stamped' = Merge([f \in step.files |-> commit], stamped)
     /\ UNCHANGED <<records, chain>>
  \/ step.op = "read" /\ UNCHANGED world
  \/ /\ step.op = "deploy"
     /\ IF Unchanged(step)
          THEN UNCHANGED world
          ELSE Create(step.name, NewContract(step.name, Resolved(step.links)))
  \/ /\ step.op = "make"
     /\ chain' = Append(chain, NewContract(step.name, <<>>))
     /\ UNCHANGED <<stamped, records>>
  \/ /\ step.op = "file"   \* the address that the step before it returned
     /\ Record(ByFactory(step.name), Len(chain))
     /\ UNCHANGED <<stamped, chain>>
  \/ step.op \in {"set", "add", "put", "replace"} /\ SetFields(step)
  \/ /\ step.op = "remove"
     /\ Change(step.target,
               [target EXCEPT !.fields = [k \in DOMAIN @ \ {step.field} |-> @[k]]])
  \/ step.op = "pause" /\ Change(step.target, [target EXCEPT !.active = FALSE])
  \/ step.op = "unpause" /\ Change(step.target, [target EXCEPT !.active = TRUE])
--------------------------------------------------------------------------------
Running == status = "running"
More == pc \in DOMAIN Script

Step ==
  /\ Running /\ More
  /\ Succeeds(Current)
  /\ Effect(Current)
  /\ pc' = pc + 1
  /\ UNCHANGED <<plan, script, status, fresh, reached, cuts, commit>>

(* The next script, if the plan has one.                                   *)
NextScript ==
  /\ IF script < Len(plan.scripts)
       THEN /\ script' = script + 1 /\ pc' = 1
            /\ UNCHANGED status
       ELSE /\ status' = "done"
            /\ UNCHANGED <<script, pc>>
  /\ fresh' = FALSE /\ reached' = {}
  /\ UNCHANGED <<plan, cuts, commit, world>>

Finish == Running /\ ~More /\ NextScript

Abort(why) ==
  /\ status' = why
  /\ reached' = reached \union 1..(pc - 1)
  /\ UNCHANGED <<plan, script, pc, fresh, commit, world>>

(* The script is cut off after its last completed step.                    *)
CutOff ==
  /\ Running /\ pc > 1
  /\ cuts < plan.cuts
  /\ cuts' = cuts + 1
  /\ Abort("cut")

\* Mutant of Throw: an error ends the script as if it were done.
ErrorUnheeded == Running /\ More /\ ~Succeeds(Current) /\ NextScript

(* A step fails.  When it does in an attempt that ran on a commit of its   *)
(* own there is nothing left to try.                                       *)
Throw ==
  /\ Running /\ More
  /\ ~Succeeds(Current)
  /\ Abort(IF fresh THEN "stuck" ELSE "thrown")
  /\ UNCHANGED cuts

Restart ==
  /\ status' = "running" /\ pc' = 1
  /\ UNCHANGED <<plan, script, reached, cuts, world>>

RunAgain == status = "cut" /\ Restart /\ fresh' = FALSE /\ UNCHANGED commit

RunOnNewCommit ==
  /\ status \in {"cut", "thrown"}
  /\ Restart
  /\ fresh' = TRUE /\ commit' = commit + 1

Next == Step \/ Finish \/ CutOff \/ Throw \/ RunAgain \/ RunOnNewCommit

Spec == Init /\ [][Next]_vars

(* A running script goes on, and the one who runs it tries again.          *)
FairSpec ==
  /\ Spec
  /\ WF_vars(Step \/ Finish \/ Throw)
  /\ WF_vars(RunAgain \/ RunOnNewCommit)
--------------------------------------------------------------------------------
Deployed == {Script[j].name : j \in {i \in DOMAIN Script : Script[i].op = "deploy"}}

(* A step that no later commit undoes: it changes, in a way that cannot be *)
(* repeated, a contract which the script does not itself deploy anew.      *)
Irrevocable(j) ==
  /\ Script[j].op \in {"set", "add", "remove", "replace", "pause", "unpause"}
  /\ Script[j].target \notin Deployed

(* Nothing a script reads is missing because no script of the plan and no  *)
(* earlier migration made it.                                              *)
Provided ==
  \A j \in DOMAIN Script :
     Script[j].op = "read" =>
       \A n \in Script[j].names :
          \/ n \in GivenIn(plan)
          \/ \E i \in 1..script : \E k \in DOMAIN plan.scripts[i] :
                LET step == plan.scripts[i][k]
                IN  \/ step.op = "deploy" /\ step.name = n
                    \/ step.op = "file" /\ ByFactory(step.name) = n

(* A migration comes to its end whatever cuts it off, unless a cut fell    *)
(* behind a step that cannot be repeated, or a script reads a record that  *)
(* nothing ever made (hardhat-deploy's skipping of deployments against the *)
(* initialisers and setters that work once, src/deploy).                   *)
MigrationCompletes ==
  <>(\/ status = "done"
     \/ \E j \in reached : Irrevocable(j)
     \/ ~Provided)

PoolProxies == {a \in DOMAIN chain : "depositIndex" \in DOMAIN chain[a].fields}

(* An initialised pool has two indices of its own, each initialised with   *)
(* this very pool, however often the scripts that make the three were cut  *)
(* off and run again (initPool and deployLinearIndex of src/deploy).       *)
PoolsWired ==
  \A p \in PoolProxies :
     LET fields == chain[p].fields
         Owns(index) == "owner" \in DOMAIN chain[index].fields /\ chain[index].fields.owner = p
     IN  /\ fields.depositIndex # fields.borrowIndex
         /\ Owns(fields.depositIndex) /\ Owns(fields.borrowIndex)

(* The state in which a script is about to run for the first time.         *)
BetweenScripts == status = "done" \/ (Running /\ pc = 1 /\ reached = {} /\ ~fresh)

(* Between two scripts the pools the token manager knows are those the     *)
(* records name, so that what later scripts and the front end read from    *)
(* the records is what borrowers use; and the migration file of a pool     *)
(* names the implementation its proxy was given (src/deploy, deployPool    *)
(* and addPoolAssets).                                                     *)
RecordsAgree ==
  BetweenScripts =>
    /\ Known({Manager}) =>
         LET pools == chain[Address(Manager)].fields
         IN  \A asset \in AssetsIn(pools) : Address(chain[pools[asset]].name) = pools[asset]
    /\ \A p \in PoolProxies :
         Address(chain[p].name) = p =>
            Address(ByFactory(chain[chain[p].args.impl].name)) = chain[p].args.impl

(* Outside the scripts that pause it the protocol is not left paused.      *)
NotLeftPaused ==
  (BetweenScripts /\ Known({Diamond}))
     => chain[Address(Diamond)].active
================================================================================
