-------------------------------- MODULE Launch --------------------------------
(***************************************************************************)
(* Going live: the deploy scripts 10_deploy_launch and 09_deploy_hardened, *)
(* which deploy the contracts and wire their roles one transaction at a    *)
(* time, and transfer-admin.ts, which hands the admin role over.  A script *)
(* can die between any two transactions and be run again from the top;     *)
(* hardhat-deploy then reuses what it has on record with the same          *)
(* arguments, and deploys anew what differs.                               *)
(***************************************************************************)
EXTENDS FiniteSets, Sequences, Integers

CONSTANTS
  isTestnet,       \* which network the scripts find themselves on
  MaxDeaths        \* bound of the model: script runs that die half-way

ASSUME LaunchAssumption == isTestnet \in BOOLEAN /\ MaxDeaths \in Nat

VARIABLES
  deployed,        \* contract -> the arguments it is on record with, or Absent
  roles,           \* the roles held on the contracts on record
  strategyVault,   \* YieldStrategy.vault
  running,         \* script under way and the transactions ahead of it
  transfer,        \* transfer-admin.ts: what is ahead of it, and RENOUNCE
  deaths,          \* history: bounds the model
  launched,        \* history: the launch script has run to its end
  handedOver       \* history: the contracts whose admin role the deployer gave up

launchVars == <<deployed, roles, strategyVault, running, transfer, deaths,
                launched, handedOver>>

(***************************************************************************)
(* Contracts, their constructors, and the scripts as the transactions they *)
(* send.                                                                   *)
(***************************************************************************)

Registries == {"NullifierRegistry", "ReputationRegistry"}
Staking == {"InsuranceFundQIE", "YieldStrategyQIE2", "YieldVaultQIE2"}
Lending == {"PriceOracleV2", "LendingPoolV4"}
Controlled == Registries \cup Staking \cup Lending
Contracts == Controlled \cup {"InterestRateModel"}

Absent == "absent"
Variants == {"launch", "hardened"}
Keys == {"deployer", "keeper", "safe", "scorer"}
RoleNames == {"ADMIN", "SCORER", "REVOKER", "REGISTRAR", "UPDATER", "VAULT", "KEEPER",
              "STRATEGY", "DEPOSITOR", "DISBURSER"}
Grants == [on : Controlled, role : RoleNames, to : Keys \cup Contracts]

Grant(contract, role, account) == [on |-> contract, role |-> role, to |-> account]

Has(contract, role, account) == Grant(contract, role, account) \in roles

\* the roles a constructor grants; only the pool's arguments differ
Constructed(contract, variant) ==
  {Grant(contract, "ADMIN", "deployer") : c \in {contract} \cap Controlled} \cup
  CASE contract = "ReputationRegistry" ->
         {Grant(contract, "SCORER", "keeper"), Grant(contract, "REVOKER", "deployer")}
    [] contract = "PriceOracleV2" -> {Grant(contract, "UPDATER", "deployer")}
    [] contract = "YieldStrategyQIE2" ->
         {Grant(contract, "VAULT", "deployer"), Grant(contract, "KEEPER", "keeper")}
    [] contract = "YieldVaultQIE2" ->
         {Grant(contract, "KEEPER", "keeper"), Grant(contract, "STRATEGY", "YieldStrategyQIE2")}
    [] contract = "LendingPoolV4" ->
         {Grant(contract, "KEEPER", IF variant = "launch" THEN "keeper" ELSE "deployer")}
    [] OTHER -> {}

Deploy(contract) == [call |-> "deploy", on |-> contract, role |-> "", to |-> ""]
Get(contract) == [call |-> "get", on |-> contract, role |-> "", to |-> ""]
GrantRole(contract, role, account) ==
  [call |-> "grantRole", on |-> contract, role |-> role, to |-> account]
SetVault == [call |-> "setVault", on |-> "YieldStrategyQIE2", role |-> "", to |-> "YieldVaultQIE2"]
SetDeployRatio == [call |-> "setDeployRatio", on |-> "YieldStrategyQIE2", role |-> "", to |-> ""]

\* oracle, strategy and vault with their wiring, as both scripts have them
StakingCalls ==
  << Deploy("YieldStrategyQIE2"),
     GrantRole("InsuranceFundQIE", "DEPOSITOR", "YieldStrategyQIE2"),
     Deploy("YieldVaultQIE2"),
     GrantRole("YieldStrategyQIE2", "VAULT", "YieldVaultQIE2"),
     SetVault,
     GrantRole("InsuranceFundQIE", "DISBURSER", "YieldVaultQIE2") >>

NoDex == IF isTestnet THEN <<SetDeployRatio>> ELSE <<>>

RegistryCalls ==
  << Deploy("NullifierRegistry"),
     Deploy("ReputationRegistry"),
     GrantRole("NullifierRegistry", "REGISTRAR", "ReputationRegistry") >>

\* mutant: the launch relies on the numbered scripts for the insurance fund
LaunchOnTopOfThem ==
  RegistryCalls \o <<Deploy("InterestRateModel"), Get("InsuranceFundQIE"), Deploy("PriceOracleV2"),
                     GrantRole("PriceOracleV2", "UPDATER", "keeper")>>
  \o StakingCalls \o <<Deploy("LendingPoolV4")>> \o NoDex

LaunchCalls ==
  RegistryCalls
  \o
  << Deploy("InterestRateModel"),
     Deploy("InsuranceFundQIE"),
     Deploy("PriceOracleV2"),
     GrantRole("PriceOracleV2", "UPDATER", "keeper") >>
  \o StakingCalls
  \o <<Deploy("LendingPoolV4")>> \o NoDex

\* 09_deploy_hardened, with PRICE_UPDATER_ADDRESS set to the keeper or not
\* The ReputationRegistry scripts, its dependency, run before it.
HardenedCalls(updater) ==
  RegistryCalls
  \o <<Get("InterestRateModel"), Get("InsuranceFundQIE"), Deploy("PriceOracleV2")>>
  \o (IF updater THEN <<GrantRole("PriceOracleV2", "UPDATER", "keeper")>> ELSE <<>>)
  \o StakingCalls
  \o NoDex \o <<Deploy("LendingPoolV4")>>

(***************************************************************************)
(* The deploy scripts.                                                     *)
(***************************************************************************)

NotRunning == [script |-> "none", ahead |-> <<>>]

Idle == running = NotRunning /\ transfer.step = "none"

\* mutant: a script run again leaves out what concerns a contract on record
WhereItStopped(calls) == SelectSeq(calls, LAMBDA call : deployed[call.on] = Absent)

\* a script run again starts from the top
FromTheTop(calls) == calls

StartLaunch ==
  /\ Idle
  /\ running' = [script |-> "launch", ahead |-> FromTheTop(LaunchCalls)]
  /\ UNCHANGED <<deployed, roles, strategyVault, transfer, deaths, launched, handedOver>>

StartHardened(updater) ==
  /\ Idle
  /\ running' = [script |-> "hardened", ahead |-> FromTheTop(HardenedCalls(updater))]
  /\ UNCHANGED <<deployed, roles, strategyVault, transfer, deaths, launched, handedOver>>

Call == Head(running.ahead)

\* arguments tell two records apart only for the pool
Arguments(contract) == IF contract = "LendingPoolV4" THEN running.script ELSE "launch"

OnRecord(contract) == deployed[contract] = Arguments(contract)

\* deploy: reused when on record, otherwise a new contract takes its place
Deploys ==
  /\ Call.call = "deploy"
  /\ IF OnRecord(Call.on) THEN UNCHANGED <<deployed, roles>>
     ELSE /\ deployed' = [deployed EXCEPT ![Call.on] = Arguments(Call.on)]
          /\ roles' = {g \in roles : g.on # Call.on}
                        \cup Constructed(Call.on, Arguments(Call.on))
  /\ strategyVault' = IF Call.on = "YieldStrategyQIE2" /\ ~OnRecord(Call.on)
                      THEN "deployer" ELSE strategyVault
  /\ handedOver' = IF OnRecord(Call.on) THEN handedOver ELSE handedOver \ {Call.on}

\* get: what is not on record ends the script
Gets ==
  /\ Call.call = "get" /\ deployed[Call.on] # Absent
  /\ UNCHANGED <<deployed, roles, strategyVault, handedOver>>

\* execute: sent whether or not it was sent in an earlier run
Executes ==
  /\ Call.call \in {"grantRole", "setVault", "setDeployRatio"}
  /\ Has(Call.on, "ADMIN", "deployer")
  /\ roles' = CASE Call.call = "grantRole" -> roles \cup {Grant(Call.on, Call.role, Call.to)}
                [] Call.call = "setVault" -> roles \cup {Grant(Call.on, "VAULT", Call.to)}
                [] OTHER -> roles
  /\ strategyVault' = IF Call.call = "setVault" THEN Call.to ELSE strategyVault
  /\ UNCHANGED <<deployed, handedOver>>

\* the next transaction of the script is mined
ScriptStep ==
  /\ running.ahead # <<>>
  /\ Deploys \/ Gets \/ Executes
  /\ running' = [running EXCEPT !.ahead = Tail(@)]
  /\ UNCHANGED <<transfer, deaths, launched>>

ScriptEnds ==
  /\ running # NotRunning /\ running.ahead = <<>>
  /\ running' = NotRunning
  /\ launched' = (launched \/ running.script = "launch")
  /\ UNCHANGED <<deployed, roles, strategyVault, transfer, deaths, handedOver>>

\* a record that is missing, or a transaction the deployer may no longer send,
\* ends the script
ScriptFails ==
  /\ running.ahead # <<>>
  /\ \/ Call.call = "get" /\ deployed[Call.on] = Absent
     \/ Call.call \notin {"deploy", "get"} /\ ~Has(Call.on, "ADMIN", "deployer")
  /\ running' = NotRunning
  /\ UNCHANGED <<deployed, roles, strategyVault, transfer, deaths, launched, handedOver>>

(***************************************************************************)
(* transfer-admin.ts.                                                      *)
(***************************************************************************)

CONTRACTS ==
  <<"ReputationRegistry", "NullifierRegistry", "InsuranceFundQIE", "YieldStrategyQIE2",
    "YieldVaultQIE2", "LendingPoolV4", "PriceOracleV2", "InterestRateModel">>

NoTransfer == [step |-> "none", ahead |-> <<>>, renounce |-> FALSE]

StartTransfer(renounce) ==
  /\ Idle
  /\ transfer' = [step |-> "grant", ahead |-> CONTRACTS, renounce |-> renounce]
  /\ UNCHANGED <<deployed, roles, strategyVault, running, deaths, launched, handedOver>>

Target == Head(transfer.ahead)

\* mutant: the list is not checked for its end
NextInList == [transfer EXCEPT !.step = "grant", !.ahead = Tail(@)]

NextTarget ==
  IF Tail(transfer.ahead) = <<>> THEN NoTransfer
  ELSE [transfer EXCEPT !.step = "grant", !.ahead = Tail(@)]

NewAdmin == Grant(Target, "ADMIN", "safe")

\* mutant: a renouncing run trusts that an earlier run has granted
GrantedUnlessRenouncing == IF transfer.renounce THEN roles ELSE roles \cup {NewAdmin}

Granted == roles \cup {NewAdmin}

Skips ==
  /\ transfer.step = "grant"
  /\ deployed[Target] = Absent
  /\ transfer' = NextTarget
  /\ UNCHANGED <<roles, handedOver>>

\* hasRole, and grantRole unless the new admin has the role already
GrantsAdmin ==
  /\ transfer.step = "grant"
  /\ deployed[Target] # Absent /\ Target \in Controlled
  /\ Has(Target, "ADMIN", "safe") \/ Has(Target, "ADMIN", "deployer")
  /\ roles' = Granted
  /\ transfer' = IF transfer.renounce THEN [transfer EXCEPT !.step = "renounce"] ELSE NextTarget
  /\ UNCHANGED handedOver

Renounces ==
  /\ transfer.step = "renounce"
  /\ roles' = roles \ {Grant(Target, "ADMIN", "deployer")}
  /\ handedOver' = handedOver \cup {Target}
  /\ transfer' = NextTarget

\* hasRole on a contract without access control fails, and so does a grant the
\* deployer may not make: main throws
TransferThrows ==
  /\ transfer.step = "grant"
  /\ deployed[Target] # Absent
  /\ \/ Target \notin Controlled
     \/ ~Has(Target, "ADMIN", "safe") /\ ~Has(Target, "ADMIN", "deployer")
  /\ transfer' = NoTransfer
  /\ UNCHANGED <<roles, handedOver>>

\* grant_scorer.ts, one transaction of its own
GrantScorer ==
  /\ Idle
  /\ deployed["ReputationRegistry"] # Absent /\ Has("ReputationRegistry", "ADMIN", "deployer")
  /\ roles' = roles \cup {Grant("ReputationRegistry", "SCORER", "scorer")}
  /\ UNCHANGED <<deployed, strategyVault, running, transfer, deaths, launched, handedOver>>

TransferStep ==
  /\ Skips \/ GrantsAdmin \/ Renounces \/ TransferThrows
  /\ UNCHANGED <<deployed, strategyVault, running, deaths, launched>>

(***************************************************************************)
(* Everything together.                                                    *)
(***************************************************************************)

\* the process, the RPC node or the operator gives up between two transactions
Dies ==
  /\ ~Idle
  /\ deaths < MaxDeaths /\ deaths' = deaths + 1
  /\ running' = NotRunning /\ transfer' = NoTransfer
  /\ UNCHANGED <<deployed, roles, strategyVault, launched, handedOver>>

Init ==
  /\ deployed = [contract \in Contracts |-> Absent]
  /\ roles = {} /\ strategyVault = "none"
  /\ running = NotRunning /\ transfer = NoTransfer
  /\ deaths = 0
  /\ launched = FALSE /\ handedOver = {}

ScriptNext == ScriptStep \/ ScriptEnds \/ ScriptFails

Next ==
  \/ StartLaunch \/ ScriptNext
  \/ \E updater \in BOOLEAN : StartHardened(updater)
  \/ \E renounce \in BOOLEAN : StartTransfer(renounce)
  \/ TransferStep \/ GrantScorer \/ Dies

\* The operator runs the launch script until it has ended; a script that runs
\* and does not die goes on.
Spec ==
  /\ Init /\ [][Next]_launchVars
  /\ WF_launchVars(ScriptNext) /\ WF_launchVars(TransferStep) /\ SF_launchVars(StartLaunch)

(***************************************************************************)
(* Properties.                                                             *)
(***************************************************************************)

\* Records, roles and scripts have their types, and a hand-over under way has a
\* contract in front of it.
LaunchTypeOK ==
  /\ deployed \in [Contracts -> Variants \cup {Absent}]
  /\ roles \subseteq Grants
  /\ strategyVault \in {"none", "deployer", "YieldVaultQIE2"}
  /\ transfer.step \in {"none", "grant", "renounce"}
  /\ transfer.step # "none" => transfer.ahead # <<>>
  /\ deaths \in 0..MaxDeaths
  /\ launched \in BOOLEAN
  /\ handedOver \subseteq Controlled

Wiring ==
  { Grant("NullifierRegistry", "REGISTRAR", "ReputationRegistry"),
    Grant("ReputationRegistry", "SCORER", "keeper"),
    Grant("PriceOracleV2", "UPDATER", "keeper"),
    Grant("InsuranceFundQIE", "DEPOSITOR", "YieldStrategyQIE2"),
    Grant("InsuranceFundQIE", "DISBURSER", "YieldVaultQIE2"),
    Grant("YieldStrategyQIE2", "VAULT", "YieldVaultQIE2"),
    Grant("YieldVaultQIE2", "STRATEGY", "YieldStrategyQIE2") }

\* When the launch script has ended, however often it died between two
\* transactions and was run again, and whatever the other scripts have done
\* since, every contract is deployed and every role the protocol's calls between
\* contracts need is granted (10_deploy_launch.ts:15-99, idempotent re-runs).
WiredWhenDone ==
  launched =>
    /\ \A contract \in Contracts : deployed[contract] # Absent
    /\ Wiring \subseteq roles
    /\ strategyVault = "YieldVaultQIE2"

Admins(contract) == {key \in Keys : Has(contract, "ADMIN", key)}

\* No interleaving of deploy scripts, hand-over runs and their deaths leaves a
\* contract without an admin, and what the deployer has given up is the Safe's
\* alone until it is deployed anew (transfer-admin.ts:44-64).
AdminIsNeverLost ==
  \A contract \in Controlled :
    /\ deployed[contract] # Absent => Admins(contract) # {}
    /\ contract \in handedOver => Admins(contract) = {"safe"}

\* A launch that dies half-way ends when it is run again, unless the deployer has
\* already given an admin role away: no half-done state is a dead end
\* (10_deploy_launch.ts:28-99).
LaunchFinishes == <>(launched \/ handedOver # {})

=============================================================================
