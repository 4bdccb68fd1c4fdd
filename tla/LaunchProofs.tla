---------------------------- MODULE LaunchProofs ----------------------------
(***************************************************************************)
(* Theorems about the launch, on either network and for any number of runs *)
(* that die half-way.  What a script has still to send stands for all it   *)
(* has done: whatever the launch wires and is not wired yet is ahead of    *)
(* the script under way, and a contract is always deployed ahead of its    *)
(* grants.  Both survive a step, whatever an earlier run left behind.      *)
(***************************************************************************)
EXTENDS Launch, TLAPS

(***************************************************************************)
(* The scripts' calls.                                                     *)
(***************************************************************************)

\* what a script may send: no grant is one of an admin role
Sendable ==
  [call : {"deploy"}, on : Contracts, role : {""}, to : {""}] \cup
  [call : {"get"}, on : Contracts, role : {""}, to : {""}] \cup
  [call : {"grantRole"}, on : Controlled, role : RoleNames \ {"ADMIN"}, to : Keys \cup Contracts]
  \cup {SetVault, SetDeployRatio}

LEMMA CallsSendable ==
  /\ \A c \in Contracts : Deploy(c) \in Sendable /\ Get(c) \in Sendable
  /\ \A c \in Controlled, r \in RoleNames \ {"ADMIN"}, a \in Keys \cup Contracts :
        GrantRole(c, r, a) \in Sendable
  /\ SetVault \in Sendable /\ SetDeployRatio \in Sendable
BY DEF Sendable, Deploy, Get, GrantRole

LEMMA CallParts ==
  /\ \A c : Deploy(c).call = "deploy" /\ Deploy(c).on = c
  /\ \A c, r, a :
        /\ GrantRole(c, r, a).call = "grantRole" /\ GrantRole(c, r, a).on = c
        /\ GrantRole(c, r, a).role = r /\ GrantRole(c, r, a).to = a
  /\ SetVault.call = "setVault" /\ SetVault.on = "YieldStrategyQIE2"
  /\ SetVault.to = "YieldVaultQIE2"
  /\ SetDeployRatio.call = "setDeployRatio" /\ SetDeployRatio.on = "YieldStrategyQIE2"
BY DEF Deploy, GrantRole, SetVault, SetDeployRatio

LEMMA ScriptsSendable ==
  /\ LaunchCalls \in Seq(Sendable)
  /\ \A updater \in BOOLEAN : HardenedCalls(updater) \in Seq(Sendable)
<1> USE CallsSendable DEF Contracts, Controlled, Registries, Staking, Lending, RoleNames, Keys
<1>1. RegistryCalls \in Seq(Sendable)
  BY DEF RegistryCalls
<1>2. StakingCalls \in Seq(Sendable)
  <2>1. /\ Deploy("YieldStrategyQIE2") \in Sendable
        /\ GrantRole("InsuranceFundQIE", "DEPOSITOR", "YieldStrategyQIE2") \in Sendable
        /\ Deploy("YieldVaultQIE2") \in Sendable
        /\ GrantRole("YieldStrategyQIE2", "VAULT", "YieldVaultQIE2") \in Sendable
        /\ SetVault \in Sendable
        /\ GrantRole("InsuranceFundQIE", "DISBURSER", "YieldVaultQIE2") \in Sendable
    OBVIOUS
  <2> QED BY <2>1 DEF StakingCalls
<1>3. NoDex \in Seq(Sendable)
  BY DEF NoDex
<1>4. /\ <<Deploy("InterestRateModel"), Deploy("InsuranceFundQIE"), Deploy("PriceOracleV2"),
           GrantRole("PriceOracleV2", "UPDATER", "keeper")>> \in Seq(Sendable)
      /\ <<Deploy("LendingPoolV4")>> \in Seq(Sendable)
      /\ <<Get("InterestRateModel"), Get("InsuranceFundQIE"), Deploy("PriceOracleV2")>>
            \in Seq(Sendable)
      /\ <<GrantRole("PriceOracleV2", "UPDATER", "keeper")>> \in Seq(Sendable)
      /\ <<>> \in Seq(Sendable)
  OBVIOUS
<1>5. LaunchCalls \in Seq(Sendable)
  BY <1>1, <1>2, <1>3, <1>4 DEF LaunchCalls
<1>6. ASSUME NEW updater \in BOOLEAN PROVE HardenedCalls(updater) \in Seq(Sendable)
  BY <1>1, <1>2, <1>3, <1>4 DEF HardenedCalls
<1> QED BY <1>5, <1>6

\* the launch script, call by call
LEMMA LaunchCallsAre ==
  /\ 14 <= Len(LaunchCalls) /\ Len(LaunchCalls) <= 15 /\ Len(LaunchCalls) \in Nat
  /\ LaunchCalls[1] = Deploy("NullifierRegistry")
  /\ LaunchCalls[2] = Deploy("ReputationRegistry")
  /\ LaunchCalls[3] = GrantRole("NullifierRegistry", "REGISTRAR", "ReputationRegistry")
  /\ LaunchCalls[4] = Deploy("InterestRateModel")
  /\ LaunchCalls[5] = Deploy("InsuranceFundQIE")
  /\ LaunchCalls[6] = Deploy("PriceOracleV2")
  /\ LaunchCalls[7] = GrantRole("PriceOracleV2", "UPDATER", "keeper")
  /\ LaunchCalls[8] = Deploy("YieldStrategyQIE2")
  /\ LaunchCalls[9] = GrantRole("InsuranceFundQIE", "DEPOSITOR", "YieldStrategyQIE2")
  /\ LaunchCalls[10] = Deploy("YieldVaultQIE2")
  /\ LaunchCalls[11] = GrantRole("YieldStrategyQIE2", "VAULT", "YieldVaultQIE2")
  /\ LaunchCalls[12] = SetVault
  /\ LaunchCalls[13] = GrantRole("InsuranceFundQIE", "DISBURSER", "YieldVaultQIE2")
  /\ LaunchCalls[14] = Deploy("LendingPoolV4")
  /\ Len(LaunchCalls) > 14 => LaunchCalls[15] = SetDeployRatio
<1>1. CASE isTestnet
  <2>1. NoDex = <<SetDeployRatio>>
    BY <1>1 DEF NoDex
  <2> QED BY <2>1 DEF LaunchCalls, RegistryCalls, StakingCalls
<1>2. CASE ~isTestnet
  <2>1. NoDex = <<>>
    BY <1>2 DEF NoDex
  <2> QED BY <2>1 DEF LaunchCalls, RegistryCalls, StakingCalls
<1> QED BY <1>1, <1>2

(***************************************************************************)
(* The inductive invariant.                                                *)
(***************************************************************************)

\* call is among those ahead
Told(s, call) == \E i \in 1..Len(s) : s[i] = call

Send(g) == GrantRole(g.on, g.role, g.to)

\* the wiring two constructors do, and the rest, which takes a transaction each
ByConstructor ==
  { Grant("ReputationRegistry", "SCORER", "keeper"),
    Grant("YieldVaultQIE2", "STRATEGY", "YieldStrategyQIE2") }

ByTransaction == Wiring \ ByConstructor

\* deploying a contract anew loses its grants: those of the launch come after it
InOrder(s) ==
  \A i \in 1..Len(s) : s[i].call = "deploy" =>
    /\ \A g \in ByTransaction : g.on = s[i].on =>
          \E j \in (i + 1)..Len(s) : s[j] = Send(g)
    /\ s[i].on = "YieldStrategyQIE2" => \E j \in (i + 1)..Len(s) : s[j] = SetVault

\* what is not done yet is ahead
LeftIsAhead(s) ==
  /\ \A c \in Contracts : deployed[c] = Absent => Told(s, Deploy(c))
  /\ \A g \in ByTransaction : g \in roles \/ Told(s, Send(g))
  /\ strategyVault = "YieldVaultQIE2" \/ Told(s, SetVault)

\* at most one script runs, and never beside a hand-over
RunsOK ==
  /\ running \in [script : {"none"} \cup Variants, ahead : Seq(Sendable)]
  /\ running.script = "none" => running.ahead = <<>>
  /\ transfer \in [step : {"none", "grant", "renounce"}, ahead : Seq(Contracts),
                    renounce : BOOLEAN]
  /\ running = NotRunning \/ transfer.step = "none"

\* a hand-over renounces only what the Safe has been seen to hold
AdminsOK ==
  /\ \A g \in roles : g.role = "ADMIN" => g.to \in {"deployer", "safe"}
  /\ \A c \in Controlled :
        deployed[c] # Absent => Has(c, "ADMIN", "deployer") \/ Has(c, "ADMIN", "safe")
  /\ \A c \in handedOver : Has(c, "ADMIN", "safe") /\ ~Has(c, "ADMIN", "deployer")
  /\ transfer.step = "renounce" => Target \in Controlled /\ Has(Target, "ADMIN", "safe")

WiresOK ==
  /\ \A c \in Contracts \ {"LendingPoolV4"} : deployed[c] # "hardened"
  /\ \A g \in ByConstructor : deployed[g.on] # Absent => g \in roles
  /\ WiredWhenDone
  /\ running.script = "launch" => InOrder(running.ahead) /\ LeftIsAhead(running.ahead)

LaunchInv == LaunchTypeOK /\ RunsOK /\ AdminsOK /\ WiresOK

LEMMA FiveByTransaction ==
  ByTransaction =
    { Grant("NullifierRegistry", "REGISTRAR", "ReputationRegistry"),
      Grant("PriceOracleV2", "UPDATER", "keeper"),
      Grant("InsuranceFundQIE", "DEPOSITOR", "YieldStrategyQIE2"),
      Grant("InsuranceFundQIE", "DISBURSER", "YieldVaultQIE2"),
      Grant("YieldStrategyQIE2", "VAULT", "YieldVaultQIE2") }
BY DEF ByTransaction, ByConstructor, Wiring, Grant

LEMMA LaunchInOrder == InOrder(LaunchCalls)
<1> SUFFICES ASSUME NEW i \in 1..Len(LaunchCalls), LaunchCalls[i].call = "deploy"
             PROVE  /\ \A g \in ByTransaction : g.on = LaunchCalls[i].on =>
                          \E j \in (i + 1)..Len(LaunchCalls) : LaunchCalls[j] = Send(g)
                    /\ LaunchCalls[i].on = "YieldStrategyQIE2" =>
                          \E j \in (i + 1)..Len(LaunchCalls) : LaunchCalls[j] = SetVault
  BY DEF InOrder
<1>1. i \in 1..14
  <2>1. ASSUME i = 15 PROVE FALSE
    <3>1. LaunchCalls[15] = SetDeployRatio
      BY <2>1, LaunchCallsAre
    <3> QED BY <2>1, <3>1, CallParts
  <2> QED BY <2>1, LaunchCallsAre
<1>2. /\ LaunchCalls[i].on = "NullifierRegistry" => i < 3
      /\ LaunchCalls[i].on = "PriceOracleV2" => i < 7
      /\ LaunchCalls[i].on = "InsuranceFundQIE" => i < 9
      /\ LaunchCalls[i].on = "YieldStrategyQIE2" => i < 11
  <2>1. /\ LaunchCalls[3].call = "grantRole" /\ LaunchCalls[7].call = "grantRole"
        /\ LaunchCalls[9].call = "grantRole" /\ LaunchCalls[11].call = "grantRole"
        /\ LaunchCalls[13].call = "grantRole" /\ LaunchCalls[12].call = "setVault"
    BY LaunchCallsAre, CallParts
  <2>2. LaunchCalls[10].on = "YieldVaultQIE2" /\ LaunchCalls[14].on = "LendingPoolV4"
    BY LaunchCallsAre, CallParts
  <2>3. /\ LaunchCalls[4].on = "InterestRateModel" /\ LaunchCalls[5].on = "InsuranceFundQIE"
        /\ LaunchCalls[6].on = "PriceOracleV2" /\ LaunchCalls[8].on = "YieldStrategyQIE2"
    BY LaunchCallsAre, CallParts
  <2>a. i # 3 /\ i # 7 /\ i # 9 /\ i # 11 /\ i # 12 /\ i # 13
    BY <2>1
  <2>4. i \in {1, 2, 4, 5, 6, 8, 10, 14}
    BY ONLY <1>1, <2>a
  <2> QED BY <2>2, <2>3, <2>4
<1>3. /\ Send(Grant("NullifierRegistry", "REGISTRAR", "ReputationRegistry")) = LaunchCalls[3]
      /\ Send(Grant("PriceOracleV2", "UPDATER", "keeper")) = LaunchCalls[7]
      /\ Send(Grant("InsuranceFundQIE", "DEPOSITOR", "YieldStrategyQIE2")) = LaunchCalls[9]
      /\ Send(Grant("InsuranceFundQIE", "DISBURSER", "YieldVaultQIE2")) = LaunchCalls[13]
      /\ Send(Grant("YieldStrategyQIE2", "VAULT", "YieldVaultQIE2")) = LaunchCalls[11]
  BY LaunchCallsAre DEF Send, Grant
<1>4. Len(LaunchCalls) >= 14
  BY LaunchCallsAre
<1>5. ASSUME NEW g \in ByTransaction, g.on = LaunchCalls[i].on
      PROVE  \E j \in (i + 1)..Len(LaunchCalls) : LaunchCalls[j] = Send(g)
  <2>1. CASE g = Grant("NullifierRegistry", "REGISTRAR", "ReputationRegistry")
    <3>1. i < 3 BY <2>1, <1>5, <1>2 DEF Grant
    <3> QED BY <3>1, <2>1, <1>1, <1>3, <1>4
  <2>2. CASE g = Grant("PriceOracleV2", "UPDATER", "keeper")
    <3>1. i < 7 BY <2>2, <1>5, <1>2 DEF Grant
    <3> QED BY <3>1, <2>2, <1>1, <1>3, <1>4
  <2>3. CASE g = Grant("InsuranceFundQIE", "DEPOSITOR", "YieldStrategyQIE2")
    <3>1. i < 9 BY <2>3, <1>5, <1>2 DEF Grant
    <3> QED BY <3>1, <2>3, <1>1, <1>3, <1>4
  <2>4. CASE g = Grant("InsuranceFundQIE", "DISBURSER", "YieldVaultQIE2")
    <3>1. i < 9 BY <2>4, <1>5, <1>2 DEF Grant
    <3> QED BY <3>1, <2>4, <1>1, <1>3, <1>4
  <2>5. CASE g = Grant("YieldStrategyQIE2", "VAULT", "YieldVaultQIE2")
    <3>1. i < 11 BY <2>5, <1>5, <1>2 DEF Grant
    <3> QED BY <3>1, <2>5, <1>1, <1>3, <1>4
  <2> QED BY <2>1, <2>2, <2>3, <2>4, <2>5, FiveByTransaction
<1>6. ASSUME LaunchCalls[i].on = "YieldStrategyQIE2"
      PROVE  \E j \in (i + 1)..Len(LaunchCalls) : LaunchCalls[j] = SetVault
  <2>1. i < 11 /\ LaunchCalls[12] = SetVault
    BY <1>6, <1>2, LaunchCallsAre
  <2> QED BY <2>1, <1>1, <1>4
<1> QED BY <1>5, <1>6

LEMMA LaunchTellsAll == LeftIsAhead(LaunchCalls)
<1>1. 1..14 \subseteq 1..Len(LaunchCalls)
  BY LaunchCallsAre
<1>2. ASSUME NEW c \in Contracts PROVE Told(LaunchCalls, Deploy(c))
  <2>1. \A i \in 1..14 : Told(LaunchCalls, LaunchCalls[i])
    BY <1>1 DEF Told
  <2>2. /\ LaunchCalls[1] = Deploy("NullifierRegistry")
        /\ LaunchCalls[2] = Deploy("ReputationRegistry")
        /\ LaunchCalls[4] = Deploy("InterestRateModel")
        /\ LaunchCalls[5] = Deploy("InsuranceFundQIE")
        /\ LaunchCalls[6] = Deploy("PriceOracleV2")
        /\ LaunchCalls[8] = Deploy("YieldStrategyQIE2")
        /\ LaunchCalls[10] = Deploy("YieldVaultQIE2")
        /\ LaunchCalls[14] = Deploy("LendingPoolV4")
    BY LaunchCallsAre
  <2>3. /\ Told(LaunchCalls, LaunchCalls[1])
        /\ Told(LaunchCalls, LaunchCalls[2])
        /\ Told(LaunchCalls, LaunchCalls[4])
        /\ Told(LaunchCalls, LaunchCalls[5])
        /\ Told(LaunchCalls, LaunchCalls[6])
        /\ Told(LaunchCalls, LaunchCalls[8])
        /\ Told(LaunchCalls, LaunchCalls[10])
        /\ Told(LaunchCalls, LaunchCalls[14])
    BY <2>1
  <2>4. \/ c \in {"NullifierRegistry", "ReputationRegistry", "InterestRateModel",
                  "InsuranceFundQIE"}
        \/ c \in {"PriceOracleV2", "YieldStrategyQIE2", "YieldVaultQIE2", "LendingPoolV4"}
    BY DEF Contracts, Controlled, Lending, Staking, Registries
  <2> HIDE DEF Told, Deploy
  <2>5. /\ Told(LaunchCalls, Deploy("NullifierRegistry"))
        /\ Told(LaunchCalls, Deploy("ReputationRegistry"))
        /\ Told(LaunchCalls, Deploy("InterestRateModel"))
        /\ Told(LaunchCalls, Deploy("InsuranceFundQIE"))
    BY ONLY <2>2, <2>3
  <2>6. /\ Told(LaunchCalls, Deploy("PriceOracleV2"))
        /\ Told(LaunchCalls, Deploy("YieldStrategyQIE2"))
        /\ Told(LaunchCalls, Deploy("YieldVaultQIE2"))
        /\ Told(LaunchCalls, Deploy("LendingPoolV4"))
    BY ONLY <2>2, <2>3
  <2>7. CASE c \in {"NullifierRegistry", "ReputationRegistry", "InterestRateModel",
                    "InsuranceFundQIE"}
    BY ONLY <2>5, <2>7
  <2>8. CASE c \in {"PriceOracleV2", "YieldStrategyQIE2", "YieldVaultQIE2", "LendingPoolV4"}
    BY ONLY <2>6, <2>8
  <2> QED BY ONLY <2>4, <2>7, <2>8
<1>3. ASSUME NEW g \in ByTransaction PROVE Told(LaunchCalls, Send(g))
  <2>1. /\ Send(Grant("NullifierRegistry", "REGISTRAR", "ReputationRegistry")) = LaunchCalls[3]
        /\ Send(Grant("PriceOracleV2", "UPDATER", "keeper")) = LaunchCalls[7]
        /\ Send(Grant("InsuranceFundQIE", "DEPOSITOR", "YieldStrategyQIE2")) = LaunchCalls[9]
        /\ Send(Grant("InsuranceFundQIE", "DISBURSER", "YieldVaultQIE2")) = LaunchCalls[13]
        /\ Send(Grant("YieldStrategyQIE2", "VAULT", "YieldVaultQIE2")) = LaunchCalls[11]
    BY LaunchCallsAre DEF Send, Grant
  <2> HIDE DEF Send, Grant
  <2>2. Send(g) \in {LaunchCalls[3], LaunchCalls[7], LaunchCalls[9], LaunchCalls[11],
                     LaunchCalls[13]}
    BY ONLY <2>1, FiveByTransaction
  <2>3. \A i \in {3, 7, 9, 11, 13} : i \in 1..Len(LaunchCalls)
    BY <1>1
  <2>. QED
    BY <2>2, <2>3 DEF Told
<1>4. Told(LaunchCalls, SetVault)
  BY <1>1, LaunchCallsAre DEF Told
<1> QED BY <1>2, <1>3, <1>4 DEF LeftIsAhead

(***************************************************************************)
(* Scripts and their tails.                                                *)
(***************************************************************************)

LEMMA HeadAndTail ==
  ASSUME NEW S, NEW s \in Seq(S), s # <<>>
  PROVE  /\ Head(s) \in S /\ Tail(s) \in Seq(S)
         /\ Len(s) \in Nat \ {0} /\ Len(Tail(s)) = Len(s) - 1
         /\ Head(s) = s[1]
         /\ \A i \in 1..Len(Tail(s)) : Tail(s)[i] = s[i + 1]
OBVIOUS

LEMMA TailInOrder ==
  ASSUME NEW S, NEW s \in Seq(S), s # <<>>, InOrder(s)
  PROVE  InOrder(Tail(s))
<1> SUFFICES ASSUME NEW i \in 1..Len(Tail(s)), Tail(s)[i].call = "deploy"
             PROVE  /\ \A g \in ByTransaction : g.on = Tail(s)[i].on =>
                          \E j \in (i + 1)..Len(Tail(s)) : Tail(s)[j] = Send(g)
                    /\ Tail(s)[i].on = "YieldStrategyQIE2" =>
                          \E j \in (i + 1)..Len(Tail(s)) : Tail(s)[j] = SetVault
  BY DEF InOrder
<1>1. i + 1 \in 1..Len(s) /\ Tail(s)[i] = s[i + 1]
  BY HeadAndTail
<1>2. ASSUME NEW call, NEW j \in (i + 1 + 1)..Len(s), s[j] = call
      PROVE  \E m \in (i + 1)..Len(Tail(s)) : Tail(s)[m] = call
  <2>1. j - 1 \in (i + 1)..Len(Tail(s)) /\ j - 1 \in 1..Len(Tail(s))
    BY <1>1, HeadAndTail
  <2>2. Tail(s)[j - 1] = s[j - 1 + 1]
    BY <2>1, HeadAndTail
  <2>3. j - 1 + 1 = j
    BY <1>1, HeadAndTail
  <2> QED BY <2>1, <2>2, <2>3, <1>2
<1>3. ASSUME NEW g \in ByTransaction, g.on = Tail(s)[i].on
      PROVE  \E j \in (i + 1)..Len(Tail(s)) : Tail(s)[j] = Send(g)
  <2>1. PICK j \in (i + 1 + 1)..Len(s) : s[j] = Send(g)
    BY <1>1, <1>3 DEF InOrder
  <2> QED BY <2>1, <1>2
<1>4. ASSUME Tail(s)[i].on = "YieldStrategyQIE2"
      PROVE  \E j \in (i + 1)..Len(Tail(s)) : Tail(s)[j] = SetVault
  <2>1. PICK j \in (i + 1 + 1)..Len(s) : s[j] = SetVault
    BY <1>1, <1>4 DEF InOrder
  <2> QED BY <2>1, <1>2
<1> QED BY <1>3, <1>4

\* what is ahead is the next call or ahead of the tail
LEMMA ToldByTail ==
  ASSUME NEW S, NEW s \in Seq(S), s # <<>>, NEW call, Told(s, call), call # Head(s)
  PROVE  Told(Tail(s), call)
<1>1. PICK i \in 1..Len(s) : s[i] = call
  BY DEF Told
<1>2. i # 1
  BY <1>1, HeadAndTail
<1>3. i - 1 \in 1..Len(Tail(s))
  BY <1>2, HeadAndTail
<1>4. Tail(s)[i - 1] = s[i - 1 + 1] /\ i - 1 + 1 = i
  BY <1>3, HeadAndTail
<1> QED BY <1>1, <1>3, <1>4 DEF Told

LEMMA OrderTold ==
  ASSUME NEW S, NEW s \in Seq(S), s # <<>>, InOrder(s), Head(s).call = "deploy"
  PROVE  /\ \A g \in ByTransaction : g.on = Head(s).on => Told(Tail(s), Send(g))
         /\ Head(s).on = "YieldStrategyQIE2" => Told(Tail(s), SetVault)
<1>1. 1 \in 1..Len(s) /\ Head(s) = s[1]
  BY HeadAndTail
<1>2. ASSUME NEW call, NEW j \in (1 + 1)..Len(s), s[j] = call
      PROVE  Told(Tail(s), call)
  <2>1. j - 1 \in 1..Len(Tail(s))
    BY HeadAndTail
  <2>2. Tail(s)[j - 1] = s[j - 1 + 1] /\ j - 1 + 1 = j
    BY <2>1, HeadAndTail
  <2> QED BY <2>1, <2>2, <1>2 DEF Told
<1>3. ASSUME NEW g \in ByTransaction, g.on = Head(s).on
      PROVE  Told(Tail(s), Send(g))
  <2>1. PICK j \in (1 + 1)..Len(s) : s[j] = Send(g)
    BY <1>1, <1>3 DEF InOrder
  <2> QED BY <2>1, <1>2
<1>4. ASSUME Head(s).on = "YieldStrategyQIE2"
      PROVE  Told(Tail(s), SetVault)
  <2>1. PICK j \in (1 + 1)..Len(s) : s[j] = SetVault
    BY <1>1, <1>4 DEF InOrder
  <2> QED BY <2>1, <1>2
<1> QED BY <1>3, <1>4

LEMMA KindsOfCall ==
  ASSUME NEW c \in Sendable
  PROVE  /\ c.call = "deploy" => c.on \in Contracts /\ c = Deploy(c.on)
         /\ c.call = "get" => c.on \in Contracts /\ c = Get(c.on)
         /\ c.call = "grantRole" =>
              /\ c.on \in Controlled /\ c.role \in RoleNames \ {"ADMIN"}
              /\ c.to \in Keys \cup Contracts /\ c = GrantRole(c.on, c.role, c.to)
         /\ c.call = "setVault" => c = SetVault
         /\ c.on \in Contracts
         /\ c.call \in {"grantRole", "setVault", "setDeployRatio"} => c.on \in Controlled
<1>1. CASE c \in [call : {"deploy"}, on : Contracts, role : {""}, to : {""}]
  BY <1>1 DEF Deploy
<1>2. CASE c \in [call : {"get"}, on : Contracts, role : {""}, to : {""}]
  BY <1>2 DEF Get
<1>3. CASE c \in [call : {"grantRole"}, on : Controlled, role : RoleNames \ {"ADMIN"},
                 to : Keys \cup Contracts]
  <2>1. Controlled \subseteq Contracts
    BY DEF Contracts
  <2> QED BY <1>3, <2>1 DEF GrantRole
<1>4. CASE c = SetVault \/ c = SetDeployRatio
  BY <1>4, CallParts DEF Contracts, Controlled, Staking
<1> QED BY <1>1, <1>2, <1>3, <1>4 DEF Sendable

LEMMA AheadOfScript ==
  ASSUME RunsOK, running.ahead # <<>>
  PROVE  /\ Call \in Sendable /\ Tail(running.ahead) \in Seq(Sendable)
         /\ running.script \in Variants /\ transfer.step = "none"
         /\ running # NotRunning
BY HeadAndTail DEF RunsOK, Call, NotRunning, Variants

LEMMA AheadOfTransfer ==
  ASSUME RunsOK, LaunchTypeOK, transfer.step # "none"
  PROVE  /\ Target \in Contracts /\ Tail(transfer.ahead) \in Seq(Contracts)
         /\ running = NotRunning
BY HeadAndTail DEF RunsOK, LaunchTypeOK, Target

LEMMA ConstructedOK ==
  ASSUME NEW c \in Contracts, NEW v \in Variants
  PROVE  /\ Constructed(c, v) \subseteq Grants
         /\ \A g \in Constructed(c, v) : g.on = c /\ (g.role = "ADMIN" => g.to = "deployer")
         /\ c \in Controlled => Grant(c, "ADMIN", "deployer") \in Constructed(c, v)
         /\ \A g \in ByConstructor : g.on = c => g \in Constructed(c, v)
<1> USE DEF Contracts, Controlled, Registries, Staking, Lending, Keys, RoleNames, Grants, Grant
<1>1. CASE c = "ReputationRegistry"
  BY <1>1 DEF Constructed, ByConstructor
<1>2. CASE c = "PriceOracleV2"
  BY <1>2 DEF Constructed, ByConstructor
<1>3. CASE c = "YieldStrategyQIE2"
  BY <1>3 DEF Constructed, ByConstructor
<1>4. CASE c = "YieldVaultQIE2"
  BY <1>4 DEF Constructed, ByConstructor
<1>5. CASE c = "LendingPoolV4"
  <2>1. CASE v = "launch"
    BY <1>5, <2>1 DEF Constructed, ByConstructor
  <2>2. CASE v # "launch"
    BY <1>5, <2>2 DEF Constructed, ByConstructor
  <2> QED BY <2>1, <2>2
<1>6. CASE c \in {"NullifierRegistry", "InsuranceFundQIE", "InterestRateModel"}
  <2>1. Constructed(c, v) = {Grant(c, "ADMIN", "deployer") : d \in {c} \cap Controlled}
    BY <1>6 DEF Constructed
  <2>2. \A g \in ByConstructor : g.on # c
    BY <1>6 DEF ByConstructor
  <2>3. c \in Controlled => Grant(c, "ADMIN", "deployer") \in Grants
    OBVIOUS
  <2>4. Grant(c, "ADMIN", "deployer").on = c /\ Grant(c, "ADMIN", "deployer").to = "deployer"
    OBVIOUS
  <2> HIDE DEF Contracts, Controlled, Registries, Staking, Lending, Keys, RoleNames, Grants, Grant
  <2> QED BY <2>1, <2>2, <2>3, <2>4
<1>7. \/ c \in {"ReputationRegistry", "PriceOracleV2", "YieldStrategyQIE2", "YieldVaultQIE2"}
      \/ c \in {"LendingPoolV4", "NullifierRegistry", "InsuranceFundQIE", "InterestRateModel"}
  OBVIOUS
<1> HIDE DEF Contracts, Controlled, Registries, Staking, Lending, Keys, RoleNames, Grants, Grant
<1> QED BY <1>1, <1>2, <1>3, <1>4, <1>5, <1>6, <1>7

LEMMA InitHolds == Init => LaunchInv
<1> SUFFICES ASSUME Init PROVE LaunchInv
  OBVIOUS
<1> USE LaunchAssumption DEF Init
<1>1. LaunchTypeOK
  <2>1. transfer.step = "none"
    BY DEF NoTransfer
  <2>2. deaths \in 0..MaxDeaths
    OBVIOUS
  <2>3. deployed \in [Contracts -> Variants \cup {Absent}]
    OBVIOUS
  <2> QED BY <2>1, <2>2, <2>3 DEF LaunchTypeOK
<1>2. RunsOK
  BY DEF RunsOK, NotRunning, NoTransfer
<1>3. AdminsOK
  BY DEF AdminsOK, NoTransfer, Contracts, Absent
<1>4. WiresOK
  <2>1. \A g \in ByConstructor : g.on \in Contracts
    BY DEF ByConstructor, Grant, Contracts, Controlled, Registries, Staking
  <2> QED BY <2>1 DEF WiresOK, WiredWhenDone, NotRunning, Absent
<1> QED BY <1>1, <1>2, <1>3, <1>4 DEF LaunchInv

(***************************************************************************)
(* The steps.                                                              *)
(***************************************************************************)

LEMMA GrantParts ==
  \A c, r, a :
    Grant(c, r, a).on = c /\ Grant(c, r, a).role = r /\ Grant(c, r, a).to = a
BY DEF Grant

\* a step that leaves records and roles alone and runs no launch script
LEMMA WiresUntouched ==
  ASSUME WiresOK, UNCHANGED <<deployed, roles, strategyVault, launched>>,
         running'.script = "launch" => InOrder(running'.ahead) /\ LeftIsAhead(running'.ahead)
  PROVE  WiresOK'
<1>1. WiredWhenDone'
  BY DEF WiresOK, WiredWhenDone
<1>2. running'.script = "launch" => InOrder(running.ahead)' /\ LeftIsAhead(running.ahead)'
  BY DEF LeftIsAhead
<1> QED BY <1>1, <1>2 DEF WiresOK

LEMMA StartLaunchStep == LaunchInv /\ StartLaunch => LaunchInv'
<1> SUFFICES ASSUME LaunchInv, StartLaunch PROVE LaunchInv'
  OBVIOUS
<1> USE DEF LaunchInv
<1>0. running' = [script |-> "launch", ahead |-> LaunchCalls]
  BY DEF StartLaunch, FromTheTop
<1>1. LaunchTypeOK'
  BY DEF LaunchTypeOK, StartLaunch
<1>2. RunsOK'
  BY <1>0, ScriptsSendable DEF RunsOK, StartLaunch, Idle, Variants
<1>3. AdminsOK'
  BY DEF AdminsOK, StartLaunch, Has, Target
<1>4. WiresOK'
  <2>1. UNCHANGED <<deployed, roles, strategyVault, launched>>
    BY DEF StartLaunch
  <2>2. running'.ahead = LaunchCalls
    BY <1>0
  <2> QED BY <2>1, <2>2, LaunchInOrder, LaunchTellsAll, WiresUntouched
<1> QED BY <1>1, <1>2, <1>3, <1>4

LEMMA StartHardenedStep ==
  ASSUME NEW updater \in BOOLEAN PROVE LaunchInv /\ StartHardened(updater) => LaunchInv'
<1> SUFFICES ASSUME LaunchInv, StartHardened(updater) PROVE LaunchInv'
  OBVIOUS
<1> USE DEF LaunchInv
<1>0. running' = [script |-> "hardened", ahead |-> HardenedCalls(updater)]
  BY DEF StartHardened, FromTheTop
<1>1. LaunchTypeOK'
  BY DEF LaunchTypeOK, StartHardened
<1>2. RunsOK'
  BY <1>0, ScriptsSendable DEF RunsOK, StartHardened, Idle, Variants
<1>3. AdminsOK'
  BY DEF AdminsOK, StartHardened, Has, Target
<1>4. WiresOK'
  <2>1. UNCHANGED <<deployed, roles, strategyVault, launched>>
    BY DEF StartHardened
  <2>2. running'.script # "launch"
    BY <1>0
  <2> QED BY <2>1, <2>2, WiresUntouched
<1> QED BY <1>1, <1>2, <1>3, <1>4

LEMMA StartTransferStep ==
  ASSUME NEW renounce \in BOOLEAN PROVE LaunchInv /\ StartTransfer(renounce) => LaunchInv'
<1> SUFFICES ASSUME LaunchInv, StartTransfer(renounce) PROVE LaunchInv'
  OBVIOUS
<1> USE DEF LaunchInv
<1>0. transfer' = [step |-> "grant", ahead |-> CONTRACTS, renounce |-> renounce]
  BY DEF StartTransfer
<1>1. CONTRACTS \in Seq(Contracts) /\ CONTRACTS # <<>>
  BY DEF CONTRACTS, Contracts, Controlled, Registries, Staking, Lending
<1>2. LaunchTypeOK'
  BY <1>0, <1>1 DEF LaunchTypeOK, StartTransfer
<1>3. RunsOK'
  BY <1>0, <1>1 DEF RunsOK, StartTransfer, Idle
<1>4. AdminsOK'
  BY <1>0 DEF AdminsOK, StartTransfer, Has
<1>5. WiresOK'
  <2>1. UNCHANGED <<deployed, roles, strategyVault, launched, running>>
    BY DEF StartTransfer
  <2> QED BY <2>1, WiresUntouched DEF WiresOK
<1> QED BY <1>2, <1>3, <1>4, <1>5

\* nothing runs any more, and nothing on the chain has changed
LEMMA StopStep ==
  ASSUME LaunchInv, running' = NotRunning, transfer' = NoTransfer, deaths' \in 0..MaxDeaths,
         UNCHANGED <<deployed, roles, strategyVault, launched, handedOver>>
  PROVE  LaunchInv'
<1> USE DEF LaunchInv
<1>1. running'.script = "none" /\ running'.ahead = <<>> /\ transfer'.step = "none"
  BY DEF NotRunning, NoTransfer
<1>2. LaunchTypeOK'
  BY <1>1 DEF LaunchTypeOK
<1>3. RunsOK'
  BY DEF RunsOK, NotRunning, NoTransfer
<1>4. AdminsOK'
  BY <1>1 DEF AdminsOK, Has
<1>5. WiresOK'
  BY <1>1, WiresUntouched
<1> QED BY <1>2, <1>3, <1>4, <1>5

LEMMA DiesStep == LaunchInv /\ Dies => LaunchInv'
<1> SUFFICES ASSUME LaunchInv, Dies PROVE LaunchInv'
  OBVIOUS
<1>1. deaths' \in 0..MaxDeaths
  BY LaunchAssumption DEF LaunchInv, LaunchTypeOK, Dies
<1> QED BY <1>1, StopStep DEF Dies

LEMMA ScriptFailsStep == LaunchInv /\ ScriptFails => LaunchInv'
<1> SUFFICES ASSUME LaunchInv, ScriptFails PROVE LaunchInv'
  OBVIOUS
<1> USE DEF LaunchInv
<1>0. running'.script = "none" /\ transfer.step = "none"
  BY AheadOfScript DEF ScriptFails, NotRunning
<1>1. LaunchTypeOK'
  BY <1>0 DEF LaunchTypeOK, ScriptFails
<1>2. RunsOK'
  BY <1>0 DEF RunsOK, NotRunning, ScriptFails
<1>3. AdminsOK'
  BY <1>0 DEF AdminsOK, Has, ScriptFails
<1>4. WiresOK'
  BY <1>0, WiresUntouched DEF ScriptFails
<1> QED BY <1>1, <1>2, <1>3, <1>4

LEMMA ScriptEndsStep == LaunchInv /\ ScriptEnds => LaunchInv'
<1> SUFFICES ASSUME LaunchInv, ScriptEnds PROVE LaunchInv'
  OBVIOUS
<1> USE DEF LaunchInv
<1>0. running'.script = "none" /\ transfer.step = "none"
  BY DEF ScriptEnds, NotRunning, RunsOK
<1>1. LaunchTypeOK'
  BY <1>0 DEF LaunchTypeOK, ScriptEnds
<1>2. RunsOK'
  BY <1>0 DEF RunsOK, NotRunning, ScriptEnds
<1>3. AdminsOK'
  BY <1>0 DEF AdminsOK, Has, ScriptEnds
<1>4. WiresOK'
  <2>1. ASSUME running.script = "launch"
        PROVE  /\ \A contract \in Contracts : deployed[contract] # Absent
               /\ Wiring \subseteq roles
               /\ strategyVault = "YieldVaultQIE2"
    <3>1. \A call : ~Told(running.ahead, call)
      BY DEF ScriptEnds, Told
    <3>2. LeftIsAhead(running.ahead)
      BY <2>1 DEF WiresOK
    <3>3. \A contract \in Contracts : deployed[contract] # Absent
      BY <3>1, <3>2 DEF LeftIsAhead
    <3>4. strategyVault = "YieldVaultQIE2" /\ ByTransaction \subseteq roles
      BY <3>1, <3>2 DEF LeftIsAhead
    <3>5. ByConstructor \subseteq roles
      <4>1. \A g \in ByConstructor : g.on \in Contracts
        BY DEF ByConstructor, Grant, Contracts, Controlled, Registries, Staking
      <4> QED BY <4>1, <3>3 DEF WiresOK
    <3> QED BY <3>3, <3>4, <3>5 DEF ByTransaction
  <2>2. WiredWhenDone'
    BY <2>1 DEF WiresOK, WiredWhenDone, ScriptEnds
  <2> QED BY <1>0, <2>2 DEF WiresOK, ScriptEnds
<1> QED BY <1>1, <1>2, <1>3, <1>4

LEMMA NextCall ==
  ASSUME LaunchInv, ScriptStep
  PROVE  /\ running'.script = running.script /\ running'.ahead = Tail(running.ahead)
         /\ running' \in [script : {"none"} \cup Variants, ahead : Seq(Sendable)]
         /\ running.ahead \in Seq(Sendable) /\ running.ahead # <<>>
         /\ Call \in Sendable /\ Call = Head(running.ahead)
         /\ running.script \in Variants /\ transfer.step = "none"
         /\ UNCHANGED <<transfer, deaths, launched>>
BY AheadOfScript DEF LaunchInv, RunsOK, ScriptStep, Call

LEMMA ScriptStepRuns == LaunchInv /\ ScriptStep => RunsOK'
<1> SUFFICES ASSUME LaunchInv, ScriptStep PROVE RunsOK'
  OBVIOUS
<1>1. running'.script # "none"
  BY NextCall DEF Variants
<1> QED BY <1>1, NextCall DEF LaunchInv, RunsOK

\* a call that finds everything on record, or is none of the launch's wiring
LEMMA QuietStep ==
  ASSUME LaunchInv, ScriptStep, UNCHANGED <<deployed, roles, strategyVault, handedOver>>,
         Call.call = "deploy" => deployed[Call.on] # Absent,
         Call.call \notin {"grantRole", "setVault"}
  PROVE  LaunchInv'
<1> USE DEF LaunchInv
<1>1. LaunchTypeOK'
  BY NextCall DEF LaunchTypeOK
<1>2. RunsOK'
  BY ScriptStepRuns
<1>3. AdminsOK'
  BY NextCall DEF AdminsOK, Has
<1>4. ASSUME running.script = "launch"
      PROVE  InOrder(Tail(running.ahead)) /\ LeftIsAhead(Tail(running.ahead))
  <2>1. InOrder(running.ahead) /\ LeftIsAhead(running.ahead)
    BY <1>4 DEF WiresOK
  <2>2. InOrder(Tail(running.ahead))
    BY <2>1, NextCall, TailInOrder
  <2>3. ASSUME NEW c \in Contracts, deployed[c] = Absent
        PROVE  Told(Tail(running.ahead), Deploy(c))
    <3>1. Deploy(c) # Call
      BY <2>3, CallParts
    <3> QED BY <2>1, <2>3, <3>1, NextCall, ToldByTail DEF LeftIsAhead
  <2>4. ASSUME NEW g \in ByTransaction, g \notin roles
        PROVE  Told(Tail(running.ahead), Send(g))
    <3>1. Send(g) # Call
      BY CallParts DEF Send
    <3> QED BY <2>1, <2>4, <3>1, NextCall, ToldByTail DEF LeftIsAhead
  <2>5. ASSUME strategyVault # "YieldVaultQIE2"
        PROVE  Told(Tail(running.ahead), SetVault)
    <3>1. SetVault # Call
      BY CallParts
    <3> QED BY <2>1, <2>5, <3>1, NextCall, ToldByTail DEF LeftIsAhead
  <2> QED BY <2>2, <2>3, <2>4, <2>5 DEF LeftIsAhead
<1>5. WiresOK'
  BY <1>4, NextCall, WiresUntouched
<1> QED BY <1>1, <1>2, <1>3, <1>5

\* a contract deployed anew has its constructor's roles and no others
LEMMA DeployStep ==
  ASSUME LaunchInv, ScriptStep, Call.call = "deploy", Deploys, ~OnRecord(Call.on)
  PROVE  LaunchInv'
<1> DEFINE c == Call.on
           v == Arguments(Call.on)
<1> USE DEF LaunchInv
<1>0. c \in Contracts /\ v \in Variants /\ Call = Deploy(c) /\ deployed[c] # v
  BY NextCall, KindsOfCall DEF Arguments, OnRecord, Variants
<1>1. /\ deployed' = [deployed EXCEPT ![c] = v]
      /\ roles' = {g \in roles : g.on # c} \cup Constructed(c, v)
      /\ strategyVault' = IF c = "YieldStrategyQIE2" THEN "deployer" ELSE strategyVault
      /\ handedOver' = handedOver \ {c}
  BY DEF Deploys
<1>2. v # Absent /\ (c # "LendingPoolV4" => v = "launch")
  BY <1>0 DEF Arguments, Variants, Absent
<1>3. deployed \in [Contracts -> Variants \cup {Absent}]
  BY DEF LaunchTypeOK
<1>4. /\ Constructed(c, v) \subseteq Grants
      /\ \A g \in Constructed(c, v) : g.on = c /\ (g.role = "ADMIN" => g.to = "deployer")
      /\ c \in Controlled => Grant(c, "ADMIN", "deployer") \in Constructed(c, v)
      /\ \A g \in ByConstructor : g.on = c => g \in Constructed(c, v)
  BY <1>0, ConstructedOK
<1> HIDE DEF c, v
<1>5. LaunchTypeOK'
  <2>1. deployed' \in [Contracts -> Variants \cup {Absent}]
    BY <1>0, <1>1, <1>3
  <2>2. roles' \subseteq Grants
    BY <1>1, <1>4 DEF LaunchTypeOK
  <2> QED BY <1>1, <2>1, <2>2, NextCall DEF LaunchTypeOK
<1>6. RunsOK'
  BY ScriptStepRuns
<1>7. AdminsOK'
  <2>1. \A g \in roles' : g.role = "ADMIN" => g.to \in {"deployer", "safe"}
    BY <1>1, <1>4 DEF AdminsOK
  <2>2. ASSUME NEW d \in Controlled, deployed'[d] # Absent
        PROVE  Has(d, "ADMIN", "deployer")' \/ Has(d, "ADMIN", "safe")'
    <3>1. CASE d = c
      BY <3>1, <1>1, <1>4 DEF Has
    <3>2. CASE d # c
      <4>1. deployed'[d] = deployed[d]
        BY <3>2, <1>1, <1>3 DEF Contracts
      <4> QED BY <3>2, <4>1, <2>2, <1>1, GrantParts DEF AdminsOK, Has
    <3> QED BY <3>1, <3>2
  <2>3. ASSUME NEW d \in handedOver'
        PROVE  Has(d, "ADMIN", "safe")' /\ ~Has(d, "ADMIN", "deployer")'
    <3>1. d \in handedOver /\ d # c
      BY <1>1, <2>3
    <3> QED BY <3>1, <1>1, <1>4, GrantParts DEF AdminsOK, Has
  <2> QED BY <2>1, <2>2, <2>3, NextCall DEF AdminsOK
<1>8. \A g \in Wiring : g.on # c => (g \in roles' <=> g \in roles)
  BY <1>1, <1>4
<1>9. WiresOK'
  <2>1. \A d \in Contracts \ {"LendingPoolV4"} : deployed'[d] # "hardened"
    BY <1>1, <1>2, <1>3 DEF WiresOK
  <2>2. ASSUME NEW g \in ByConstructor, deployed'[g.on] # Absent
        PROVE  g \in roles'
    <3>1. CASE g.on = c
      BY <3>1, <1>1, <1>4
    <3>2. CASE g.on # c
      <4>1. deployed'[g.on] = deployed[g.on] /\ g \in Wiring
        BY <3>2, <1>1, <1>3 DEF ByConstructor, Wiring, Grant, Contracts, Controlled, Registries, Staking
      <4> QED BY <3>2, <4>1, <2>2, <1>8 DEF WiresOK
    <3> QED BY <3>1, <3>2
  <2>3. ASSUME launched'
        PROVE  /\ \A d \in Contracts : deployed'[d] # Absent
               /\ Wiring \subseteq roles'
               /\ strategyVault' = "YieldVaultQIE2"
    <3>1. /\ \A d \in Contracts : deployed[d] # Absent
          /\ Wiring \subseteq roles
          /\ strategyVault = "YieldVaultQIE2"
      BY <2>3, NextCall DEF WiresOK, WiredWhenDone
    <3>2. c = "LendingPoolV4"
      BY <3>1, <1>0, <1>2, <1>3 DEF WiresOK, Variants
    <3>3. \A g \in Wiring : g.on # "LendingPoolV4"
      BY DEF Wiring, Grant
    <3> QED BY <3>1, <3>2, <3>3, <1>1, <1>2, <1>3, <1>8
  <2>4. ASSUME running.script = "launch"
        PROVE  InOrder(running'.ahead) /\ LeftIsAhead(running.ahead)'
    <3>1. /\ InOrder(running.ahead) /\ LeftIsAhead(running.ahead)
          /\ Head(running.ahead) = Call /\ Call.call = "deploy"
      BY <2>4, NextCall DEF WiresOK
    <3>2. InOrder(Tail(running.ahead))
      BY <3>1, NextCall, TailInOrder
    <3>3. /\ \A g \in ByTransaction : g.on = c => Told(Tail(running.ahead), Send(g))
          /\ c = "YieldStrategyQIE2" => Told(Tail(running.ahead), SetVault)
      BY <3>1, NextCall, OrderTold DEF c
    <3>4. ASSUME NEW d \in Contracts, deployed'[d] = Absent
          PROVE  Told(Tail(running.ahead), Deploy(d))
      <4>1. d # c /\ deployed[d] = Absent
        BY <3>4, <1>0, <1>1, <1>2, <1>3
      <4>2. Deploy(d) # Call
        BY <4>1, <1>0, CallParts
      <4> QED BY <3>1, <4>1, <4>2, NextCall, ToldByTail DEF LeftIsAhead
    <3>5. ASSUME NEW g \in ByTransaction, g \notin roles'
          PROVE  Told(Tail(running.ahead), Send(g))
      <4>1. CASE g.on = c
        BY <4>1, <3>3
      <4>2. CASE g.on # c
        <5>1. g \notin roles
          BY <4>2, <3>5, <1>8 DEF ByTransaction
        <5>2. Send(g) # Call
          BY <3>1, CallParts DEF Send
        <5> QED BY <3>1, <5>1, <5>2, NextCall, ToldByTail DEF LeftIsAhead
      <4> QED BY <4>1, <4>2
    <3>6. ASSUME strategyVault' # "YieldVaultQIE2"
          PROVE  Told(Tail(running.ahead), SetVault)
      <4>1. CASE c = "YieldStrategyQIE2"
        BY <4>1, <3>3
      <4>2. CASE c # "YieldStrategyQIE2"
        <5>1. SetVault # Call
          BY <3>1, CallParts
        <5> QED BY <4>2, <3>1, <3>6, <1>1, <5>1, NextCall, ToldByTail DEF LeftIsAhead
      <4> QED BY <4>1, <4>2
    <3> QED BY <3>2, <3>4, <3>5, <3>6, NextCall DEF LeftIsAhead
  <2> QED BY <2>1, <2>2, <2>3, <2>4, NextCall DEF WiresOK, WiredWhenDone
<1> QED BY <1>5, <1>6, <1>7, <1>9

\* grantRole and setVault: one more role, which is no admin role
LEMMA ExecuteStep ==
  ASSUME LaunchInv, ScriptStep, Executes, Call.call \in {"grantRole", "setVault"}
  PROVE  LaunchInv'
<1> USE DEF LaunchInv
<1>1. PICK g \in Grants : /\ g.role # "ADMIN" /\ roles' = roles \cup {g}
                          /\ Call.call = "grantRole" => Call = Send(g)
  <2>1. CASE Call.call = "grantRole"
    <3>1. /\ Call.on \in Controlled /\ Call.role \in RoleNames \ {"ADMIN"}
          /\ Call.to \in Keys \cup Contracts
          /\ Call = GrantRole(Call.on, Call.role, Call.to)
      BY <2>1, NextCall, KindsOfCall
    <3>2. Grant(Call.on, Call.role, Call.to) \in Grants
      BY <3>1 DEF Grant, Grants
    <3>3. Call = Send(Grant(Call.on, Call.role, Call.to))
      BY <3>1, GrantParts DEF Send
    <3>4. roles' = roles \cup {Grant(Call.on, Call.role, Call.to)}
      BY <2>1 DEF Executes
    <3> QED BY <3>1, <3>2, <3>3, <3>4, GrantParts
  <2>2. CASE Call.call = "setVault"
    <3>1. Call = SetVault
      BY <2>2, NextCall, KindsOfCall
    <3>2. Grant(Call.on, "VAULT", Call.to) \in Grants
      BY <3>1, CallParts DEF Grant, Grants, Controlled, Staking, Contracts, RoleNames
    <3>3. roles' = roles \cup {Grant(Call.on, "VAULT", Call.to)}
      BY <2>2 DEF Executes
    <3> QED BY <2>2, <3>2, <3>3, GrantParts
  <2> QED BY <2>1, <2>2
<1>2. /\ UNCHANGED <<deployed, handedOver>>
      /\ strategyVault' = IF Call.call = "setVault" THEN "YieldVaultQIE2" ELSE strategyVault
  <2>1. Call.call = "setVault" => Call.to = "YieldVaultQIE2"
    BY NextCall, KindsOfCall, CallParts
  <2> QED BY <2>1 DEF Executes
<1>3. LaunchTypeOK'
  BY <1>1, <1>2, NextCall DEF LaunchTypeOK
<1>4. RunsOK'
  BY ScriptStepRuns
<1>5. AdminsOK'
  <2>1. \A c \in Controlled, key \in Keys : Has(c, "ADMIN", key)' <=> Has(c, "ADMIN", key)
    BY <1>1, GrantParts DEF Has
  <2>2. handedOver \subseteq Controlled
    BY DEF LaunchTypeOK
  <2> QED BY <1>1, <1>2, <2>1, <2>2, NextCall DEF AdminsOK, Keys
<1>6. WiresOK'
  <2>1. WiredWhenDone'
    BY <1>1, <1>2, NextCall DEF WiresOK, WiredWhenDone
  <2>2. ASSUME running.script = "launch"
        PROVE  InOrder(running'.ahead) /\ LeftIsAhead(running.ahead)'
    <3>1. InOrder(running.ahead) /\ LeftIsAhead(running.ahead)
      BY <2>2 DEF WiresOK
    <3>2. InOrder(Tail(running.ahead))
      BY <3>1, NextCall, TailInOrder
    <3>3. ASSUME NEW d \in Contracts, deployed'[d] = Absent
          PROVE  Told(Tail(running.ahead), Deploy(d))
      <4>1. Deploy(d) # Call /\ deployed[d] = Absent
        BY <3>3, <1>2, CallParts
      <4> QED BY <3>1, <4>1, NextCall, ToldByTail DEF LeftIsAhead
    <3>4. ASSUME NEW h \in ByTransaction, h \notin roles'
          PROVE  Told(Tail(running.ahead), Send(h))
      <4>1. h \notin roles /\ h # g
        BY <3>4, <1>1
      <4>2. Send(h) # Call
        <5>1. CASE Call.call = "grantRole"
          <6>1. h \in Grants
            BY FiveByTransaction DEF Grant, Grants, RoleNames, Keys, Contracts, Controlled, Registries, Staking, Lending
          <6>2. Send(h) # Send(g)
            BY <4>1, <6>1, CallParts DEF Send, Grants
          <6> QED BY <6>2, <5>1, <1>1
        <5>2. CASE Call.call = "setVault"
          BY <5>2, CallParts DEF Send
        <5> QED BY <5>1, <5>2
      <4> QED BY <3>1, <4>1, <4>2, NextCall, ToldByTail DEF LeftIsAhead
    <3>5. ASSUME strategyVault' # "YieldVaultQIE2"
          PROVE  Told(Tail(running.ahead), SetVault)
      <4>1. SetVault # Call /\ strategyVault # "YieldVaultQIE2"
        BY <3>5, <1>2, CallParts
      <4> QED BY <3>1, <4>1, NextCall, ToldByTail DEF LeftIsAhead
    <3> QED BY <3>2, <3>3, <3>4, <3>5, NextCall DEF LeftIsAhead
  <2> QED BY <1>1, <1>2, <2>1, <2>2, NextCall DEF WiresOK
<1> QED BY <1>3, <1>4, <1>5, <1>6

LEMMA ScriptStepStep == LaunchInv /\ ScriptStep => LaunchInv'
<1> SUFFICES ASSUME LaunchInv, ScriptStep PROVE LaunchInv'
  OBVIOUS
<1>1. CASE Deploys
  <2>1. Call.call = "deploy"
    BY <1>1 DEF Deploys
  <2>2. CASE OnRecord(Call.on)
    <3>1. deployed[Call.on] # Absent
      BY <2>2, NextCall DEF OnRecord, Arguments, Variants, Absent
    <3> QED BY <1>1, <2>1, <2>2, <3>1, QuietStep DEF Deploys
  <2>3. CASE ~OnRecord(Call.on)
    BY <1>1, <2>1, <2>3, DeployStep
  <2> QED BY <2>2, <2>3
<1>2. CASE Gets
  BY <1>2, QuietStep DEF Gets
<1>3. CASE Executes
  <2>1. CASE Call.call \in {"grantRole", "setVault"}
    BY <1>3, <2>1, ExecuteStep
  <2>2. CASE Call.call = "setDeployRatio"
    BY <1>3, <2>2, QuietStep DEF Executes
  <2> QED BY <1>3, <2>1, <2>2 DEF Executes
<1> QED BY <1>1, <1>2, <1>3 DEF ScriptStep

LEMMA NextTargetOK ==
  ASSUME LaunchInv, transfer.step # "none"
  PROVE  /\ NextTarget \in [step : {"none", "grant", "renounce"}, ahead : Seq(Contracts),
                            renounce : BOOLEAN]
         /\ NextTarget.step \in {"none", "grant"}
         /\ NextTarget.step # "none" => NextTarget.ahead # <<>>
<1>1. Tail(transfer.ahead) \in Seq(Contracts)
  BY AheadOfTransfer DEF LaunchInv
<1>2. transfer \in [step : {"none", "grant", "renounce"}, ahead : Seq(Contracts),
                   renounce : BOOLEAN]
  BY DEF LaunchInv, RunsOK
<1>3. CASE Tail(transfer.ahead) = <<>>
  BY <1>3 DEF NextTarget, NoTransfer
<1>4. CASE Tail(transfer.ahead) # <<>>
  BY <1>1, <1>2, <1>4 DEF NextTarget
<1> QED BY <1>3, <1>4

\* the wiring is out of a hand-over's reach: it moves admin roles only
LEMMA TransferWires ==
  ASSUME LaunchInv, UNCHANGED <<deployed, strategyVault, launched>>, running = NotRunning,
         running' = running, \A g \in roles : g.role # "ADMIN" => g \in roles'
  PROVE  WiresOK'
<1>1. \A g \in Wiring : g.role # "ADMIN"
  BY DEF Wiring, Grant
<1>2. ByConstructor \subseteq Wiring
  BY DEF ByConstructor, Wiring
<1>3. WiredWhenDone'
  BY <1>1 DEF LaunchInv, WiresOK, WiredWhenDone
<1>4. running'.script # "launch"
  BY DEF NotRunning
<1> QED BY <1>1, <1>2, <1>3, <1>4 DEF LaunchInv, WiresOK

LEMMA TransferStepStep == LaunchInv /\ TransferStep => LaunchInv'
<1> SUFFICES ASSUME LaunchInv, TransferStep PROVE LaunchInv'
  OBVIOUS
<1> USE DEF LaunchInv
<1>0. transfer.step # "none" /\ UNCHANGED <<deployed, strategyVault, running, deaths, launched>>
  BY DEF TransferStep, Skips, GrantsAdmin, Renounces, TransferThrows
<1>1. running = NotRunning /\ Target \in Contracts
  BY <1>0, AheadOfTransfer
<1>2. /\ transfer' \in [step : {"none", "grant", "renounce"}, ahead : Seq(Contracts),
                       renounce : BOOLEAN]
      /\ transfer'.step # "none" => transfer'.ahead # <<>>
  <2>1. transfer' = NextTarget \/ transfer' = [transfer EXCEPT !.step = "renounce"]
          \/ transfer' = NoTransfer
    BY DEF TransferStep, Skips, GrantsAdmin, Renounces, TransferThrows
  <2>2. NoTransfer.step = "none" /\ NoTransfer.ahead = <<>> /\ NoTransfer.renounce = FALSE
    BY DEF NoTransfer
  <2>3. CASE transfer' = NextTarget
    BY <1>0, <2>3, NextTargetOK
  <2>4. CASE transfer' = [transfer EXCEPT !.step = "renounce"]
    BY <1>0, <2>4 DEF RunsOK, LaunchTypeOK
  <2>5. CASE transfer' = NoTransfer
    BY <2>5 DEF NoTransfer
  <2> QED BY <2>1, <2>3, <2>4, <2>5
<1>3. RunsOK'
  BY <1>0, <1>1, <1>2 DEF RunsOK
<1>4. CASE UNCHANGED <<roles, handedOver>> /\ transfer'.step # "renounce"
  <2>1. LaunchTypeOK'
    BY <1>0, <1>2, <1>4 DEF LaunchTypeOK
  <2>2. AdminsOK'
    BY <1>0, <1>4 DEF AdminsOK, Has
  <2>3. WiresOK'
    BY <1>0, <1>1, <1>4, TransferWires
  <2> QED BY <1>3, <2>1, <2>2, <2>3
<1>5. CASE GrantsAdmin
  <2>0. /\ Target \in Controlled /\ NewAdmin \in Grants /\ UNCHANGED handedOver
        /\ roles' = roles \cup {NewAdmin}
        /\ NewAdmin = Grant(Target, "ADMIN", "safe")
    BY <1>5 DEF GrantsAdmin, Granted, NewAdmin, Grant, Grants, RoleNames, Keys
  <2>1. LaunchTypeOK'
    BY <1>0, <1>2, <2>0 DEF LaunchTypeOK
  <2>2. transfer'.step = "renounce" => Target' = Target
    BY <1>0, <1>5, NextTargetOK DEF GrantsAdmin, Target, RunsOK
  <2>3. AdminsOK'
    <3>1. \A g \in roles' : g.role = "ADMIN" => g.to \in {"deployer", "safe"}
      BY <2>0, GrantParts DEF AdminsOK
    <3>2. \A c, key : Has(c, "ADMIN", key) => Has(c, "ADMIN", key)'
      BY <2>0 DEF Has
    <3>3. \A c : Has(c, "ADMIN", "deployer")' => Has(c, "ADMIN", "deployer")
      BY <2>0, GrantParts DEF Has
    <3>4. transfer'.step = "renounce" => Target' \in Controlled /\ Has(Target, "ADMIN", "safe")'
      BY <2>0, <2>2 DEF Has
    <3> QED BY <1>0, <2>0, <3>1, <3>2, <3>3, <3>4 DEF AdminsOK
  <2>4. WiresOK'
    BY <1>0, <1>1, <2>0, TransferWires
  <2> QED BY <1>3, <2>1, <2>3, <2>4
<1>6. CASE Renounces
  <2>0. /\ roles' = roles \ {Grant(Target, "ADMIN", "deployer")}
        /\ handedOver' = handedOver \cup {Target}
        /\ transfer'.step # "renounce"
        /\ Target \in Controlled /\ Has(Target, "ADMIN", "safe")
    BY <1>0, <1>6, NextTargetOK DEF Renounces, AdminsOK
  <2>1. LaunchTypeOK'
    BY <1>0, <1>2, <2>0 DEF LaunchTypeOK
  <2>2. AdminsOK'
    <3>1. \A g \in roles' : g.role = "ADMIN" => g.to \in {"deployer", "safe"}
      BY <2>0 DEF AdminsOK
    <3>2. \A c : Has(c, "ADMIN", "safe") => Has(c, "ADMIN", "safe")'
      BY <2>0, GrantParts DEF Has
    <3>3. \A c : c # Target =>
            (Has(c, "ADMIN", "deployer")' <=> Has(c, "ADMIN", "deployer"))
      BY <2>0, GrantParts DEF Has
    <3>4. /\ Grant(Target, "ADMIN", "deployer") \notin roles'
          /\ Grant(Target, "ADMIN", "safe") \in roles'
      BY <2>0, GrantParts DEF Has
    <3>5. ASSUME NEW c \in Controlled, deployed'[c] # Absent
          PROVE  Has(c, "ADMIN", "deployer")' \/ Has(c, "ADMIN", "safe")'
      <4>1. CASE c = Target
        BY <3>4, <4>1 DEF Has
      <4>2. CASE c # Target
        BY <1>0, <3>2, <3>3, <3>5, <4>2 DEF AdminsOK
      <4> QED BY <4>1, <4>2
    <3>6. ASSUME NEW c \in handedOver'
          PROVE  Has(c, "ADMIN", "safe")' /\ ~Has(c, "ADMIN", "deployer")'
      <4>1. CASE c = Target
        BY <3>4, <4>1 DEF Has
      <4>2. CASE c # Target
        BY <2>0, <3>2, <3>3, <3>6, <4>2 DEF AdminsOK
      <4> QED BY <4>1, <4>2
    <3> QED BY <2>0, <3>1, <3>5, <3>6 DEF AdminsOK
  <2>3. WiresOK'
    BY <1>0, <1>1, <2>0, GrantParts, TransferWires
  <2> QED BY <1>3, <2>1, <2>2, <2>3
<1>7. CASE Skips \/ TransferThrows
  BY <1>0, <1>4, <1>7, NextTargetOK DEF Skips, TransferThrows, NoTransfer
<1> QED BY <1>5, <1>6, <1>7 DEF TransferStep

LEMMA GrantScorerStep == LaunchInv /\ GrantScorer => LaunchInv'
<1> SUFFICES ASSUME LaunchInv, GrantScorer PROVE LaunchInv'
  OBVIOUS
<1> USE DEF LaunchInv
<1> DEFINE g == Grant("ReputationRegistry", "SCORER", "scorer")
<1>0. /\ roles' = roles \cup {g} /\ running = NotRunning /\ transfer.step = "none"
      /\ UNCHANGED <<deployed, strategyVault, running, transfer, deaths, launched, handedOver>>
  BY DEF GrantScorer, Idle
<1>1. g \in Grants /\ g.role # "ADMIN"
  BY DEF Grant, Grants, RoleNames, Keys, Controlled, Registries
<1> HIDE DEF g
<1>2. LaunchTypeOK'
  BY <1>0, <1>1 DEF LaunchTypeOK
<1>3. RunsOK'
  BY <1>0 DEF RunsOK
<1>4. AdminsOK'
  <2>1. \A c, key : Has(c, "ADMIN", key)' <=> Has(c, "ADMIN", key)
    BY <1>0, <1>1, GrantParts DEF Has
  <2> QED BY <1>0, <1>1, <2>1 DEF AdminsOK
<1>5. WiresOK'
  BY <1>0, <1>1, TransferWires
<1> QED BY <1>2, <1>3, <1>4, <1>5

LEMMA LaunchInvHolds == Spec => []LaunchInv
<1>1. Init => LaunchInv
  BY InitHolds
<1>2. LaunchInv /\ [Next]_launchVars => LaunchInv'
  <2> SUFFICES ASSUME LaunchInv, [Next]_launchVars PROVE LaunchInv'
    OBVIOUS
  <2>1. CASE StartLaunch
    BY <2>1, StartLaunchStep
  <2>2. CASE ScriptNext
    BY <2>2, ScriptStepStep, ScriptEndsStep, ScriptFailsStep DEF ScriptNext
  <2>3. CASE \E updater \in BOOLEAN : StartHardened(updater)
    BY <2>3, StartHardenedStep
  <2>4. CASE \E renounce \in BOOLEAN : StartTransfer(renounce)
    BY <2>4, StartTransferStep
  <2>5. CASE TransferStep
    BY <2>5, TransferStepStep
  <2>6. CASE GrantScorer
    BY <2>6, GrantScorerStep
  <2>7. CASE Dies
    BY <2>7, DiesStep
  <2>8. CASE UNCHANGED launchVars
    <3>1. LaunchTypeOK' /\ RunsOK'
      BY <2>8 DEF launchVars, LaunchInv, LaunchTypeOK, RunsOK
    <3>2. AdminsOK'
      BY <2>8 DEF launchVars, LaunchInv, AdminsOK, Has, Target
    <3>3. WiresOK'
      BY <2>8, WiresUntouched DEF launchVars, LaunchInv, WiresOK
    <3> QED BY <3>1, <3>2, <3>3 DEF LaunchInv
  <2> QED BY <2>1, <2>2, <2>3, <2>4, <2>5, <2>6, <2>7, <2>8 DEF Next
<1> QED BY <1>1, <1>2, PTL DEF Spec

\* Records, roles and the hand-over under way keep their types.
THEOREM LaunchTypeCorrect == Spec => []LaunchTypeOK
<1>1. LaunchInv => LaunchTypeOK
  BY DEF LaunchInv
<1> QED BY <1>1, LaunchInvHolds, PTL

\* Once the launch script has ended the protocol is wired and stays so, however
\* often it died and was run again, and whatever the other scripts do.
THEOREM WiredOnceLaunched == Spec => []WiredWhenDone
<1>1. LaunchInv => WiredWhenDone
  BY DEF LaunchInv, WiresOK
<1> QED BY <1>1, LaunchInvHolds, PTL

\* No contract is ever without an admin, and what was handed over is the Safe's.
THEOREM AdminStays == Spec => []AdminIsNeverLost
<1>1. LaunchInv => AdminIsNeverLost
  <2> SUFFICES ASSUME LaunchInv, NEW c \in Controlled
               PROVE  /\ deployed[c] # Absent => Admins(c) # {}
                      /\ c \in handedOver => Admins(c) = {"safe"}
    BY DEF AdminIsNeverLost
  <2>1. ASSUME deployed[c] # Absent PROVE Admins(c) # {}
    BY <2>1 DEF LaunchInv, AdminsOK, Admins, Keys
  <2>2. ASSUME c \in handedOver PROVE Admins(c) = {"safe"}
    <3>1. Has(c, "ADMIN", "safe") /\ ~Has(c, "ADMIN", "deployer")
      BY <2>2 DEF LaunchInv, AdminsOK
    <3>2. \A key : Has(c, "ADMIN", key) => key \in {"deployer", "safe"}
      BY GrantParts DEF LaunchInv, AdminsOK, Has
    <3> QED BY <3>1, <3>2 DEF Admins, Keys
  <2> QED BY <2>1, <2>2
<1> QED BY <1>1, LaunchInvHolds, PTL

=============================================================================
