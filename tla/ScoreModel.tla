------------------------------- MODULE ScoreModel -------------------------------
(***************************************************************************)
(* scoring.service.ts and the score tables of the web application: how many *)
(* points a verified proof, a wallet or a staking history is worth, and the *)
(* bands the interface shows for a score.                                   *)
(***************************************************************************)
EXTENDS Integers, Sequences, FiniteSetsExt, SequencesExt

Least(a, b) == IF a < b THEN a ELSE b
Most(a, b) == IF a > b THEN a ELSE b

CREDIT_PROOF_TYPES == {"CREDIT_CIBIL_PAISABAZAR", "CREDIT_EXPERIAN_IN",
                       "CREDIT_EXPERIAN_US", "CREDIT_KARMA"}
ZKProofTypes == CREDIT_PROOF_TYPES \cup {"TELECOM"}

BUREAU_SCORE_MAX(type) ==
    IF type \in {"CREDIT_CIBIL_PAISABAZAR", "CREDIT_EXPERIAN_IN"} THEN 900 ELSE 850

Providers(region) ==
    CASE region = "india" -> {"CREDIT_CIBIL_PAISABAZAR", "CREDIT_EXPERIAN_IN"}
      [] region = "usa" -> {"CREDIT_EXPERIAN_US", "CREDIT_KARMA"}
      [] region \in {"canada", "uk"} -> {"CREDIT_KARMA"}
      [] OTHER -> {}

(* Math.round of the clamped fraction of 200 points; a half rounds up.      *)
ScoreCreditBureau(raw, scoreMax) ==
    LET above == Least(Most(raw - 300, 0), scoreMax - 300)
    IN  (400 * above + (scoreMax - 300)) \div (2 * (scoreMax - 300))

ScoreTelecomProof(days) == IF days > 730 THEN 100 ELSE 80

ScoreUtilityProof == 75

(* Metrics of one wallet: volume in USD, trades, age in days.               *)
WalletPoints(w) ==
    Least(55, (w.volumeUsd * 55) \div 100000)
      + Least(20, (w.tradeCount * 20) \div 500)
      + Least(8, (w.ageDays * 8) \div 365)

(* The sort is stable: of equal volumes the earlier wallet counts.          *)
Outranks(ws, i, j) ==
    \/ ws[i].volumeUsd > ws[j].volumeUsd
    \/ ws[i].volumeUsd = ws[j].volumeUsd /\ i < j

TopWallets(ws) ==
    {i \in DOMAIN ws : Cardinality({j \in DOMAIN ws : Outranks(ws, j, i)}) < 3}

ScoreChildWallets(ws) ==
    Least(250, MapThenSumSet(LAMBDA i : WalletPoints(ws[i]), TopWallets(ws)))

ScoreWalletAge(days) ==
    IF days < 30 THEN 0
    ELSE IF days > 365 THEN 100
    ELSE ((days - 30) * 100) \div 335

ScoreStakingHistory(usd, days) ==
    Least(40, (usd * 40) \div 5000) + Least(35, (days * 35) \div 180)

ComputeScore(c) ==
    Least(1000, c.kycBase + c.creditBureau + c.telecomProof + c.utilityProof
                  + c.childWallets + c.walletAge + c.stakingHistory)

(* SCORE_BANDS: the multiplier shown, in per cent.                          *)
SCORE_BANDS == <<[min |-> 801, max |-> 1000, band |-> "Platinum", percent |-> 150],
                 [min |-> 601, max |-> 800, band |-> "Gold", percent |-> 135],
                 [min |-> 401, max |-> 600, band |-> "Silver", percent |-> 120],
                 [min |-> 201, max |-> 400, band |-> "Bronze", percent |-> 110],
                 [min |-> 0, max |-> 200, band |-> "None", percent |-> 100]>>

BandOf(score) ==
    LET i == CHOOSE k \in DOMAIN SCORE_BANDS :
                 score \in SCORE_BANDS[k].min .. SCORE_BANDS[k].max
    IN  SCORE_BANDS[i]

(* computeDelta: a credit proof without a readable score is worth nothing,  *)
(* and 0 is what extractCreditSignals finds then.                           *)
ComputeDelta(type, raw, accountAgeDays) ==
    IF type \in CREDIT_PROOF_TYPES
      THEN IF raw = 0 THEN 0 ELSE ScoreCreditBureau(raw, BUREAU_SCORE_MAX(type))
      ELSE IF type = "TELECOM" THEN ScoreTelecomProof(accountAgeDays) ELSE 0

(* A parameter of a proof is a key and the number its value reads as (0 when *)
(* it has no digits); labelled and mentionsScore are what the key says.      *)
InBureauRange(n, type) == n >= 300 /\ n <= BUREAU_SCORE_MAX(type)

FirstOf(params, fitting) == IF fitting = {} THEN 0 ELSE params[Min(fitting)].number

ExtractCreditSignals(params, type) ==
    LET labelled == {i \in DOMAIN params : params[i].key = "labelled"}
        inRange == {i \in DOMAIN params : InBureauRange(params[i].number, type)}
        scoreKey == {i \in inRange : params[i].key \in {"labelled", "mentionsScore"}}
        read == FirstOf(params, labelled)
    IN  IF read # 0 THEN read
        ELSE IF scoreKey # {} THEN FirstOf(params, scoreKey) ELSE FirstOf(params, inRange)

=============================================================================
