--------------------------- MODULE ReputationProofs ---------------------------
(***************************************************************************)
(* Theorems of ReputationSystem, for any number of accounts, documents,    *)
(* sessions and requests and any bounds.  First its types: the type        *)
(* invariant is not inductive as it stands; that what a page sends is a    *)
(* message takes what its handler closed over when it asked for the        *)
(* prompt, and that a link carries an account takes the signature the      *)
(* server checked.  Then safety: the registry moves only when a transaction*)
(* is mined or an identity revoked (RegistryMoves), so what it promises is *)
(* proved over its own functions; what its messages mean needs the course  *)
(* of the pages and of the backend that made them.                         *)
(***************************************************************************)
EXTENDS ReputationSystem, FiniteSetTheorems, SequenceTheorems, TLAPS

RegistryTyped ==
    /\ now \in Nat
    /\ profile \in [Wallets -> Profiles]
    /\ usedNonces \subseteq Nonces
    /\ usedProofs \subseteq Sessions
    /\ usedCategories \subseteq Types \X Wallets
    /\ usedDocuments \subseteq Nullifiers
    /\ events \subseteq Commits
    /\ children \in [Wallets -> SUBSET Wallets]
    /\ lockedTo \in [Wallets -> Wallets \cup {NoOne}]

(* A job runs only on a proof that was finished.                            *)
OracleTyped ==
    /\ attested \subseteq Messages
    /\ drawn \in 0 .. MaxNonce
    /\ sessions \in [Sessions -> SessionContexts \cup {None}]
    /\ reports \in [Sessions -> Documents \cup {None}]
    /\ store \in [Sessions -> Entries \cup {None}]
    /\ jobs \subseteq Jobs
    /\ answers \subseteq Answers
    /\ \A j \in jobs : reports[j.proof] # None

(* A link that is on its way carries signatures that were really made.      *)
Sendable == Messages \cup {t \in LinkCall : {t.masterSig, t.childSig} \subseteq linkSigned}

WalletTyped == address \in Wallets /\ mempool \in [Wallets -> Seq(Sendable)]

(* While a prompt is open, its handler holds what it is about to send.      *)
Web2Typed ==
    /\ web2 \in Web2States
    /\ doneProofs \subseteq Types
    /\ persisted \in [Wallets -> SUBSET Types]
    /\ IsSubmitting => web2.closure.address \in Wallets /\ web2.closure.result \in Results
    /\ web2.phase = "committing" => web2.closure.result.commit \in ProofMessage

KycTyped ==
    /\ requests \in [Requests -> RequestStates \cup {None}]
    /\ vouched \subseteq Wallets
    /\ kyc \in KycStates
    /\ kycAnswers \subseteq KycAnswer
    /\ kyc.prompt # "none" => kyc.closure.address \in Wallets /\ kyc.closure.data \in KycApprovals
    /\ kyc.claim # None => kyc.claimer \in Wallets

(* The signatures of a step were made, and the steps from nonce_ready on     *)
(* have a message.                                                          *)
StepTyped(step, signed) ==
    /\ step \in Steps
    /\ step.id \in {"nonce_ready", "master_signed", "child_signed"} => step.offer \in Offers
    /\ {step.masterSig, step.childSig} \subseteq signed \cup {Unsigned}

(* A handler that waits keeps the account and the step it was called with;  *)
(* what is about to be sent has been checked.                               *)
HandlerTyped(h, signed) ==
    /\ h \in Handlers
    /\ StepTyped(h.with, signed)
    /\ h.awaits # "nothing" => h.account \in Wallets
    /\ h.awaits = "check" => h.input \in Wallets
    /\ h.awaits = "masterSign" => h.with.id = "nonce_ready"
    /\ h.awaits = "childSign" => h.with.id = "master_signed"
    /\ h.awaits = "send" => LinkValid(h)

LinkTyped ==
    /\ link \in LinkStates
    /\ linkSigned \subseteq LinkSignatures
    /\ StepTyped(link.step, linkSigned)
    /\ HandlerTyped(link.handler, linkSigned)

PagesTyped == WalletTyped /\ Web2Typed /\ KycTyped /\ LinkTyped /\ page \in Pages

RepInv == RegistryTyped /\ OracleTyped /\ PagesTyped

(***************************************************************************)
(* The backend.                                                             *)
(***************************************************************************)

LEMMA DeltaTyped ==
    ASSUME NEW n \in Nullifiers
    PROVE  Delta(n) \in Nat
<1> DEFINE raw == RawScore[n]
           type == n[1]
<1>1. raw \in Nat BY OracleAssumption
<1>2. BUREAU_SCORE_MAX(type) \in {900, 850}
  BY DEF BUREAU_SCORE_MAX
<1>3. ASSUME NEW x \in {900, 850}
      PROVE ScoreCreditBureau(raw, x) \in Nat
  BY <1>1, <1>3 DEF ScoreCreditBureau, Least, Most
<1>4. ScoreTelecomProof(0) \in Nat BY DEF ScoreTelecomProof
<1> QED BY <1>1, <1>2, <1>3, <1>4 DEF Delta, ComputeDelta

(* What verifyProof reads of a job's proof.                                 *)
LEMMA DocumentTyped ==
    ASSUME OracleTyped, NEW j \in jobs
    PROVE  j \in Jobs /\ j.proof \in Sessions /\ DocumentOf(j) \in Nullifiers
<1>1. j \in Jobs /\ j.type \in Types /\ j.proof \in Sessions
  BY DEF OracleTyped, Jobs
<1>2. reports[j.proof] \in Documents
  BY <1>1 DEF OracleTyped
<1> QED BY <1>1, <1>2 DEF DocumentOf, Nullifiers

LEMMA NewScoreTyped ==
    ASSUME OracleTyped, NEW j \in jobs
    PROVE  NewScore(j) \in Scores
<1>1. j.score \in Scores
  BY DEF OracleTyped, Jobs
<1>2. Delta(DocumentOf(j)) \in Nat BY DocumentTyped, DeltaTyped
<1> QED BY <1>1, <1>2, RegistryAssumption DEF NewScore, Capped, Least, Most, Scores, KYC_BASE

LEMMA TwoAtMost ==
    ASSUME NEW a, NEW b, NEW S, S \subseteq {a, b}
    PROVE  Cardinality(S) \in 0 .. 2 /\ (S \subseteq {a} => Cardinality(S) \in 0 .. 1)
<1>1. IsFiniteSet({a}) /\ Cardinality({a}) = 1 BY FS_Singleton
<1>2. IsFiniteSet({a} \cup {b}) /\ Cardinality({a} \cup {b}) \in {1, 2}
  BY <1>1, FS_AddElement
<1>3. {a} \cup {b} = {a, b} OBVIOUS
<1>4. ASSUME NEW T, IsFiniteSet(T), S \subseteq T
      PROVE  Cardinality(S) \in Nat /\ Cardinality(S) <= Cardinality(T)
  BY <1>4, FS_Subset, FS_CardinalityType
<1> QED BY <1>1, <1>2, <1>3, <1>4

LEMMA ResultStored ==
    ASSUME OracleTyped, NEW j \in jobs, NEW r \in Results
    PROVE  WithResult(j, r) \in [Sessions -> Entries \cup {None}]
<1> DEFINE s == j.session
<1>0. s \in Sessions BY DEF OracleTyped, Jobs
<1>1. CASE store[s] # None
  <2>1. [store[s] EXCEPT !.result = r] \in Entries
    BY <1>0, <1>1 DEF OracleTyped, Entries
  <2> QED BY <1>0, <1>1, <2>1 DEF OracleTyped, WithResult
<1> QED BY <1>1 DEF OracleTyped, WithResult, Kept

LEMMA ErrorStored ==
    ASSUME OracleTyped, NEW j \in jobs
    PROVE  WithError(j) \in [Sessions -> Entries \cup {None}]
<1> DEFINE s == j.session
<1>0. s \in Sessions BY DEF OracleTyped, Jobs
<1>1. CASE store[s] # None
  <2>1. [store[s] EXCEPT !.error = TRUE] \in Entries
    BY <1>0, <1>1 DEF OracleTyped, Entries
  <2> QED BY <1>0, <1>1, <2>1 DEF OracleTyped, WithError
<1> QED BY <1>1 DEF OracleTyped, WithError, Kept

(* What a job signs: a score, and a commit unless it was committed before.  *)
LEMMA SignedResult ==
    ASSUME OracleTyped, NEW j \in jobs, SignJob(j)
    PROVE  LET score == ScoreAttestation(j.wallet, NewScore(j), drawn + 1)
               commit == IF j.committed THEN None ELSE ProofAttestation(j, drawn + 2)
               result == [commit |-> commit, score |-> score]
           IN  /\ j \in Jobs
               /\ score \in ScoreMessage
               /\ commit \in ProofMessage \cup {None}
               /\ commit = None => j.committed
               /\ result \in Results
<1> DEFINE score == ScoreAttestation(j.wallet, NewScore(j), drawn + 1)
           commit == IF j.committed THEN None ELSE ProofAttestation(j, drawn + 2)
           result == [commit |-> commit, score |-> score]
<1>1. /\ j \in Jobs /\ DocumentOf(j) \in Nullifiers
      /\ drawn + 1 \in Nonces
      /\ ~j.committed => drawn + 2 \in Nonces
  <2>1. j \in Jobs /\ DocumentOf(j) \in Nullifiers
    BY DocumentTyped
  <2>2. Fresh(IF j.committed THEN 1 ELSE 2)
    BY DEF SignJob
  <2>3. CASE j.committed
    BY <2>1, <2>2, <2>3, RegistryAssumption DEF OracleTyped, Fresh, Nonces
  <2>4. CASE ~j.committed
    BY <2>1, <2>2, <2>4, RegistryAssumption DEF OracleTyped, Fresh, Nonces
  <2> QED BY <2>1, <2>3, <2>4
<1>2. score \in ScoreMessage
  BY <1>1, NewScoreTyped DEF ScoreAttestation, ScoreMessage, Jobs
<1>3. commit \in ProofMessage \cup {None}
  BY <1>1 DEF ProofAttestation, ProofMessage, Jobs
<1>4. result \in Results
  BY <1>2, <1>3 DEF Results
<1>5. commit = None => j.committed
  <2>1. ~j.committed => ProofAttestation(j, drawn + 2) \in ProofMessage
    BY <1>1 DEF ProofAttestation, ProofMessage, Jobs
  <2> QED BY <2>1, SystemAssumption
<1> QED BY <1>1, <1>2, <1>3, <1>4, <1>5

LEMMA SignJobTyped ==
    ASSUME OracleTyped, NEW j \in jobs, SignJob(j)
    PROVE  OracleTyped'
<1> DEFINE score == ScoreAttestation(j.wallet, NewScore(j), drawn + 1)
           commit == IF j.committed THEN None ELSE ProofAttestation(j, drawn + 2)
           result == [commit |-> commit, score |-> score]
<1>1. /\ j \in Jobs /\ score \in ScoreMessage /\ commit \in ProofMessage \cup {None}
      /\ result \in Results
  BY SignedResult
<1>5. drawn' \in 0 .. MaxNonce
  <2>1. j.committed => {score, commit} \ {None} \subseteq {score}
    OBVIOUS
  <2>2. /\ Cardinality({score, commit} \ {None}) \in 0 .. 2
        /\ j.committed => Cardinality({score, commit} \ {None}) \in 0 .. 1
    BY <2>1, TwoAtMost
  <2>3. drawn' = drawn + Cardinality({score, commit} \ {None})
    BY DEF SignJob, Signed
  <2>4. Fresh(IF j.committed THEN 1 ELSE 2)
    BY DEF SignJob
  <2> QED BY <2>2, <2>3, <2>4, RegistryAssumption DEF OracleTyped, Fresh
<1>6. attested' \subseteq Messages
  BY <1>1 DEF OracleTyped, SignJob, Signed, Messages
<1>7. store' \in [Sessions -> Entries \cup {None}]
  <2>1. store' = WithResult(j, result)
    BY DEF SignJob
  <2> HIDE DEF result
  <2> QED BY <1>1, <2>1, ResultStored
<1>8. answers' \subseteq Answers
  BY <1>1 DEF OracleTyped, SignJob, Replied, Answers, Verdicts, Jobs
<1> QED BY <1>5, <1>6, <1>7, <1>8 DEF OracleTyped, SignJob

LEMMA OracleStepTyped ==
    ASSUME OracleTyped, RegistryTyped,
           OracleStep \/ OracleRequest \/ OracleFault \/ Polls
    PROVE  OracleTyped'
<1>1. ASSUME NEW s \in Sessions, NEW proof \in Sessions,
             NEW via \in {"callback", "page", "submit"}, NEW w \in Wallets, NEW type \in Types,
             BeginJob(s, proof, via, w, type)
      PROVE  OracleTyped'
  <2> DEFINE j == [session |-> s, proof |-> proof, via |-> via, wallet |-> w,
                   type |-> type, at |-> "history", committed |-> FALSE, score |-> 0]
  <2>1. reports[proof] # None
    BY <1>1 DEF BeginJob
  <2>2. j \in Jobs
    BY RegistryAssumption DEF Jobs, Scores
  <2>3. jobs' = jobs \cup {j} /\ UNCHANGED <<attested, drawn, sessions, reports, store, answers>>
    BY <1>1 DEF BeginJob
  <2>4. j.proof = proof
    OBVIOUS
  <2> HIDE DEF j
  <2> QED BY <2>1, <2>2, <2>3, <2>4 DEF OracleTyped
<1>2. ASSUME NEW s \in Sessions, NEW d \in Documents, UserProves(s, d)
      PROVE  OracleTyped'
  BY <1>2 DEF OracleTyped, UserProves, Jobs
<1>3. ASSUME NEW j \in jobs, NEW to \in Jobs, JobMoves(j, to), to.proof = j.proof
      PROVE  OracleTyped'
  BY <1>3 DEF OracleTyped, JobMoves
<1>4. ASSUME NEW j \in jobs, JobErrs(j)
      PROVE  OracleTyped'
  <2>1. j.session \in Sessions
    BY DEF OracleTyped, Jobs
  <2>2. [session |-> j.session, verdict |-> Failed] \in Answers
    BY <2>1 DEF Answers, Verdicts
  <2>3. Replied(j, Failed) \subseteq Answers
    BY <2>2 DEF OracleTyped, Replied
  <2> QED BY <1>4, <2>1, <2>3, ErrorStored DEF OracleTyped, JobErrs
<1>5. ASSUME NEW j \in jobs, NEW seen, HistoryRead(j, seen)
      PROVE  OracleTyped'
  <2> DEFINE Read(b) == [j EXCEPT !.committed = b, !.at = IF b THEN "score" ELSE "replay"]
  <2>1. ASSUME NEW b \in BOOLEAN
        PROVE  Read(b) \in Jobs /\ Read(b).proof = j.proof
    BY DEF OracleTyped, Jobs
  <2>2. JobMoves(j, Read(j.type \in seen)) /\ (j.type \in seen) \in BOOLEAN
    BY <1>5 DEF HistoryRead
  <2> HIDE DEF Read
  <2>3. PICK b \in BOOLEAN : JobMoves(j, Read(b))
    BY <2>2, Zenon
  <2> QED BY <1>3, <2>1, <2>3
<1>6. ASSUME NEW j \in jobs, NEW read \in Scores, ScoreRead(j, read)
      PROVE  OracleTyped'
  <2>0. j \in Jobs BY DEF OracleTyped
  <2> DEFINE k == [j EXCEPT !.at = "sign", !.score = read]
  <2>1. k \in Jobs /\ k.proof = j.proof
    BY <2>0 DEF Jobs
  <2>2. JobMoves(j, k)
    BY <1>6 DEF ScoreRead
  <2> HIDE DEF k
  <2> QED BY <1>3, <2>1, <2>2
<1>7. ASSUME NEW j \in jobs, CheckReplay(j) \/ ReplayUnread(j)
      PROVE  OracleTyped'
  <2>0. j \in Jobs BY DEF OracleTyped
  <2> DEFINE k == [j EXCEPT !.at = "score"]
  <2>1. k \in Jobs /\ k.proof = j.proof
    BY <2>0 DEF Jobs
  <2>2. JobMoves(j, k) \/ JobErrs(j)
    BY <1>7 DEF CheckReplay, ReplayUnread
  <2> HIDE DEF k
  <2> QED BY <1>3, <1>4, <2>1, <2>2
<1>8. ASSUME NEW j \in jobs, JobThrows(j)
      PROVE  OracleTyped'
  <2>1. j.session \in Sessions
    BY DEF OracleTyped, Jobs
  <2> QED BY <1>8, <2>1, ErrorStored DEF OracleTyped, JobThrows
<1>9. ASSUME NEW j \in jobs, JobStep(j) \/ JobFault(j)
      PROVE  OracleTyped'
  <2>1. 0 \in Scores /\ profile[j.wallet].score \in Scores
    BY RegistryAssumption DEF OracleTyped, Jobs, RegistryTyped, Profiles, Scores
  <2> QED
    BY <1>4, <1>5, <1>6, <1>7, <1>8, <1>9, <2>1, SignJobTyped
    DEF JobStep, JobFault, ReadHistory, HistoryUnread, ReadScore, ScoreUnread, ProofRefused
<1>10. ASSUME NEW s \in Sessions, Evict(s)
       PROVE  OracleTyped'
  BY <1>10 DEF OracleTyped, Evict
<1>11. ASSUME ServerRestart
       PROVE  OracleTyped'
  BY <1>11 DEF OracleTyped, ServerRestart
<1>12. ASSUME NEW s \in Sessions, StatusAnswers(s)
       PROVE  OracleTyped'
  BY <1>12 DEF OracleTyped, StatusAnswers, Answers, Verdicts, Entries
<1>13. ASSUME NEW s \in Sessions, store[s] # None
       PROVE  store[s].wallet \in Wallets /\ store[s].type \in Types
  BY <1>13 DEF OracleTyped, Entries
<1>14. ASSUME NEW s \in Sessions, NEW proof \in Sessions, Callback(s, proof)
       PROVE  OracleTyped'
  BY <1>1, <1>13, <1>14 DEF Callback
<1>15. ASSUME NEW s \in Sessions, StatusRunsJob(s)
       PROVE  OracleTyped'
  BY <1>1, <1>13, <1>15 DEF StatusRunsJob
<1> QED
  BY <1>1, <1>2, <1>9, <1>10, <1>11, <1>12, <1>14, <1>15
  DEF OracleStep, OracleRequest, OracleFault, Polls, SubmitsProof

(***************************************************************************)
(* What the pages make the backend do.                                      *)
(***************************************************************************)

LEMMA SessionOpensTyped ==
    ASSUME OracleTyped, Web2Typed, NEW s \in Sessions, SessionOpens(s)
    PROVE  OracleTyped' /\ Web2Typed'
<1> DEFINE ask == web2.submitting
           entry == [wallet |-> ask.wallet, type |-> ask.type, result |-> None, error |-> FALSE]
           context == [wallet |-> ask.wallet, type |-> ask.type]
<1>1. ask \in [type : Types, wallet : Wallets]
  BY DEF Web2Typed, Web2States, SessionOpens
<1>2. entry \in Entries /\ context \in SessionContexts
  BY <1>1 DEF Entries, SessionContexts
<1>3. /\ store' = [store EXCEPT ![s] = entry]
      /\ sessions' = [sessions EXCEPT ![s] = context]
      /\ UNCHANGED <<attested, drawn, reports, jobs, answers>>
  BY DEF SessionOpens, CreateSession
<1>4. OracleTyped'
  <2> HIDE DEF entry, context
  <2> QED BY <1>2, <1>3 DEF OracleTyped
<1>5. /\ web2' = [web2 EXCEPT !.submitting = None, !.pending = [session |-> s, type |-> ask.type]]
      /\ UNCHANGED <<doneProofs, persisted>>
  BY DEF SessionOpens
<1>6. Web2Typed'
  BY <1>1, <1>5 DEF Web2Typed, Web2States, IsSubmitting
<1> QED BY <1>4, <1>6

(* A read of the score gives what is on the chain, or 0.                    *)
LEMMA ApprovalTyped ==
    ASSUME RegistryTyped, OracleTyped, NEW w \in Wallets,
           NEW read \in {profile[w].score, 0}, Approve(w, read)
    PROVE  Approval(w, read) \in KycApprovals /\ OracleTyped'
<1> DEFINE approval == Approval(w, read)
<1>1. /\ drawn + 1 \in Nonces /\ drawn + 2 \in Nonces
      /\ now + KYC_TERM \in Nat
      /\ Capped(read + KYC_SCORE_BONUS) \in Scores
  BY RegistryAssumption, OracleAssumption
  DEF Approve, Fresh, OracleTyped, RegistryTyped, Profiles, Scores, Nonces, Capped, Least,
      KYC_SCORE_BONUS
<1>2. approval.kyc \in KycMessage
  BY <1>1 DEF Approval, KycAttestation, KycMessage
<1>3. approval.score \in ScoreMessage
  BY <1>1 DEF Approval, ScoreAttestation, ScoreMessage
<1>4. approval \in KycApprovals
  BY <1>2, <1>3 DEF Approval, KycApprovals
<1>5. attested' \subseteq Messages
  BY <1>2, <1>3 DEF Approve, Signed, OracleTyped, Messages
<1>6. drawn' \in 0 .. MaxNonce
  <2>1. Cardinality({approval.kyc, approval.score}) \in 0 .. 2
    BY TwoAtMost
  <2>2. drawn' = drawn + Cardinality({approval.kyc, approval.score}) /\ Fresh(2)
    BY DEF Approve, Signed
  <2> QED BY <2>1, <2>2, RegistryAssumption DEF Fresh, OracleTyped
<1> QED BY <1>4, <1>5, <1>6 DEF OracleTyped, Approve

LEMMA KycRoutesTyped ==
    ASSUME RegistryTyped, OracleTyped, WalletTyped, KycTyped,
           \/ AlreadyVerified \/ ClaimIsSigned
           \/ \E q \in Requests : KycStatus(q)
    PROVE  OracleTyped' /\ KycTyped'
<1>1. ASSUME NEW q \in Requests, NEW verdict \in KycApprovals \cup {Rejected, Failed},
             AnswerKyc(q, verdict), UNCHANGED <<requests, vouched, kyc>>
      PROVE  KycTyped'
  <2>1. [request |-> q, verdict |-> verdict] \in KycAnswer
    BY DEF KycAnswer
  <2> QED BY <1>1, <2>1 DEF KycTyped, AnswerKyc
<1>2. CASE \E q \in Requests : KycStatus(q)
  <2>1. PICK q \in Requests : KycStatus(q)
    BY <1>2
  <2>2. CASE UNCHANGED oracle /\ (AnswerKyc(q, Rejected) \/ AnswerKyc(q, Failed))
    BY <1>1, <2>1, <2>2 DEF KycStatus, oracle, OracleTyped
  <2>3. CASE ClaimAndVerify(q)
    <3>1. PICK read \in {profile[address].score, 0} :
             Approve(address, read) /\ AnswerKyc(q, Approval(address, read))
      BY <2>3 DEF ClaimAndVerify
    <3>2. Approval(address, read) \in KycApprovals /\ OracleTyped'
      BY <3>1, ApprovalTyped DEF WalletTyped
    <3>3. UNCHANGED <<requests, vouched, kyc>>
      BY <2>1 DEF KycStatus
    <3> QED BY <1>1, <3>1, <3>2, <3>3
  <2> QED BY <2>1, <2>2, <2>3 DEF KycStatus
<1>3. CASE AlreadyVerified
  <2>1. kyc.asking \in Wallets
    BY <1>3 DEF AlreadyVerified, KycTyped
  <2>2. PICK read \in {profile[kyc.asking].score, 0} :
           /\ Approve(kyc.asking, read)
           /\ kyc' = [kyc EXCEPT !.asking = NoOne, !.data = Approval(kyc.asking, read)]
    BY <1>3 DEF AlreadyVerified
  <2>3. Approval(kyc.asking, read) \in KycApprovals /\ OracleTyped'
    BY <2>1, <2>2, ApprovalTyped
  <2>4. UNCHANGED <<requests, vouched, kycAnswers>>
    BY <1>3 DEF AlreadyVerified
  <2> DEFINE data == Approval(kyc.asking, read)
  <2> HIDE DEF data
  <2>5. kyc' = [kyc EXCEPT !.asking = NoOne, !.data = data] /\ data \in KycApprovals
    BY <2>2, <2>3 DEF data
  <2> QED BY <2>3, <2>4, <2>5 DEF KycTyped, KycStates
<1>4. CASE ClaimIsSigned
  <2>1. kyc.claimer \in Wallets
    BY <1>4 DEF ClaimIsSigned, KycTyped, KycStates
  <2>2. PICK read \in {profile[kyc.claimer].score, 0} :
           LET m == ScoreAttestation(kyc.claimer, Capped(read + KYC_SCORE_BONUS), drawn + 1)
           IN  Fresh(1) /\ Signed({m}) /\ kyc' = [kyc EXCEPT !.claim = m]
    BY <1>4 DEF ClaimIsSigned
  <2> DEFINE m == ScoreAttestation(kyc.claimer, Capped(read + KYC_SCORE_BONUS), drawn + 1)
  <2>3. m \in ScoreMessage
    BY <2>1, <2>2, RegistryAssumption
    DEF ScoreAttestation, ScoreMessage, Fresh, OracleTyped, RegistryTyped, Profiles, Scores,
        Nonces, Capped, Least, KYC_SCORE_BONUS
  <2>4. Cardinality({m}) = 1
    BY FS_Singleton
  <2>5. UNCHANGED <<sessions, reports, store, jobs, answers, requests, vouched, kycAnswers>>
    BY <1>4 DEF ClaimIsSigned
  <2> HIDE DEF m
  <2>6. Fresh(1) /\ Signed({m}) /\ kyc' = [kyc EXCEPT !.claim = m]
    BY <2>2 DEF m
  <2>7. OracleTyped'
    BY <2>3, <2>4, <2>5, <2>6, RegistryAssumption DEF OracleTyped, Signed, Messages, Fresh
  <2>8. KycTyped'
    BY <2>1, <2>3, <2>5, <2>6 DEF KycTyped, KycStates
  <2> QED BY <2>7, <2>8
<1> QED BY <1>2, <1>3, <1>4

(***************************************************************************)
(* The handlers of the identity page.                                       *)
(***************************************************************************)

LEMMA KycPageTyped ==
    ASSUME WalletTyped, KycTyped,
           \/ ClickVerifyIdentity \/ PollTimesOut \/ ClickTryAgain \/ ClickStopWaiting
           \/ ClickConfirm \/ ClickClaim \/ VerifyFails \/ ConfirmRefused \/ ClaimFails
           \/ VerifyIsSent \/ BonusIsSent \/ ClaimIsSent
           \/ \E q \in Requests : RequestOpens(q) \/ Consents(q)
           \/ \E a \in kycAnswers : KycAnswerArrives(a)
    PROVE  KycTyped'
<1>1. CASE ClickVerifyIdentity
  BY <1>1 DEF KycTyped, KycStates, ClickVerifyIdentity, WalletTyped
<1>2. CASE PollTimesOut
  BY <1>2 DEF KycTyped, KycStates, PollTimesOut
<1>3. CASE ClickTryAgain
  BY <1>3 DEF KycTyped, KycStates, ClickTryAgain
<1>4. CASE ClickStopWaiting
  BY <1>4 DEF KycTyped, KycStates, ClickStopWaiting
<1>5. CASE ClickConfirm
  BY <1>5 DEF KycTyped, KycStates, ClickConfirm, WalletTyped
<1>6. CASE ClickClaim
  BY <1>6 DEF KycTyped, KycStates, ClickClaim, WalletTyped
<1>7. CASE VerifyFails
  BY <1>7 DEF KycTyped, KycStates, VerifyFails
<1>8. CASE ConfirmRefused
  BY <1>8 DEF KycTyped, KycStates, ConfirmRefused, NoKycClosure
<1>9. CASE ClaimFails
  BY <1>9 DEF KycTyped, KycStates, ClaimFails
<1>10. CASE VerifyIsSent
  BY <1>10 DEF KycTyped, KycStates, VerifyIsSent
<1>11. CASE BonusIsSent
  BY <1>11 DEF KycTyped, KycStates, BonusIsSent, NoKycClosure
<1>12. CASE ClaimIsSent
  BY <1>12 DEF KycTyped, KycStates, ClaimIsSent
<1>13. ASSUME NEW q \in Requests, RequestOpens(q)
       PROVE  KycTyped'
  <2>1. kyc.asking \in Wallets
    BY <1>13 DEF KycTyped, KycStates, RequestOpens
  <2>2. [wallet |-> kyc.asking, status |-> "pending"] \in RequestStates
    BY <2>1 DEF RequestStates
  <2> QED BY <1>13, <2>2 DEF KycTyped, KycStates, RequestOpens, OpenRequest
<1>14. ASSUME NEW q \in Requests, Consents(q)
       PROVE  KycTyped'
  <2>1. requests[q] \in RequestStates
    BY <1>14 DEF KycTyped, Consents
  <2>2. requests[q].wallet \in Wallets
        /\ \A answer \in {"given", "rejected"} :
              [requests[q] EXCEPT !.status = answer] \in RequestStates
    BY <2>1 DEF RequestStates
  <2> QED BY <1>14, <2>2 DEF KycTyped, Consents
<1>15. ASSUME NEW a \in kycAnswers, KycAnswerArrives(a)
       PROVE  KycTyped'
  BY <1>15 DEF KycTyped, KycStates, KycAnswerArrives, KycAnswer
<1> QED
  BY <1>1, <1>2, <1>3, <1>4, <1>5, <1>6, <1>7, <1>8, <1>9, <1>10, <1>11, <1>12, <1>13,
     <1>14, <1>15

(***************************************************************************)
(* The handlers of the credit score page.                                   *)
(***************************************************************************)

LEMMA Web2PageTyped ==
    ASSUME OracleTyped, WalletTyped, Web2Typed,
           \/ \E type \in Types : ClickVerify(type) \/ ClickResync(type)
           \/ ClickCancel \/ SwitchRegion \/ ClickDismiss \/ ClickSubmit
           \/ SessionFails \/ PromptRefused \/ CommitIsSent \/ ScoreIsSent
    PROVE  Web2Typed'
<1>1. ASSUME NEW type \in Types, AsksFor(type)
      PROVE  Web2Typed'
  BY <1>1 DEF Web2Typed, Web2States, AsksFor, IsSubmitting, WalletTyped
<1>2. CASE ClickCancel
  BY <1>2 DEF Web2Typed, Web2States, ClickCancel, IsSubmitting
<1>3. CASE SwitchRegion
  BY <1>3 DEF Web2Typed, Web2States, SwitchRegion, IsSubmitting
<1>4. CASE ClickDismiss
  BY <1>4 DEF Web2Typed, Web2States, ClickDismiss, IsSubmitting
<1>5. CASE ClickSubmit
  <2> DEFINE type == IF web2.pending = None THEN None ELSE web2.pending.type
             phase == IF web2.result.commit = None THEN "scoring" ELSE "committing"
             closure == [address |-> address, result |-> web2.result, type |-> type]
  <2>1. web2.result \in Results /\ type \in Types \cup {None}
    BY <1>5 DEF Web2Typed, Web2States, ClickSubmit
  <2>2. phase = "committing" => web2.result.commit \in ProofMessage
    BY <2>1 DEF Results
  <2>3. web2' = [web2 EXCEPT !.phase = phase, !.closure = closure]
    BY <1>5 DEF ClickSubmit
  <2>4. phase \in {"scoring", "committing"}
    OBVIOUS
  <2> HIDE DEF type, phase
  <2>5. web2' \in Web2States /\ web2'.closure = closure /\ web2'.phase = phase
    BY <2>1, <2>3, <2>4 DEF Web2Typed, Web2States, Phases, WalletTyped
  <2>6. UNCHANGED <<doneProofs, persisted>>
    BY <1>5 DEF ClickSubmit
  <2> QED
    BY <2>1, <2>2, <2>5, <2>6 DEF Web2Typed, WalletTyped, IsSubmitting
<1>6. CASE SessionFails
  BY <1>6 DEF Web2Typed, Web2States, SessionFails, IsSubmitting
<1>7. CASE PromptRefused
  BY <1>7 DEF Web2Typed, Web2States, PromptRefused, IsSubmitting, Phases, NoClosure
<1>8. CASE CommitIsSent
  BY <1>8 DEF Web2Typed, Web2States, CommitIsSent, IsSubmitting, Phases
<1>9. CASE ScoreIsSent
  <2>1. web2' \in Web2States /\ web2'.phase = "done"
    BY <1>9 DEF Web2Typed, Web2States, ScoreIsSent, Phases, NoClosure
  <2>2. Finished(web2.closure.type) \subseteq Types /\ web2.closure.address \in Wallets
    BY <1>9 DEF Web2Typed, Web2States, ScoreIsSent, Finished, IsSubmitting
  <2>3. doneProofs' \subseteq Types
    BY <1>9, <2>2 DEF Web2Typed, ScoreIsSent
  <2>4. persisted' \in [Wallets -> SUBSET Types]
    BY <1>9, <2>2, <2>3 DEF Web2Typed, ScoreIsSent
  <2> QED BY <2>1, <2>3, <2>4 DEF Web2Typed, IsSubmitting
<1> QED
  BY <1>1, <1>2, <1>3, <1>4, <1>5, <1>6, <1>7, <1>8, <1>9 DEF ClickVerify, ClickResync

LEMMA AnswerArrivesTyped ==
    ASSUME OracleTyped, Web2Typed, NEW a \in answers, AnswerArrives(a)
    PROVE  Web2Typed' /\ answers' \subseteq Answers
BY DEF OracleTyped, Web2Typed, Web2States, AnswerArrives, Answers, Verdicts, IsSubmitting

(***************************************************************************)
(* The handlers of the child wallet page.                                   *)
(***************************************************************************)

(* Signing keeps what a step holds.                                         *)
LEMMA StepKept ==
    ASSUME NEW step, StepTyped(step, linkSigned), linkSigned \subseteq linkSigned'
    PROVE  StepTyped(step, linkSigned')
BY DEF StepTyped

LEMMA FreshStepTyped ==
    ASSUME NEW id \in {"idle", "checking", "submitting", "done"}
    PROVE  StepTyped(Step(id), linkSigned) /\ Step(id).id = id
BY DEF StepTyped, Step, Steps, SignaturesOrNone

LEMMA RestingTyped == HandlerTyped(Resting, linkSigned)
<1>1. Resting \in Handlers /\ Resting.awaits = "nothing" /\ Resting.with = Step("idle")
  BY DEF Resting, Handlers, Step, Steps, SignaturesOrNone
<1> QED BY <1>1, FreshStepTyped DEF HandlerTyped

LEMMA HandlerKept ==
    ASSUME NEW h, HandlerTyped(h, linkSigned), linkSigned \subseteq linkSigned'
    PROVE  HandlerTyped(h, linkSigned')
BY StepKept DEF HandlerTyped

LEMMA LinkMoves ==
    ASSUME LinkTyped, linkSigned \subseteq linkSigned', linkSigned' \subseteq LinkSignatures,
           NEW step, StepTyped(step, linkSigned'), NEW h, HandlerTyped(h, linkSigned'),
           NEW input \in Wallets \cup {NoOne},
           link' = [link EXCEPT !.step = step, !.input = input, !.handler = h]
    PROVE  LinkTyped'
<1>1. step \in Steps /\ h \in Handlers
  BY DEF StepTyped, HandlerTyped
<1>2. link' \in LinkStates /\ link'.step = step /\ link'.handler = h
  BY <1>1 DEF LinkTyped, LinkStates
<1> QED BY <1>2 DEF LinkTyped

(* A button that starts a handler.                                          *)
LEMMA StartsTyped ==
    ASSUME WalletTyped, LinkTyped, NEW what \in {"check", "masterSign", "childSign", "validate"},
           NEW step, StepTyped(step, linkSigned), Starts(what, step),
           what = "check" => link.input \in Wallets,
           what = "masterSign" => link.step.id = "nonce_ready",
           what = "childSign" => link.step.id = "master_signed"
    PROVE  LinkTyped'
<1> DEFINE h == [awaits |-> what, with |-> link.step, input |-> link.input, account |-> address]
<1>1. HandlerTyped(h, linkSigned)
  BY DEF HandlerTyped, Handlers, LinkTyped, LinkStates, StepTyped, WalletTyped
<1>2. UNCHANGED linkSigned
  BY DEF Starts
<1>3. link' = [link EXCEPT !.step = step, !.handler = h]
  BY DEF Starts
<1> HIDE DEF h
<1>4. link' = [link EXCEPT !.step = step, !.input = link.input, !.handler = h]
  BY <1>3 DEF LinkTyped, LinkStates
<1>5. link.input \in Wallets \cup {NoOne}
  BY DEF LinkTyped, LinkStates
<1> QED BY <1>1, <1>2, <1>4, <1>5, StepKept, HandlerKept, LinkMoves DEF LinkTyped

(* A handler that ends.                                                     *)
LEMMA EndsTyped ==
    ASSUME LinkTyped, linkSigned \subseteq linkSigned', linkSigned' \subseteq LinkSignatures,
           NEW step, StepTyped(step, linkSigned'), Ends(step)
    PROVE  LinkTyped'
<1>1. link' = [link EXCEPT !.step = step, !.input = link.input, !.handler = Resting]
  BY DEF Ends, LinkTyped, LinkStates
<1>2. link.input \in Wallets \cup {NoOne}
  BY DEF LinkTyped, LinkStates
<1> QED BY <1>1, <1>2, RestingTyped, HandlerKept, LinkMoves

(* Being on the child asks for its signature.                               *)
LEMMA AskedTyped ==
    ASSUME NEW signed, NEW l \in LinkStates, NEW account \in Wallets,
           StepTyped(l.step, signed), HandlerTyped(l.handler, signed)
    PROVE  /\ AskedOnChild(l, account) \in LinkStates
           /\ StepTyped(AskedOnChild(l, account).step, signed)
           /\ HandlerTyped(AskedOnChild(l, account).handler, signed)
<1> DEFINE h == [awaits |-> "childSign", with |-> l.step, input |-> l.input, account |-> account]
<1>1. CASE l.step.id = "master_signed"
  <2>1. HandlerTyped(h, signed)
    BY <1>1 DEF HandlerTyped, Handlers, LinkStates, StepTyped
  <2> HIDE DEF h
  <2>2. /\ [l EXCEPT !.handler = h] \in LinkStates
        /\ [l EXCEPT !.handler = h].step = l.step
        /\ [l EXCEPT !.handler = h].handler = h
    BY <2>1 DEF LinkStates, HandlerTyped
  <2> QED BY <2>1, <2>2 DEF AskedOnChild, h
<1> QED BY <1>1 DEF AskedOnChild

LEMMA SignatureTyped ==
    ASSUME WalletTyped, LinkTyped, link.handler.with.offer \in Offers
    PROVE  Signature \in LinkSignatures
BY DEF Signature, LinkSignatures, Offers, WalletTyped

(* What is signed is the message of the step, and goes into the step.       *)
LEMMA SignsTyped ==
    ASSUME WalletTyped, LinkTyped, link.handler.with.id \in {"nonce_ready", "master_signed"},
           linkSigned' = linkSigned \cup {Signature}
    PROVE  /\ linkSigned \subseteq linkSigned' /\ linkSigned' \subseteq LinkSignatures
           /\ StepTyped([link.handler.with EXCEPT !.id = "master_signed",
                                                 !.masterSig = Signature], linkSigned')
           /\ [link.handler.with EXCEPT !.id = "master_signed",
                                       !.masterSig = Signature].id = "master_signed"
           /\ StepTyped([link.handler.with EXCEPT !.id = "child_signed",
                                                 !.childSig = Signature], linkSigned')
<1> DEFINE sig == Signature
           step == link.handler.with
<1>1. step \in Steps /\ StepTyped(step, linkSigned) /\ step.offer \in Offers
  BY DEF LinkTyped, HandlerTyped, StepTyped
<1>2. sig \in LinkSignatures
  BY <1>1, SignatureTyped
<1>3. linkSigned' = linkSigned \cup {sig} /\ linkSigned \subseteq LinkSignatures
  BY DEF LinkTyped
<1> HIDE DEF sig
<1>4. [step EXCEPT !.id = "master_signed", !.masterSig = sig] \in Steps
      /\ [step EXCEPT !.id = "child_signed", !.childSig = sig] \in Steps
  BY <1>1, <1>2 DEF Steps, SignaturesOrNone
<1>5. StepTyped([step EXCEPT !.id = "master_signed", !.masterSig = sig], linkSigned')
  BY <1>1, <1>3, <1>4 DEF StepTyped, Steps
<1>6. StepTyped([step EXCEPT !.id = "child_signed", !.childSig = sig], linkSigned')
  BY <1>1, <1>3, <1>4 DEF StepTyped, Steps
<1>7. [step EXCEPT !.id = "master_signed", !.masterSig = sig].id = "master_signed"
  BY <1>1 DEF Steps
<1> QED BY <1>2, <1>3, <1>5, <1>6, <1>7 DEF sig

LEMMA WalletsPageTyped ==
    ASSUME OracleTyped, WalletTyped, LinkTyped,
           \/ \E w \in Wallets : TypeChild(w)
           \/ ClickPrepare \/ ClickMasterSign \/ MasterSigns \/ ClickChildSign \/ ChildSigns
           \/ ClickLink \/ ValidationPasses \/ ClickReset
           \/ CheckRefuses \/ MasterRefuses \/ ChildRefuses \/ ValidationFails \/ LinkRefused
           \/ CheckAnswers \/ LinkIsSent
    PROVE  LinkTyped'
<1>1. link.input \in Wallets \cup {NoOne} /\ link.step \in Steps /\ link.handler \in Handlers
      /\ linkSigned \subseteq LinkSignatures
  BY DEF LinkTyped, LinkStates
<1>2. ASSUME NEW id \in {"idle", "checking", "submitting", "done"}, UNCHANGED linkSigned
      PROVE  StepTyped(Step(id), linkSigned')
  BY <1>2, FreshStepTyped, StepKept
<1>3. CASE \E w \in Wallets : TypeChild(w)
  <2>1. PICK w \in Wallets : link' = [link EXCEPT !.input = w] /\ UNCHANGED linkSigned
    BY <1>3 DEF TypeChild
  <2>2. link' = [link EXCEPT !.step = link.step, !.input = w, !.handler = link.handler]
    BY <2>1 DEF LinkTyped, LinkStates
  <2> QED BY <1>1, <2>1, <2>2, StepKept, HandlerKept, LinkMoves DEF LinkTyped
<1>4. CASE ClickPrepare
  BY <1>1, <1>4, FreshStepTyped, StartsTyped DEF ClickPrepare
<1>5. CASE ClickMasterSign
  BY <1>5, StartsTyped DEF ClickMasterSign, AtStep, LinkTyped
<1>6. CASE ClickChildSign
  BY <1>6, StartsTyped DEF ClickChildSign, AtStep, LinkTyped
<1>7. CASE ClickLink
  BY <1>7, FreshStepTyped, StartsTyped DEF ClickLink
<1>8. CASE CheckRefuses \/ MasterRefuses \/ ValidationFails \/ LinkRefused
  <2>1. Ends(Step("idle")) /\ UNCHANGED linkSigned
    BY <1>8 DEF CheckRefuses, MasterRefuses, ValidationFails, LinkRefused
  <2> QED BY <1>1, <1>2, <2>1, EndsTyped
<1>9. CASE ChildRefuses
  <2>1. Ends(link.step) /\ UNCHANGED linkSigned
    BY <1>9 DEF ChildRefuses
  <2> QED BY <1>1, <2>1, StepKept, EndsTyped DEF LinkTyped
<1>10. CASE CheckAnswers
  <2> DEFINE offer == [master |-> link.handler.account, child |-> link.handler.input,
                       nonce |-> drawn + 1]
             step == [Step("nonce_ready") EXCEPT !.offer = offer]
  <2>1. offer \in Offers
    BY <1>10, RegistryAssumption
    DEF CheckAnswers, Awaits, LinkTyped, HandlerTyped, Offers, Fresh, OracleTyped, Nonces
  <2> HIDE DEF offer
  <2>2. StepTyped(step, linkSigned)
    BY <2>1 DEF StepTyped, Step, Steps, SignaturesOrNone
  <2>3. Ends(step) /\ UNCHANGED linkSigned
    BY <1>10 DEF CheckAnswers, offer
  <2> HIDE DEF step
  <2> QED BY <1>1, <2>2, <2>3, StepKept, EndsTyped
<1>11. CASE MasterSigns
  <2> DEFINE step == [link.handler.with EXCEPT !.id = "master_signed", !.masterSig = Signature]
             l == [link EXCEPT !.handler = Resting, !.step = step]
  <2>1. /\ linkSigned \subseteq linkSigned' /\ linkSigned' \subseteq LinkSignatures
        /\ StepTyped(step, linkSigned')
    BY <1>11, SignsTyped DEF MasterSigns, Awaits, LinkTyped, HandlerTyped
  <2>2. link' = AskedOnChild(l, address)
    BY <1>11 DEF MasterSigns
  <2> HIDE DEF step
  <2>3. step \in Steps /\ Resting \in Handlers
    BY <2>1, RestingTyped DEF StepTyped, HandlerTyped
  <2>4. l \in LinkStates /\ l.step = step /\ l.handler = Resting
    BY <2>3 DEF LinkTyped, LinkStates
  <2> HIDE DEF l
  <2>5. HandlerTyped(Resting, linkSigned')
    BY <2>1, RestingTyped, HandlerKept
  <2> QED BY <2>1, <2>2, <2>4, <2>5, AskedTyped DEF LinkTyped, WalletTyped
<1>12. CASE ChildSigns
  <2> DEFINE step == [link.handler.with EXCEPT !.id = "child_signed", !.childSig = Signature]
  <2>1. /\ linkSigned \subseteq linkSigned' /\ linkSigned' \subseteq LinkSignatures
        /\ StepTyped(step, linkSigned')
    BY <1>12, SignsTyped DEF ChildSigns, Awaits, LinkTyped, HandlerTyped
  <2>2. Ends(step)
    BY <1>12 DEF ChildSigns
  <2> HIDE DEF step
  <2> QED BY <2>1, <2>2, EndsTyped
<1>13. CASE ValidationPasses
  <2> DEFINE h == [link.handler EXCEPT !.awaits = "send"]
  <2>1. LinkValid(h) /\ h \in Handlers /\ h.with = link.handler.with
        /\ h.account = link.handler.account /\ h.awaits = "send"
    BY <1>1, <1>13 DEF ValidationPasses, LinkValid, Handlers
  <2>2. HandlerTyped(h, linkSigned)
    BY <1>13, <2>1 DEF HandlerTyped, LinkTyped, ValidationPasses, Awaits
  <2>3. link' = [link EXCEPT !.handler = h] /\ UNCHANGED linkSigned
    BY <1>13 DEF ValidationPasses
  <2> HIDE DEF h
  <2>4. link' = [link EXCEPT !.step = link.step, !.input = link.input, !.handler = h]
    BY <2>3 DEF LinkTyped, LinkStates
  <2> QED BY <1>1, <2>2, <2>3, <2>4, StepKept, HandlerKept, LinkMoves DEF LinkTyped
<1>14. CASE ClickReset
  <2>1. link' = [link EXCEPT !.step = Step("idle"), !.input = NoOne] /\ UNCHANGED linkSigned
    BY <1>14 DEF ClickReset
  <2>2. link' = [link EXCEPT !.step = Step("idle"), !.input = NoOne, !.handler = link.handler]
    BY <2>1 DEF LinkTyped, LinkStates
  <2> QED BY <1>1, <1>2, <2>1, <2>2, HandlerKept, LinkMoves DEF LinkTyped
<1>15. CASE LinkIsSent
  <2>1. link' = [FreshLink EXCEPT !.step = Step("done")] /\ UNCHANGED linkSigned
    BY <1>15 DEF LinkIsSent
  <2>2. Step("done") \in Steps /\ Resting \in Handlers
    BY FreshStepTyped, RestingTyped DEF StepTyped, HandlerTyped
  <2>3. link' \in LinkStates /\ link'.step = Step("done") /\ link'.handler = Resting
    BY <2>1, <2>2 DEF FreshLink, LinkStates
  <2> QED BY <1>1, <1>2, <2>1, <2>3, RestingTyped, HandlerKept DEF LinkTyped
<1> QED
  BY <1>3, <1>4, <1>5, <1>6, <1>7, <1>8, <1>9, <1>10, <1>11, <1>12, <1>13, <1>14, <1>15

(***************************************************************************)
(* What is sent, and what it does when it is mined.                         *)
(***************************************************************************)

LEMMA SentTyped ==
    ASSUME WalletTyped, NEW t \in Sendable, Send(t), linkSigned \subseteq linkSigned'
    PROVE  WalletTyped'
<1>1. Sendable \subseteq Sendable'
  BY DEF Sendable
<1>2. Append(mempool[address], t) \in Seq(Sendable)
  BY DEF WalletTyped
<1>3. mempool' \in [Wallets -> Seq(Sendable)] /\ address' \in Wallets
  BY <1>2 DEF WalletTyped, Send
<1> QED BY <1>1, <1>3, SeqMonotonic DEF WalletTyped

LEMMA WalletKept ==
    ASSUME WalletTyped, UNCHANGED wallet, linkSigned \subseteq linkSigned'
    PROVE  WalletTyped'
<1>1. Sendable \subseteq Sendable'
  BY DEF Sendable
<1> QED BY <1>1, SeqMonotonic DEF WalletTyped, wallet

LEMMA CalledFor ==
    ASSUME NEW w \in Wallets
    PROVE  /\ \A m \in ScoreMessage : CallFor(w, m) \in Sendable
           /\ \A m \in ProofMessage : CallFor(w, m) \in Sendable
<1>1. ASSUME NEW m \in ScoreMessage
      PROVE  CallFor(w, m) \in ScoreMessage
  BY DEF CallFor, ScoreMessage
<1>2. ASSUME NEW m \in ProofMessage
      PROVE  CallFor(w, m) \in ProofMessage
  BY DEF CallFor, ProofMessage
<1> QED BY <1>1, <1>2 DEF Sendable, Messages

LEMMA PageSendsTyped ==
    ASSUME WalletTyped, Web2Typed, KycTyped, LinkTyped, linkSigned \subseteq linkSigned',
           CommitIsSent \/ ScoreIsSent \/ VerifyIsSent \/ BonusIsSent \/ ClaimIsSent \/ LinkIsSent
    PROVE  WalletTyped'
<1>1. CASE CommitIsSent
  BY <1>1, CalledFor, SentTyped DEF CommitIsSent, Web2Typed, IsSubmitting
<1>2. CASE ScoreIsSent
  BY <1>2, CalledFor, SentTyped DEF ScoreIsSent, Web2Typed, IsSubmitting, Results
<1>3. CASE VerifyIsSent
  <2>1. kyc.closure.data.kyc \in Sendable
    BY <1>3 DEF VerifyIsSent, KycTyped, KycApprovals, Sendable, Messages
  <2> QED BY <1>3, <2>1, SentTyped DEF VerifyIsSent
<1>4. CASE BonusIsSent
  BY <1>4, CalledFor, SentTyped DEF BonusIsSent, KycTyped, KycApprovals
<1>5. CASE ClaimIsSent
  BY <1>5, CalledFor, SentTyped DEF ClaimIsSent, KycTyped, KycStates
<1>6. CASE LinkIsSent
  <2> DEFINE h == link.handler
             nonce == h.with.offer.nonce
             t == [fn |-> "linkChildWallet", from |-> address, child |-> h.input,
                   nonce |-> nonce, masterSig |-> h.with.masterSig, childSig |-> h.with.childSig]
  <2>1. LinkValid(h) /\ h.account \in Wallets
    BY <1>6 DEF LinkIsSent, Awaits, LinkTyped, HandlerTyped
  <2>2. h.with.masterSig \in linkSigned \cup {Unsigned} /\ h.with.childSig \in linkSigned \cup {Unsigned}
    BY DEF LinkTyped, HandlerTyped, StepTyped
  <2>3. h.with.masterSig # Unsigned
    BY <2>1, RegistryAssumption DEF LinkValid, LinkSignature, Unsigned
  <2>4. h.input \in Wallets /\ nonce \in Nonces
    BY <2>1, <2>2, <2>3 DEF LinkTyped, LinkValid, LinkSignature, LinkSignatures
  <2>5. h.with.childSig # Unsigned
    BY <2>1, <2>4, RegistryAssumption DEF LinkValid, LinkSignature, Unsigned
  <2>6. t \in LinkCall /\ {t.masterSig, t.childSig} \subseteq linkSigned
    BY <2>2, <2>3, <2>4, <2>5 DEF LinkCall, WalletTyped, LinkTyped
  <2>7. Send(t)
    BY <1>6 DEF LinkIsSent
  <2> HIDE DEF t
  <2> QED BY <2>6, <2>7, SentTyped DEF Sendable
<1> QED BY <1>1, <1>2, <1>3, <1>4, <1>5, <1>6

LEMMA ExecuteTyped ==
    ASSUME RegistryTyped, OracleTyped, NEW t \in Transactions, Execute(t), UNCHANGED now
    PROVE  RegistryTyped'
<1>1. CASE t.fn = "verifyKYC" /\ VerifyKYC(t)
  <2>1. t \in KycMessage
    BY <1>1 DEF Transactions, Messages, KycMessage, ScoreMessage, ProofMessage, LinkCall
  <2>2. profile[t.master] \in Profiles /\ t.master \in Wallets /\ t.expiry \in Nat
        /\ t.nonce \in Nonces
    BY <2>1 DEF RegistryTyped, KycMessage
  <2>3. [[profile[t.master] EXCEPT !.verified = TRUE] EXCEPT !.expiry = t.expiry] \in Profiles
    BY <2>2 DEF Profiles
  <2>4. profile' \in [Wallets -> Profiles]
    BY <1>1, <2>2, <2>3 DEF VerifyKYC, RegistryTyped
  <2> QED BY <1>1, <2>2, <2>4 DEF VerifyKYC, RegistryTyped
<1>2. CASE t.fn = "updateCreditScore" /\ UpdateCreditScore(t)
  <2>1. t \in ScoreMessage
    BY <1>2 DEF Transactions, Messages, KycMessage, ScoreMessage, ProofMessage, LinkCall
  <2>2. [profile[t.master] EXCEPT !.score = t.score] \in Profiles
    BY <2>1 DEF RegistryTyped, ScoreMessage, Profiles
  <2> QED BY <1>2, <2>1, <2>2 DEF UpdateCreditScore, RegistryTyped, ScoreMessage
<1>3. CASE t.fn = "commitZKProof" /\ CommitZKProof(t)
  <2>1. t \in ProofMessage
    BY <1>3 DEF Transactions, Messages, KycMessage, ScoreMessage, ProofMessage, LinkCall
  <2>2. Committed(t) \in Commits
    BY <2>1 DEF Committed, Commits, ProofMessage
  <2> QED BY <1>3, <2>1, <2>2 DEF CommitZKProof, RegistryTyped, ProofMessage
<1>4. CASE t.fn = "linkChildWallet" /\ LinkChildWallet(t)
  <2>1. t \in LinkCall
    BY <1>4 DEF Transactions, Messages, KycMessage, ScoreMessage, ProofMessage, LinkCall
  <2> QED BY <1>4, <2>1 DEF LinkChildWallet, RegistryTyped, LinkCall
<1>5. CASE UNCHANGED registry
  BY <1>5 DEF registry, RegistryTyped
<1> QED BY <1>1, <1>2, <1>3, <1>4, <1>5 DEF Execute

LEMMA MiningTyped ==
    ASSUME RegistryTyped, OracleTyped, WalletTyped, NEW w \in Wallets, Mine(w),
           UNCHANGED <<now, linkSigned>>
    PROVE  RegistryTyped' /\ WalletTyped'
<1>1. Head(mempool[w]) \in Sendable /\ Tail(mempool[w]) \in Seq(Sendable)
  BY HeadTailProperties DEF Mine, WalletTyped
<1>2. RegistryTyped'
  BY <1>1, ExecuteTyped DEF Mine, Sendable, Transactions
<1>3. mempool' \in [Wallets -> Seq(Sendable)] /\ address' \in Wallets
  BY <1>1 DEF Mine, WalletTyped
<1>4. Sendable' = Sendable
  BY DEF Sendable
<1> QED BY <1>2, <1>3, <1>4 DEF WalletTyped

LEMMA RevocationTyped ==
    ASSUME RegistryTyped, NEW w \in Wallets, RevokeKYC(w), UNCHANGED now
    PROVE  RegistryTyped'
<1>1. [profile[w] EXCEPT !.verified = FALSE] \in Profiles
  BY DEF RegistryTyped, Profiles
<1> QED BY <1>1 DEF RevokeKYC, RegistryTyped

(***************************************************************************)
(* The invariant.                                                           *)
(***************************************************************************)

LEMMA RepInit == Init => RepInv
<1> SUFFICES ASSUME Init PROVE RepInv
  OBVIOUS
<1>1. RegistryTyped
  BY SystemAssumption DEF Init, Deployed, RegistryTyped
<1>2. OracleTyped
  BY RegistryAssumption DEF Init, OracleStarted, OracleTyped
<1>3. WalletTyped
  BY EmptySeq DEF Init, WalletStarted, WalletTyped
<1>4. Web2Typed
  BY DEF Init, FreshWeb2, NoClosure, Web2Typed, Web2States, Phases, IsSubmitting
<1>5. KycTyped
  BY DEF Init, QIEPassStarted, FreshKyc, NoKycClosure, KycTyped, KycStates
<1>6. LinkTyped
  <2>1. Step("idle") \in Steps /\ Resting \in Handlers
    BY FreshStepTyped, RestingTyped DEF StepTyped, HandlerTyped
  <2>2. link \in LinkStates /\ link.step = Step("idle") /\ link.handler = Resting
    BY <2>1 DEF Init, FreshLink, LinkStates
  <2> QED BY <2>2, FreshStepTyped, RestingTyped DEF Init, LinkTyped
<1>7. page \in Pages
  BY DEF Init
<1> QED BY <1>1, <1>2, <1>3, <1>4, <1>5, <1>6, <1>7 DEF RepInv, PagesTyped

LEMMA RegistryKept ==
    ASSUME RegistryTyped, UNCHANGED <<now, registry>>
    PROVE  RegistryTyped'
BY DEF RegistryTyped, registry

LEMMA OracleKept ==
    ASSUME OracleTyped, UNCHANGED oracle
    PROVE  OracleTyped'
BY DEF OracleTyped, oracle

LEMMA Web2Kept ==
    ASSUME Web2Typed, UNCHANGED web2page
    PROVE  Web2Typed'
BY DEF Web2Typed, web2page, IsSubmitting

LEMMA KycKept ==
    ASSUME KycTyped, UNCHANGED kycpage
    PROVE  KycTyped'
BY DEF KycTyped, kycpage

LEMMA LinkKept ==
    ASSUME LinkTyped, UNCHANGED walletspage
    PROVE  LinkTyped' /\ linkSigned \subseteq linkSigned'
BY DEF LinkTyped, walletspage

LEMMA OnWeb2Typed == RepInv /\ OnWeb2 => RepInv'
<1> SUFFICES ASSUME RepInv, OnWeb2 PROVE RepInv'
  OBVIOUS
<1> USE DEF RepInv, PagesTyped
<1>1. UNCHANGED <<now, registry, kycpage, walletspage, page>>
  BY DEF OnWeb2
<1>2. RegistryTyped' /\ KycTyped' /\ LinkTyped' /\ page' \in Pages /\ linkSigned \subseteq linkSigned'
  BY <1>1, RegistryKept, KycKept, LinkKept
<1>3. CASE UNCHANGED <<oracle, wallet>> /\
           \/ \E type \in Types : ClickVerify(type) \/ ClickResync(type)
           \/ ClickCancel \/ SwitchRegion \/ ClickDismiss \/ ClickSubmit
           \/ SessionFails \/ PromptRefused
  BY <1>2, <1>3, OracleKept, WalletKept, Web2PageTyped
<1>4. CASE \E s \in Sessions : SessionOpens(s) /\ UNCHANGED wallet
  BY <1>2, <1>4, WalletKept, SessionOpensTyped
<1>5. CASE /\ \E a \in answers : AnswerArrives(a)
           /\ UNCHANGED <<attested, drawn, sessions, reports, store, jobs, wallet>>
  <2>1. Web2Typed' /\ answers' \subseteq Answers
    BY <1>5, AnswerArrivesTyped
  <2>2. OracleTyped'
    BY <1>5, <2>1 DEF OracleTyped
  <2> QED BY <1>2, <1>5, <2>1, <2>2, WalletKept
<1>6. CASE (CommitIsSent \/ ScoreIsSent) /\ UNCHANGED oracle
  BY <1>2, <1>6, OracleKept, PageSendsTyped, Web2PageTyped
<1> QED BY <1>3, <1>4, <1>5, <1>6 DEF OnWeb2

LEMMA OnKycTyped == RepInv /\ OnKyc => RepInv'
<1> SUFFICES ASSUME RepInv, OnKyc PROVE RepInv'
  OBVIOUS
<1> USE DEF RepInv, PagesTyped
<1>1. UNCHANGED <<now, registry, web2page, walletspage, page>>
  BY DEF OnKyc
<1>2. RegistryTyped' /\ Web2Typed' /\ LinkTyped' /\ page' \in Pages /\ linkSigned \subseteq linkSigned'
  BY <1>1, RegistryKept, Web2Kept, LinkKept
<1>3. CASE UNCHANGED <<oracle, wallet>> /\
           \/ ClickVerifyIdentity \/ PollTimesOut \/ ClickTryAgain \/ ClickStopWaiting
           \/ ClickConfirm \/ ClickClaim \/ VerifyFails \/ ConfirmRefused \/ ClaimFails
           \/ \E q \in Requests : RequestOpens(q)
           \/ \E a \in kycAnswers : KycAnswerArrives(a)
  BY <1>2, <1>3, OracleKept, WalletKept, KycPageTyped
<1>4. CASE UNCHANGED oracle /\ (VerifyIsSent \/ BonusIsSent \/ ClaimIsSent)
  BY <1>2, <1>4, OracleKept, PageSendsTyped, KycPageTyped
<1>5. CASE UNCHANGED wallet /\ (AlreadyVerified \/ ClaimIsSigned \/ \E q \in Requests : KycStatus(q))
  BY <1>2, <1>5, WalletKept, KycRoutesTyped
<1> QED BY <1>3, <1>4, <1>5 DEF OnKyc

LEMMA OnWalletsTyped == RepInv /\ OnWallets => RepInv'
<1> SUFFICES ASSUME RepInv, OnWallets PROVE RepInv'
  OBVIOUS
<1> USE DEF RepInv, PagesTyped
<1>1. UNCHANGED <<now, registry, web2page, kycpage, page>>
  BY DEF OnWallets
<1>2. RegistryTyped' /\ Web2Typed' /\ KycTyped' /\ page' \in Pages
  BY <1>1, RegistryKept, Web2Kept, KycKept
<1>3. LinkTyped'
  BY WalletsPageTyped DEF OnWallets
<1>4. linkSigned \subseteq linkSigned'
  BY DEF OnWallets, TypeChild, ClickPrepare, ClickMasterSign, MasterSigns, ClickChildSign,
         ChildSigns, ClickLink, ValidationPasses, ClickReset, CheckRefuses, MasterRefuses,
         ChildRefuses, ValidationFails, LinkRefused, CheckAnswers, LinkIsSent, Starts
<1>5. OracleTyped'
  <2>1. CASE UNCHANGED oracle
    BY <2>1, OracleKept
  <2>2. CASE CheckAnswers
    BY <2>2, RegistryAssumption DEF CheckAnswers, Fresh, OracleTyped
  <2> QED BY <2>1, <2>2 DEF OnWallets
<1>6. WalletTyped'
  <2>1. CASE UNCHANGED wallet
    BY <1>4, <2>1, WalletKept
  <2>2. CASE LinkIsSent
    BY <1>4, <2>2, PageSendsTyped
  <2> QED BY <2>1, <2>2 DEF OnWallets
<1> QED BY <1>2, <1>3, <1>5, <1>6

LEMMA RepNext == RepInv /\ [Next]_vars => RepInv'
<1> SUFFICES ASSUME RepInv, [Next]_vars PROVE RepInv'
  OBVIOUS
<1> USE DEF RepInv, PagesTyped
<1>1. CASE UNCHANGED vars
  BY <1>1, RegistryKept, OracleKept, WalletKept, Web2Kept, KycKept, LinkKept
  DEF vars, registry, oracle, wallet, web2page, kycpage, walletspage
<1>2. CASE NewDay
  BY <1>2, OracleKept, WalletKept, Web2Kept, KycKept, LinkKept
  DEF NewDay, RegistryTyped, registry
<1>3. CASE Revocation
  BY <1>3, RevocationTyped, OracleKept, WalletKept, Web2Kept, KycKept, LinkKept
  DEF Revocation
<1>4. CASE Mining
  BY <1>4, MiningTyped, OracleKept, Web2Kept, KycKept, LinkKept DEF Mining, walletspage
<1>5. CASE AccountSwitch
  <2>1. PICK w \in Wallets : AccountSwitched(w) /\ doneProofs' = LoadedFor(w, doneProofs)
    BY <1>5 DEF AccountSwitch
  <2>2. UNCHANGED <<now, registry, oracle, web2, persisted, kycpage, page, linkSigned, mempool>>
    BY <1>5, <2>1 DEF AccountSwitch, AccountSwitched, SwitchAccount
  <2>3. WalletTyped'
    BY <2>1, <2>2 DEF AccountSwitched, SwitchAccount, WalletTyped, Sendable
  <2>4. Web2Typed'
    BY <2>1, <2>2 DEF LoadedFor, Web2Typed, IsSubmitting
  <2>5. LinkTyped'
    BY <2>1, <2>2, AskedTyped DEF AccountSwitched, LinkTyped
  <2> QED BY <2>2, <2>3, <2>4, <2>5, RegistryKept, OracleKept, KycKept
<1>6. CASE OracleStep \/ OracleRequest \/ OracleFault
  BY <1>6, OracleStepTyped, RegistryKept, WalletKept, Web2Kept, KycKept, LinkKept
  DEF OracleStep, OracleRequest, OracleFault
<1>7. CASE Polls
  BY <1>7, OracleStepTyped, RegistryKept, WalletKept, Web2Kept, KycKept, LinkKept
  DEF Polls
<1>8. CASE OnWeb2 BY <1>8, OnWeb2Typed
<1>9. CASE OnKyc BY <1>9, OnKycTyped
<1>10. CASE QIEPassAnswers
  BY <1>10, KycPageTyped, RegistryKept, OracleKept, WalletKept, Web2Kept, LinkKept
  DEF QIEPassAnswers
<1>11. CASE OnWallets BY <1>11, OnWalletsTyped
<1>12. CASE SentElsewhere
  <2>1. UNCHANGED <<now, registry, oracle, address, web2page, kycpage, walletspage, page>>
    BY <1>12 DEF SentElsewhere
  <2>2. ASSUME NEW w \in Wallets, NEW t \in Sendable,
               mempool' = [mempool EXCEPT ![w] = Append(@, t)]
        PROVE  WalletTyped'
    <3>1. mempool' \in [Wallets -> Seq(Sendable)] /\ Sendable' = Sendable
      BY <2>1, <2>2 DEF WalletTyped, Sendable, walletspage
    <3> QED BY <2>1, <3>1 DEF WalletTyped
  <2>3. ASSUME NEW w \in Wallets, NEW child \in Wallets, NEW n \in Nonces,
               NEW masterSig \in linkSigned, NEW childSig \in linkSigned
        PROVE  [fn |-> "linkChildWallet", from |-> w, child |-> child, nonce |-> n,
                masterSig |-> masterSig, childSig |-> childSig] \in Sendable
    BY DEF Sendable, LinkCall, LinkTyped
  <2>4. attested \subseteq Sendable
    BY DEF OracleTyped, Sendable
  <2>5. WalletTyped'
    BY <1>12, <2>2, <2>3, <2>4 DEF SentElsewhere
  <2> QED BY <2>1, <2>5, RegistryKept, OracleKept, Web2Kept, KycKept, LinkKept
<1>13. CASE \E p \in Pages : OpenPage(p)
  <2>1. PICK p \in Pages : OpenPage(p)
    BY <1>13
  <2>2. UNCHANGED <<now, registry, attested, drawn, sessions, reports, store, wallet,
                    persisted, requests, vouched, linkSigned>> /\ page' \in Pages
    BY <2>1 DEF OpenPage
  <2>3. OracleTyped'
    <3>1. ASSUME NEW j \in jobs
          PROVE  [j EXCEPT !.via = "gone"] \in Jobs /\ [j EXCEPT !.via = "gone"].proof = j.proof
      BY DEF OracleTyped, Jobs
    <3>2. jobs' = Unheard /\ answers' = {}
      BY <2>1 DEF OpenPage
    <3>3. ASSUME NEW k \in Unheard
          PROVE  k \in Jobs /\ reports[k.proof] # None
      <4>1. PICK j \in jobs : k = IF j.via = "page" THEN [j EXCEPT !.via = "gone"] ELSE j
        BY DEF Unheard
      <4>2. j \in Jobs /\ reports[j.proof] # None
        BY DEF OracleTyped
      <4>3. CASE j.via = "page"
        BY <3>1, <4>1, <4>2, <4>3
      <4>4. CASE j.via # "page"
        BY <4>1, <4>2, <4>4
      <4> QED BY <4>3, <4>4
    <3> QED BY <2>2, <3>2, <3>3 DEF OracleTyped
  <2>4. Web2Typed'
    BY <2>1, <2>2 DEF OpenPage, WalletTyped, Web2Typed, FreshWeb2, NoClosure, Web2States, Phases,
                      IsSubmitting
  <2>5. KycTyped'
    BY <2>1, <2>2 DEF OpenPage, FreshKyc, NoKycClosure, KycTyped, KycStates
  <2>6. LinkTyped'
    <3>1. Step("idle") \in Steps /\ Resting \in Handlers
      BY FreshStepTyped, RestingTyped DEF StepTyped, HandlerTyped
    <3>2. link' \in LinkStates /\ link'.step = Step("idle") /\ link'.handler = Resting
      BY <2>1, <3>1 DEF OpenPage, FreshLink, LinkStates
    <3> QED BY <2>2, <3>2, FreshStepTyped, RestingTyped DEF LinkTyped
  <2> QED BY <2>2, <2>3, <2>4, <2>5, <2>6, RegistryKept, WalletKept
<1> QED
  BY <1>1, <1>2, <1>3, <1>4, <1>5, <1>6, <1>7, <1>8, <1>9, <1>10, <1>11, <1>12, <1>13
  DEF Next

THEOREM RepInvHolds == Spec => []RepInv
BY RepInit, RepNext, PTL DEF Spec

(* RepTypeOK: the registry, the backend, the wallets and the three pages     *)
(* keep the shape of their state, and nonces stay in the range drawn so far. *)
THEOREM ReputationTypeCorrect == Spec => []RepTypeOK
<1>1. RepInv => RepTypeOK
  <2> SUFFICES ASSUME RepInv PROVE RepTypeOK
    OBVIOUS
  <2>1. Sendable \subseteq Transactions
    BY DEF Sendable, Transactions
  <2>2. mempool \in [Wallets -> Seq(Transactions)]
    BY <2>1, SeqMonotonic DEF RepInv, PagesTyped, WalletTyped
  <2> QED
    BY <2>2 DEF RepInv, RegistryTyped, OracleTyped, PagesTyped, WalletTyped, Web2Typed,
                KycTyped, LinkTyped, RepTypeOK
<1> QED BY <1>1, RepInvHolds, PTL


(* The transaction that is mined next for an account.                       *)
Mined(t) == \E w \in Wallets : mempool[w] # <<>> /\ t = Head(mempool[w])

LEMMA MinedIsSendable ==
    ASSUME RepInv, NEW t, Mined(t)
    PROVE  t \in Sendable
BY HeadTailProperties DEF Mined, RepInv, PagesTyped, WalletTyped

(* The registry is written by a mined transaction, a revocation, or not.    *)
LEMMA RegistryMoves ==
    ASSUME [Next]_vars
    PROVE  \/ UNCHANGED registry
           \/ \E t : Mined(t) /\ Execute(t)
           \/ \E w \in Wallets : RevokeKYC(w)
<1>1. CASE UNCHANGED vars
  BY <1>1 DEF vars, registry
<1>2. CASE NewDay BY <1>2 DEF NewDay
<1>3. CASE Revocation BY <1>3 DEF Revocation
<1>4. CASE Mining BY <1>4 DEF Mining, Mine, Mined
<1>5. CASE AccountSwitch BY <1>5 DEF AccountSwitch
<1>6. CASE OracleStep \/ OracleRequest BY <1>6 DEF OracleStep, OracleRequest
<1>7. CASE OracleFault BY <1>7 DEF OracleFault
<1>8. CASE Polls BY <1>8 DEF Polls
<1>9. CASE OnWeb2 BY <1>9 DEF OnWeb2
<1>10. CASE OnKyc BY <1>10 DEF OnKyc
<1>11. CASE QIEPassAnswers BY <1>11 DEF QIEPassAnswers
<1>12. CASE OnWallets BY <1>12 DEF OnWallets
<1>13. CASE SentElsewhere BY <1>13 DEF SentElsewhere
<1>14. CASE \E p \in Pages : OpenPage(p) BY <1>14 DEF OpenPage
<1> QED
  BY <1>1, <1>2, <1>3, <1>4, <1>5, <1>6, <1>7, <1>8, <1>9, <1>10, <1>11, <1>12,
     <1>13, <1>14 DEF Next

(***************************************************************************)
(* The two contracts agree on child wallets.                                *)
(***************************************************************************)

ChildrenFinite == \A m \in Wallets : IsFiniteSet(children[m])

LEMMA ChildrenStep ==
    ASSUME RepInv, ChildrenAgree, ChildrenFinite, [Next]_vars
    PROVE  ChildrenAgree' /\ ChildrenFinite'
<1>1. CASE UNCHANGED <<children, lockedTo>>
  BY <1>1 DEF ChildrenAgree, ChildrenFinite, ChildCount
<1>2. ASSUME NEW t, Mined(t), t.fn = "linkChildWallet", LinkChildWallet(t)
      PROVE  ChildrenAgree' /\ ChildrenFinite'
  <2>1. t.from \in Wallets /\ t.child \in Wallets
    <3>1. t \in Sendable
      BY <1>2, MinedIsSendable
    <3> QED
      BY <1>2, <3>1 DEF Sendable, Messages, KycMessage, ScoreMessage, ProofMessage, LinkCall
  <2>2. /\ t.child # t.from /\ lockedTo[t.child] = NoOne
        /\ Cardinality(children[t.from]) < MAX_CHILD_WALLETS
        /\ lockedTo' = [lockedTo EXCEPT ![t.child] = t.from]
        /\ children' = [children EXCEPT ![t.from] = @ \cup {t.child}]
    BY <1>2 DEF LinkChildWallet, LinkChildWalletAccepted, Lockable, IsLocked, ChildCount
  <2>3. t.child \notin children[t.from]
    BY <2>1, <2>2, RegistryAssumption DEF ChildrenAgree
  <2>4. /\ IsFiniteSet(children[t.from] \cup {t.child})
        /\ Cardinality(children[t.from] \cup {t.child}) = Cardinality(children[t.from]) + 1
        /\ Cardinality(children[t.from]) \in Nat
    BY <2>1, <2>3, FS_AddElement, FS_CardinalityType DEF ChildrenFinite
  <2>5. ASSUME NEW m \in Wallets
        PROVE  /\ children'[m] = {c \in Wallets : lockedTo'[c] = m}
               /\ m \notin children'[m]
               /\ Cardinality(children'[m]) <= MAX_CHILD_WALLETS
               /\ IsFiniteSet(children'[m])
    <3>1. /\ children[m] = {c \in Wallets : lockedTo[c] = m} /\ m \notin children[m]
          /\ Cardinality(children[m]) <= MAX_CHILD_WALLETS
          /\ IsFiniteSet(children[m])
      BY DEF ChildrenAgree, ChildrenFinite, ChildCount
    <3>2. children \in [Wallets -> SUBSET Wallets] /\ lockedTo \in [Wallets -> Wallets \cup {NoOne}]
      BY DEF RepInv, RegistryTyped
    <3>3. CASE m = t.from
      <4>1. children'[m] = children[m] \cup {t.child}
        BY <2>1, <2>2, <3>2, <3>3
      <4>2. \A c \in Wallets : lockedTo'[c] = m <=> c = t.child \/ lockedTo[c] = m
        BY <2>1, <2>2, <3>2, <3>3, RegistryAssumption
      <4>3. {c \in Wallets : lockedTo'[c] = m} = {c \in Wallets : lockedTo[c] = m} \cup {t.child}
        BY <2>1, <4>2
      <4>4. Cardinality(children'[m]) <= MAX_CHILD_WALLETS
        BY <2>2, <2>4, <3>3, <4>1, RegistryAssumption
      <4> QED BY <2>2, <2>4, <3>1, <3>3, <4>1, <4>3, <4>4
    <3>4. CASE m # t.from
      <4>1. children'[m] = children[m]
        BY <2>1, <2>2, <3>2, <3>4
      <4>2. \A c \in Wallets : lockedTo'[c] = m <=> lockedTo[c] = m
        BY <2>1, <2>2, <3>2, <3>4, RegistryAssumption
      <4> QED BY <3>1, <4>1, <4>2
    <3> QED BY <3>3, <3>4
  <2> QED BY <2>5 DEF ChildrenAgree, ChildrenFinite, ChildCount
<1>3. ASSUME NEW t, Execute(t)
      PROVE  \/ t.fn = "linkChildWallet" /\ LinkChildWallet(t)
             \/ UNCHANGED <<children, lockedTo>>
  BY <1>3 DEF Execute, VerifyKYC, UpdateCreditScore, CommitZKProof, registry
<1>4. ASSUME NEW w \in Wallets, RevokeKYC(w)
      PROVE  UNCHANGED <<children, lockedTo>>
  BY <1>4 DEF RevokeKYC
<1> QED
  BY <1>1, <1>2, <1>3, <1>4, RegistryMoves DEF registry

(* ChildrenAgree: the children a profile lists are exactly those the other   *)
(* contract has locked to it, at most the limit, and never the wallet itself. *)
THEOREM ChildrenAlwaysAgree == Spec => []ChildrenAgree
<1>1. Init => ChildrenAgree /\ ChildrenFinite
  <2> SUFFICES ASSUME Init PROVE ChildrenAgree /\ ChildrenFinite
    OBVIOUS
  <2>1. IsFiniteSet({}) /\ Cardinality({}) = 0
    BY FS_EmptySet
  <2> QED
    BY <2>1, RegistryAssumption DEF Init, Deployed, ChildrenAgree, ChildrenFinite, ChildCount
<1>2. RepInv /\ ChildrenAgree /\ ChildrenFinite /\ [Next]_vars
        => (ChildrenAgree /\ ChildrenFinite)'
  BY ChildrenStep
<1> QED BY <1>1, <1>2, RepInvHolds, PTL DEF Spec

(***************************************************************************)
(* A child is linked by both wallets.                                       *)
(***************************************************************************)

LEMMA LinkedStep ==
    ASSUME RepInv, LinkedByBoth, [Next]_vars
    PROVE  LinkedByBoth'
<1>1. linkSigned \subseteq linkSigned'
  <2>1. CASE UNCHANGED linkSigned
    BY <2>1
  <2>2. CASE OnWallets
    BY <2>2 DEF OnWallets, TypeChild, ClickPrepare, ClickMasterSign, MasterSigns, ClickChildSign,
       ChildSigns, ClickLink, ValidationPasses, ClickReset, CheckRefuses, MasterRefuses,
       ChildRefuses, ValidationFails, LinkRefused, CheckAnswers, LinkIsSent, Starts
  <2> QED
    BY <2>1, <2>2 DEF Next, vars, NewDay, Revocation, Mining, AccountSwitch, AccountSwitched,
       OracleStep, OracleRequest, OracleFault, Polls, OnWeb2, OnKyc, QIEPassAnswers,
       SentElsewhere, OpenPage,
       walletspage
<1>2. CASE UNCHANGED lockedTo /\ usedNonces \subseteq usedNonces'
  BY <1>1, <1>2 DEF LinkedByBoth, LinkSignature
<1>3. ASSUME NEW t, Mined(t), t.fn = "linkChildWallet", LinkChildWallet(t)
      PROVE  LinkedByBoth'
  <2>1. t \in LinkCall /\ {t.masterSig, t.childSig} \subseteq linkSigned
    <3>1. t \in Sendable
      BY <1>3, MinedIsSendable
    <3> QED
      BY <1>3, <3>1 DEF Sendable, Messages, KycMessage, ScoreMessage, ProofMessage
  <2>2. /\ t.masterSig = LinkSignature(t.from, t.from, t.child, t.nonce)
        /\ t.childSig = LinkSignature(t.child, t.from, t.child, t.nonce)
        /\ usedNonces' = usedNonces \cup {t.nonce}
        /\ lockedTo' = [lockedTo EXCEPT ![t.child] = t.from]
    BY <1>3 DEF LinkChildWallet, LinkChildWalletAccepted
  <2>3. ASSUME NEW c \in Wallets, NEW m \in Wallets, lockedTo'[c] = m
        PROVE  \E n \in usedNonces' : {LinkSignature(m, m, c, n), LinkSignature(c, m, c, n)}
                                           \subseteq linkSigned'
    <3>1. CASE c = t.child
      <4>1. m = t.from
        BY <2>1, <2>2, <2>3, <3>1 DEF RepInv, RegistryTyped, LinkCall
      <4> QED BY <1>1, <2>1, <2>2, <3>1, <4>1
    <3>2. CASE c # t.child
      <4>1. lockedTo[c] = m
        BY <2>1, <2>2, <2>3, <3>2 DEF RepInv, RegistryTyped, LinkCall
      <4> QED BY <1>1, <2>2, <4>1 DEF LinkedByBoth
    <3> QED BY <3>1, <3>2
  <2> QED BY <2>3 DEF LinkedByBoth, LinkSignature
<1>4. ASSUME NEW t, Execute(t)
      PROVE  \/ t.fn = "linkChildWallet" /\ LinkChildWallet(t)
             \/ UNCHANGED lockedTo /\ usedNonces \subseteq usedNonces'
  BY <1>4 DEF Execute, VerifyKYC, UpdateCreditScore, CommitZKProof, registry
<1>5. ASSUME NEW w \in Wallets, RevokeKYC(w)
      PROVE  UNCHANGED <<lockedTo, usedNonces>>
  BY <1>5 DEF RevokeKYC
<1> QED
  BY <1>2, <1>3, <1>4, <1>5, RegistryMoves DEF registry

(* LinkedByBoth: a lock is never made without the signatures of both wallets *)
(* on that link, whichever accounts were switched to and whoever sent it.    *)
THEOREM LinksAreSignedByBoth == Spec => []LinkedByBoth
<1>1. Init => LinkedByBoth
  BY RegistryAssumption DEF Init, Deployed, LinkedByBoth
<1>2. RepInv /\ LinkedByBoth /\ [Next]_vars => LinkedByBoth'
  BY LinkedStep
<1> QED BY <1>1, <1>2, RepInvHolds, PTL DEF Spec

(***************************************************************************)
(* A score moves by a fresh attestation.                                    *)
(***************************************************************************)

(* ScoreChangesByFreshAttestation: no other call, and no replay of an old    *)
(* message, changes the score of a wallet.                                  *)
THEOREM ScoresMoveByFreshAttestations == Spec => ScoreChangesByFreshAttestation
<1> DEFINE Moves == \A w \in Wallets : profile'[w].score # profile[w].score =>
                      \E m \in attested : /\ m.fn = "updateCreditScore" /\ m.master = w
                                          /\ m.score = profile'[w].score
                                          /\ m.nonce \in usedNonces' \ usedNonces
<1>1. ASSUME RepInv, [Next]_vars
      PROVE  Moves
  <2>1. CASE UNCHANGED profile
    BY <2>1
  <2>2. ASSUME NEW t, t \in Sendable, Execute(t), ~UNCHANGED profile
        PROVE  Moves
    <3>1. profile \in [Wallets -> Profiles] /\ attested \subseteq Messages
      BY <1>1 DEF RepInv, RegistryTyped, OracleTyped
    <3>2. CASE t.fn = "verifyKYC" /\ VerifyKYC(t)
      <4>1. \A w \in Wallets : profile'[w].score = profile[w].score
        BY <3>1, <3>2 DEF VerifyKYC, Profiles
      <4> QED BY <4>1
    <3>3. CASE t.fn = "updateCreditScore" /\ UpdateCreditScore(t)
      <4>1. /\ t \in attested /\ t.nonce \in usedNonces' \ usedNonces
            /\ profile' = [profile EXCEPT ![t.master].score = t.score]
        BY <3>3 DEF UpdateCreditScore, UpdateCreditScoreAccepted, Attested
      <4>2. \A w \in Wallets : w # t.master => profile'[w] = profile[w]
        BY <3>1, <4>1
      <4>3. t.master \in Wallets => profile'[t.master].score = t.score
        BY <3>1, <4>1 DEF Profiles
      <4> QED BY <3>3, <4>1, <4>2, <4>3
    <3> QED
      BY <2>2, <3>2, <3>3 DEF Execute, CommitZKProof, LinkChildWallet, registry
  <2>3. ASSUME NEW w \in Wallets, RevokeKYC(w)
        PROVE  Moves
    <3>1. \A u \in Wallets : profile'[u].score = profile[u].score
      BY <1>1, <2>3 DEF RevokeKYC, RepInv, RegistryTyped, Profiles
    <3> QED BY <3>1
  <2>4. \/ UNCHANGED profile
        \/ \E t : t \in Sendable /\ Execute(t)
        \/ \E w \in Wallets : RevokeKYC(w)
    BY <1>1, RegistryMoves, MinedIsSendable DEF registry
  <2> HIDE DEF Moves
  <2> QED
    BY <2>1, <2>2, <2>3, <2>4
<1>2. RepInv /\ [Next]_vars => [Moves]_vars
  BY <1>1
<1> QED
  BY <1>2, RepInvHolds, PTL DEF Spec, ScoreChangesByFreshAttestation

(***************************************************************************)
(* What is answered under a session belongs to it.                          *)
(***************************************************************************)

(* A job is begun for an entry of the store, or by the submit route.        *)
BeginsFor(s, proof, via, w, type) ==
    /\ BeginJob(s, proof, via, w, type)
    /\ via # "submit" => store[s] # None /\ w = store[s].wallet /\ type = store[s].type

(* Every step of the system as the backend sees it.                         *)
LEMMA OracleCourse ==
    ASSUME RepInv, [Next]_vars
    PROVE  \/ /\ UNCHANGED <<attested, sessions, reports, store, jobs>>
              /\ answers' \subseteq answers
           \/ \E s \in Sessions : StatusAnswers(s)
           \/ /\ UNCHANGED registry
              /\ \/ \E s, proof \in Sessions : \E via, w, type : BeginsFor(s, proof, via, w, type)
                 \/ \E s \in Sessions, d \in Documents : UserProves(s, d)
                 \/ \E j \in jobs : JobStep(j) \/ JobFault(j)
                 \/ ServerRestart \/ \E s \in Sessions : Evict(s)
                 \/ \E s \in Sessions, w \in Wallets, type \in Types : CreateSession(s, w, type)
                 \/ /\ attested' \subseteq attested \cup KycMessage \cup ScoreMessage
                    /\ UNCHANGED <<sessions, reports, store, jobs, answers>>
                 \/ /\ jobs' = Unheard /\ answers' = {}
                    /\ UNCHANGED <<attested, sessions, reports, store>>
<1> USE DEF oracle
<1>0. ASSUME NEW s \in Sessions, NEW proof \in Sessions, Callback(s, proof) \/ StatusRunsJob(s)
      PROVE  \E q, p \in Sessions : \E via, w, type : BeginsFor(q, p, via, w, type)
  <2>1. CASE Callback(s, proof)
    <3>1. BeginsFor(s, proof, "callback", store[s].wallet, store[s].type)
      BY <2>1 DEF Callback, BeginsFor
    <3> QED BY <3>1
  <2>2. CASE StatusRunsJob(s)
    <3>1. BeginsFor(s, s, "page", store[s].wallet, store[s].type)
      BY <2>2 DEF StatusRunsJob, BeginsFor
    <3> QED BY <3>1
  <2> QED BY <1>0, <2>1, <2>2
<1>00. ASSUME NEW proof \in Sessions, NEW w, NEW type, SubmitsProof(proof, w, type)
       PROVE  \E q, p \in Sessions : \E via, v, u : BeginsFor(q, p, via, v, u)
  <2>1. BeginsFor(proof, proof, "submit", w, type)
    BY <1>00 DEF SubmitsProof, BeginsFor
  <2> QED BY <2>1
<1>1. CASE OracleStep \/ OracleRequest \/ OracleFault \/ Polls
  <2>1. CASE OracleStep
    BY <1>0, <2>1 DEF OracleStep
  <2>2. CASE OracleRequest
    BY <1>0, <1>00, <2>2 DEF OracleRequest
  <2>3. CASE OracleFault
    BY <2>3 DEF OracleFault
  <2>4. CASE Polls
    BY <1>0, <2>4 DEF Polls
  <2> QED BY <1>1, <2>1, <2>2, <2>3, <2>4
<1>2. CASE OnWeb2
  <2>1. ASSUME NEW s \in Sessions, SessionOpens(s)
        PROVE  /\ web2.submitting.wallet \in Wallets /\ web2.submitting.type \in Types
               /\ CreateSession(s, web2.submitting.wallet, web2.submitting.type)
    BY <2>1 DEF SessionOpens, RepInv, PagesTyped, Web2Typed, Web2States
  <2>2. ASSUME NEW a \in answers, AnswerArrives(a)
        PROVE  answers' \subseteq answers
    BY <2>2 DEF AnswerArrives
  <2> QED BY <1>2, <2>1, <2>2 DEF OnWeb2
<1>3. CASE OnKyc
  <2>1. ASSUME NEW w \in Wallets, NEW read \in {profile[w].score, 0}, Approve(w, read)
        PROVE  /\ attested' \subseteq attested \cup KycMessage \cup ScoreMessage
               /\ UNCHANGED <<sessions, reports, store, jobs, answers>>
    <3>1. Approval(w, read) \in KycApprovals
      BY <2>1, ApprovalTyped DEF RepInv
    <3> QED BY <2>1, <3>1 DEF Approve, Signed, KycApprovals
  <2>2. ASSUME NEW q \in Requests, KycStatus(q), ~UNCHANGED oracle
        PROVE  /\ attested' \subseteq attested \cup KycMessage \cup ScoreMessage
               /\ UNCHANGED <<sessions, reports, store, jobs, answers>>
    BY <2>1, <2>2 DEF KycStatus, ClaimAndVerify, RepInv, PagesTyped, WalletTyped
  <2>3. ASSUME AlreadyVerified
        PROVE  /\ attested' \subseteq attested \cup KycMessage \cup ScoreMessage
               /\ UNCHANGED <<sessions, reports, store, jobs, answers>>
    BY <2>1, <2>3 DEF AlreadyVerified, RepInv, PagesTyped, KycTyped
  <2>4. ASSUME ClaimIsSigned
        PROVE  /\ attested' \subseteq attested \cup KycMessage \cup ScoreMessage
               /\ UNCHANGED <<sessions, reports, store, jobs, answers>>
    <3>1. PICK read \in {profile[kyc.claimer].score, 0} :
             LET m == ScoreAttestation(kyc.claimer, Capped(read + KYC_SCORE_BONUS), drawn + 1)
             IN  Fresh(1) /\ Signed({m})
      BY <2>4 DEF ClaimIsSigned
    <3>2. ScoreAttestation(kyc.claimer, Capped(read + KYC_SCORE_BONUS), drawn + 1) \in ScoreMessage
      BY <2>4, <3>1, RegistryAssumption
      DEF ClaimIsSigned, RepInv, PagesTyped, KycTyped, KycStates, ScoreAttestation, ScoreMessage,
          Fresh, OracleTyped, RegistryTyped, Profiles, Scores, Nonces, Capped, Least,
          KYC_SCORE_BONUS
    <3> QED BY <2>4, <3>1, <3>2 DEF ClaimIsSigned, Signed
  <2>5. UNCHANGED registry
    BY <1>3 DEF OnKyc
  <2> QED BY <1>3, <2>2, <2>3, <2>4, <2>5 DEF OnKyc
<1>4. CASE \E p \in Pages : OpenPage(p)
  BY <1>4 DEF OpenPage
<1>5. CASE OnWallets
  BY <1>5 DEF OnWallets, CheckAnswers
<1> QED
  BY <1>1, <1>2, <1>3, <1>4, <1>5
  DEF Next, vars, NewDay, Revocation, Mining, AccountSwitch, QIEPassAnswers, SentElsewhere

(* A job moves on for the same session, ends without a word, or signs.      *)
SameJob(j, k) ==
    /\ k.session = j.session /\ k.wallet = j.wallet /\ k.type = j.type
    /\ k.via = "submit" <=> j.via = "submit"

LEMMA JobCourse ==
    ASSUME RepInv, NEW j \in jobs, JobStep(j) \/ JobFault(j)
    PROVE  \/ \E k : /\ JobMoves(j, k) /\ SameJob(j, k)
                     /\ k.committed => j.committed \/ j.type \in CommittedTypes(j.wallet)
           \/ /\ UNCHANGED <<attested, sessions, reports>>
              /\ jobs' = jobs \ {j}
              /\ store' = store \/ store' = WithError(j)
              /\ answers' = answers \/ answers' = Replied(j, Failed)
           \/ SignJob(j)
<1>1. j \in Jobs
  BY DEF RepInv, OracleTyped
<1>2. ASSUME NEW seen, seen \subseteq CommittedTypes(j.wallet), HistoryRead(j, seen)
      PROVE  \E k : /\ JobMoves(j, k) /\ SameJob(j, k)
                    /\ k.committed => j.committed \/ j.type \in CommittedTypes(j.wallet)
  <2> DEFINE Read(b) == [j EXCEPT !.committed = b, !.at = IF b THEN "score" ELSE "replay"]
  <2>1. ASSUME NEW b \in BOOLEAN
        PROVE  SameJob(j, Read(b)) /\ Read(b).committed = b
    BY <1>1 DEF Jobs, SameJob
  <2>2. JobMoves(j, Read(j.type \in seen)) /\ (j.type \in seen) \in BOOLEAN
    BY <1>2 DEF HistoryRead
  <2> HIDE DEF Read
  <2>3. PICK b \in BOOLEAN : JobMoves(j, Read(b)) /\ b = (j.type \in seen)
    BY <2>2, Zenon
  <2>4. b => j.type \in CommittedTypes(j.wallet)
    BY <1>2, <2>3
  <2> QED BY <2>1, <2>3, <2>4
<1>3. ASSUME NEW read, ScoreRead(j, read)
      PROVE  \E k : JobMoves(j, k) /\ SameJob(j, k) /\ (k.committed => j.committed)
  <2> DEFINE k == [j EXCEPT !.at = "sign", !.score = read]
  <2>1. SameJob(j, k) /\ (k.committed => j.committed)
    BY <1>1 DEF Jobs, SameJob
  <2>2. JobMoves(j, k)
    BY <1>3 DEF ScoreRead
  <2> HIDE DEF k
  <2> QED BY <2>1, <2>2
<1>4. ASSUME CheckReplay(j) \/ ReplayUnread(j)
      PROVE  \/ JobErrs(j)
             \/ \E k : JobMoves(j, k) /\ SameJob(j, k) /\ (k.committed => j.committed)
  <2> DEFINE k == [j EXCEPT !.at = "score"]
  <2>1. SameJob(j, k) /\ (k.committed => j.committed)
    BY <1>1 DEF Jobs, SameJob
  <2>2. JobErrs(j) \/ JobMoves(j, k)
    BY <1>4 DEF CheckReplay, ReplayUnread
  <2> HIDE DEF k
  <2> QED BY <2>1, <2>2
<1>5. \/ \E seen : seen \subseteq CommittedTypes(j.wallet) /\ HistoryRead(j, seen)
      \/ \E read : ScoreRead(j, read)
      \/ CheckReplay(j) \/ ReplayUnread(j)
      \/ JobErrs(j) \/ JobThrows(j) \/ SignJob(j)
  BY DEF JobStep, JobFault, ReadHistory, HistoryUnread, ReadScore, ScoreUnread, ProofRefused
<1>6. ASSUME JobErrs(j) \/ JobThrows(j)
      PROVE  /\ UNCHANGED <<attested, sessions, reports>>
             /\ jobs' = jobs \ {j}
             /\ store' = store \/ store' = WithError(j)
             /\ answers' = answers \/ answers' = Replied(j, Failed)
  BY <1>6 DEF JobErrs, JobThrows
<1> QED
  <2>1. CASE \E seen : seen \subseteq CommittedTypes(j.wallet) /\ HistoryRead(j, seen)
    <3>1. PICK seen : seen \subseteq CommittedTypes(j.wallet) /\ HistoryRead(j, seen)
      BY <2>1
    <3>2. \E k : /\ JobMoves(j, k) /\ SameJob(j, k)
                 /\ k.committed => j.committed \/ j.type \in CommittedTypes(j.wallet)
      BY <1>2, <3>1
    <3> QED BY <3>2
  <2>2. CASE \E read : ScoreRead(j, read)
    BY <1>3, <2>2
  <2>3. CASE JobErrs(j) \/ JobThrows(j)
    BY <1>6, <2>3
  <2>4. CASE CheckReplay(j) \/ ReplayUnread(j)
    BY <1>4, <1>6, <2>4
  <2> QED BY <1>5, <2>1, <2>2, <2>3, <2>4

(* What becomes of the entries of the store.                                *)
LEMMA ErrorStoredEntries ==
    ASSUME RepInv, NEW j \in jobs, NEW r \in Sessions
    PROVE  /\ WithError(j)[r] = None <=> store[r] = None
           /\ store[r] # None =>
                /\ WithError(j)[r].wallet = store[r].wallet
                /\ WithError(j)[r].type = store[r].type
                /\ WithError(j)[r].result = store[r].result
<1> DEFINE s == j.session
<1>1. store \in [Sessions -> Entries \cup {None}] /\ s \in Sessions
  BY DEF RepInv, OracleTyped, Jobs
<1>2. CASE Kept(j)
  <2> DEFINE x == [store[s] EXCEPT !.error = TRUE]
  <2>0. store[s] # None
    BY <1>2 DEF Kept
  <2>1. /\ x \in Entries /\ x.wallet = store[s].wallet /\ x.type = store[s].type
        /\ x.result = store[s].result
    BY <1>1, <2>0 DEF Entries
  <2>2. x # None
    BY <2>1, SystemAssumption
  <2>3. WithError(j) = [store EXCEPT ![s] = x]
    BY <1>2 DEF WithError
  <2> HIDE DEF x, s
  <2> QED BY <1>1, <2>0, <2>1, <2>2, <2>3
<1> QED BY <1>2 DEF WithError

LEMMA ResultStoredEntries ==
    ASSUME RepInv, NEW j \in jobs, NEW r \in Sessions, NEW result \in Results
    PROVE  /\ WithResult(j, result)[r] = None <=> store[r] = None
           /\ store[r] # None =>
                /\ WithResult(j, result)[r].wallet = store[r].wallet
                /\ WithResult(j, result)[r].type = store[r].type
                /\ \/ WithResult(j, result)[r].result = store[r].result
                   \/ /\ WithResult(j, result)[r].result = result
                      /\ r = j.session /\ j.via # "submit"
<1> DEFINE s == j.session
<1>1. store \in [Sessions -> Entries \cup {None}] /\ s \in Sessions
  BY DEF RepInv, OracleTyped, Jobs
<1>2. CASE Kept(j)
  <2> DEFINE x == [store[s] EXCEPT !.result = result]
  <2>0. store[s] # None /\ j.via # "submit"
    BY <1>2 DEF Kept
  <2>1. /\ x \in Entries /\ x.wallet = store[s].wallet /\ x.type = store[s].type
        /\ x.result = result
    BY <1>1, <2>0 DEF Entries
  <2>2. x # None
    BY <2>1, SystemAssumption
  <2>3. WithResult(j, result) = [store EXCEPT ![s] = x]
    BY <1>2 DEF WithResult
  <2>4. s = j.session
    OBVIOUS
  <2> HIDE DEF x, s
  <2> QED BY <1>1, <2>0, <2>1, <2>2, <2>3, <2>4
<1> QED BY <1>2 DEF WithResult

(* A result is made out to the wallet and type of a session, and commits     *)
(* what a finished proof shows.                                             *)
Fits(context, proved, r) ==
    /\ r.score.master = context.wallet
    /\ r.commit # None =>
         /\ r.commit.master = context.wallet /\ r.commit.type = context.type
         /\ proved[r.commit.proof] # None
         /\ r.commit.document = <<r.commit.type, proved[r.commit.proof]>>

EntriesFit == \A s \in Sessions : store[s] # None /\ store[s].result \notin {None, Failed}
                  => Fits(sessions[s], reports, store[s].result)

AnswersFit == \A a \in answers : /\ sessions[a.session] # None
                                 /\ a.verdict \notin {None, Failed}
                                      => Fits(sessions[a.session], reports, a.verdict)

(* An entry carries the wallet and type its session was opened for, and so   *)
(* does a job whose outcome goes under that session.                        *)
EntriesAgree ==
    \A s \in Sessions : store[s] # None =>
        sessions[s] = [wallet |-> store[s].wallet, type |-> store[s].type]

JobsAgree ==
    \A j \in jobs : j.via # "submit" =>
        sessions[j.session] = [wallet |-> j.wallet, type |-> j.type]

ProvedInv == EntriesFit /\ AnswersFit /\ EntriesAgree /\ JobsAgree

(* A result keeps fitting while proofs are finished elsewhere.              *)
LEMMA FitsLater ==
    ASSUME NEW context, NEW r \in Results, NEW before, NEW after,
           \A p \in Sessions : before[p] # None => after[p] = before[p],
           Fits(context, before, r)
    PROVE  Fits(context, after, r)
<1>1. r.commit # None => r.commit.proof \in Sessions
  BY DEF Results, ProofMessage
<1> QED BY <1>1 DEF Fits

(* The types that matter below, the entries' and the contexts' included.    *)
LEMMA StoreFacts ==
    ASSUME RepInv
    PROVE  /\ store \in [Sessions -> Entries \cup {None}] /\ jobs \subseteq Jobs
           /\ sessions \in [Sessions -> SessionContexts \cup {None}]
           /\ reports \in [Sessions -> Documents \cup {None}]
           /\ answers \subseteq Answers
           /\ \A j \in jobs : j.session \in Sessions /\ reports[j.proof] # None
           /\ \A a \in answers : /\ a.session \in Sessions
                                 /\ a.verdict # Failed => a.verdict \in Results
           /\ \A s \in Sessions : store[s] # None /\ store[s].result # None
                                     => store[s].result \in Results
           /\ \A u \in Wallets, t \in Types : [wallet |-> u, type |-> t] # None
<1>1. /\ store \in [Sessions -> Entries \cup {None}] /\ jobs \subseteq Jobs
      /\ sessions \in [Sessions -> SessionContexts \cup {None}]
      /\ reports \in [Sessions -> Documents \cup {None}]
      /\ answers \subseteq Answers
      /\ \A j \in jobs : reports[j.proof] # None
  BY DEF RepInv, OracleTyped
<1>2. \A j \in jobs : j.session \in Sessions
  BY <1>1 DEF Jobs
<1>3. \A a \in answers : a.session \in Sessions /\ (a.verdict # Failed => a.verdict \in Results)
  BY <1>1 DEF Answers, Verdicts
<1>4. \A s \in Sessions : store[s] # None /\ store[s].result # None
                             => store[s].result \in Results
  BY <1>1 DEF Entries
<1>5. \A u \in Wallets, t \in Types : [wallet |-> u, type |-> t] \in SessionContexts
  BY DEF SessionContexts
<1>6. None \notin SessionContexts
  BY SystemAssumption
<1> QED BY <1>1, <1>2, <1>3, <1>4, <1>5, <1>6

LEMMA OpenedJob ==
    ASSUME RepInv, ProvedInv, NEW j \in jobs, j.via # "submit"
    PROVE  sessions[j.session] # None
<1>1. j.wallet \in Wallets /\ j.type \in Types
  BY DEF RepInv, OracleTyped, Jobs
<1>2. [wallet |-> j.wallet, type |-> j.type] # None
  BY <1>1, StoreFacts
<1>3. sessions[j.session] = [wallet |-> j.wallet, type |-> j.type]
  BY DEF ProvedInv, JobsAgree
<1> QED BY <1>2, <1>3

LEMMA OpenedEntry ==
    ASSUME RepInv, ProvedInv, NEW s \in Sessions, store[s] # None
    PROVE  sessions[s] # None
<1>1. store[s].wallet \in Wallets /\ store[s].type \in Types
  BY DEF RepInv, OracleTyped, Entries
<1>2. [wallet |-> store[s].wallet, type |-> store[s].type] # None
  BY <1>1, StoreFacts
<1>3. sessions[s] = [wallet |-> store[s].wallet, type |-> store[s].type]
  BY DEF ProvedInv, EntriesAgree
<1> QED BY <1>2, <1>3

(* What SignJob hands out belongs to the session it is handed out under.    *)
LEMMA SignJobProved ==
    ASSUME RepInv, ProvedInv, NEW j \in jobs, SignJob(j)
    PROVE  ProvedInv'
<1> DEFINE score == ScoreAttestation(j.wallet, NewScore(j), drawn + 1)
           commit == IF j.committed THEN None ELSE ProofAttestation(j, drawn + 2)
           result == [commit |-> commit, score |-> score]
<1>1. /\ store' = WithResult(j, result) /\ answers' = Replied(j, result)
      /\ jobs' = jobs \ {j} /\ UNCHANGED <<sessions, reports>>
  BY DEF SignJob
<1>2. result \in Results
  BY SignedResult DEF RepInv
<1>3. ASSUME j.via # "submit"
      PROVE  Fits(sessions[j.session], reports, result)
  <2>1. sessions[j.session] = [wallet |-> j.wallet, type |-> j.type]
    BY <1>3 DEF ProvedInv, JobsAgree
  <2>2. score.master = j.wallet
    BY DEF ScoreAttestation
  <2>3. commit # None =>
          /\ commit.master = j.wallet /\ commit.type = j.type /\ commit.proof = j.proof
          /\ commit.document = <<j.type, reports[j.proof]>>
    BY DEF ProofAttestation, DocumentOf
  <2>4. reports[j.proof] # None
    BY StoreFacts
  <2>5. result.score = score /\ result.commit = commit
    OBVIOUS
  <2> HIDE DEF score, commit, result
  <2> QED BY <2>1, <2>2, <2>3, <2>4, <2>5 DEF Fits
<1> HIDE DEF result
<1>4. \A r \in Sessions :
         /\ store'[r] = None <=> store[r] = None
         /\ store[r] # None =>
              /\ store'[r].wallet = store[r].wallet /\ store'[r].type = store[r].type
              /\ \/ store'[r].result = store[r].result
                 \/ store'[r].result = result /\ r = j.session /\ j.via # "submit"
  BY <1>1, <1>2, ResultStoredEntries
<1>5. EntriesFit'
  <2>1. ASSUME NEW r \in Sessions, store'[r] # None, store'[r].result \notin {None, Failed}
        PROVE  Fits(sessions[r], reports, store'[r].result)
    BY <1>3, <1>4, <2>1 DEF ProvedInv, EntriesFit
  <2> QED BY <1>1, <2>1 DEF EntriesFit
<1>6. AnswersFit'
  <2>1. ASSUME NEW a \in answers'
        PROVE  /\ sessions[a.session] # None
               /\ a.verdict \notin {None, Failed} =>
                    Fits(sessions[a.session], reports, a.verdict)
    <3>1. CASE a \in answers
      BY <3>1 DEF ProvedInv, AnswersFit
    <3>2. CASE a = [session |-> j.session, verdict |-> result] /\ j.via = "page"
      BY <1>3, <3>2, OpenedJob
    <3> QED BY <1>1, <2>1, <3>1, <3>2 DEF Replied
  <2> QED BY <1>1, <2>1 DEF AnswersFit
<1>7. EntriesAgree' /\ JobsAgree'
  BY <1>1, <1>4 DEF ProvedInv, EntriesAgree, JobsAgree
<1> QED BY <1>5, <1>6, <1>7 DEF ProvedInv

(* A job that ends with an error or without a word tells nobody anything.    *)
LEMMA EndedJobProved ==
    ASSUME RepInv, ProvedInv, NEW j \in jobs,
           UNCHANGED <<sessions, reports>>, jobs' = jobs \ {j},
           store' = store \/ store' = WithError(j),
           answers' = answers \/ answers' = Replied(j, Failed)
    PROVE  ProvedInv'
<1>1. \A r \in Sessions :
         /\ store'[r] = None <=> store[r] = None
         /\ store[r] # None => /\ store'[r].wallet = store[r].wallet
                               /\ store'[r].type = store[r].type
                               /\ store'[r].result = store[r].result
  BY ErrorStoredEntries
<1>2. EntriesFit'
  BY <1>1 DEF ProvedInv, EntriesFit
<1>3. AnswersFit'
  <2>1. ASSUME NEW a \in answers'
        PROVE  /\ sessions[a.session] # None
               /\ a.verdict \notin {None, Failed} =>
                    Fits(sessions[a.session], reports, a.verdict)
    <3>1. CASE a \in answers
      BY <3>1 DEF ProvedInv, AnswersFit
    <3>2. CASE a = [session |-> j.session, verdict |-> Failed] /\ j.via = "page"
      BY <3>2, OpenedJob
    <3> QED BY <2>1, <3>1, <3>2 DEF Replied
  <2> QED BY <2>1 DEF AnswersFit
<1>4. EntriesAgree' /\ JobsAgree'
  BY <1>1 DEF ProvedInv, EntriesAgree, JobsAgree
<1> QED BY <1>2, <1>3, <1>4 DEF ProvedInv

LEMMA CreateSessionProved ==
    ASSUME RepInv, ProvedInv, NEW s \in Sessions, NEW w \in Wallets, NEW type \in Types,
           CreateSession(s, w, type)
    PROVE  ProvedInv'
<1>1. /\ sessions[s] = None
      /\ sessions' = [sessions EXCEPT ![s] = [wallet |-> w, type |-> type]]
      /\ store' = [store EXCEPT ![s] = [wallet |-> w, type |-> type,
                                        result |-> None, error |-> FALSE]]
      /\ UNCHANGED <<attested, reports, jobs, answers>>
  BY DEF CreateSession, NextSession
<1>2. \A r \in Sessions : r # s => store'[r] = store[r] /\ sessions'[r] = sessions[r]
  BY <1>1, StoreFacts
<1>3. /\ sessions'[s] = [wallet |-> w, type |-> type] /\ store'[s].result = None
      /\ store'[s].wallet = w /\ store'[s].type = type /\ sessions'[s] # None
  BY <1>1, StoreFacts
<1>4. \A a \in answers : a.session \in Sessions /\ a.session # s
  BY <1>1, StoreFacts DEF ProvedInv, AnswersFit
<1>5. ASSUME NEW j \in jobs, j.via # "submit"
      PROVE  j.session \in Sessions /\ j.session # s
  BY <1>1, <1>5, StoreFacts, OpenedJob
<1>6. EntriesFit'
  BY <1>1, <1>2, <1>3 DEF ProvedInv, EntriesFit
<1>7. AnswersFit'
  BY <1>1, <1>2, <1>4 DEF ProvedInv, AnswersFit
<1>8. EntriesAgree'
  BY <1>2, <1>3 DEF ProvedInv, EntriesAgree
<1>9. JobsAgree'
  BY <1>1, <1>2, <1>5 DEF ProvedInv, JobsAgree
<1> QED BY <1>6, <1>7, <1>8, <1>9 DEF ProvedInv

LEMMA UserProvesProved ==
    ASSUME RepInv, ProvedInv, NEW s \in Sessions, NEW d \in Documents, UserProves(s, d)
    PROVE  ProvedInv'
<1>1. /\ reports[s] = None /\ reports' = [reports EXCEPT ![s] = d]
      /\ UNCHANGED <<attested, sessions, store, jobs, answers>>
  BY DEF UserProves
<1>2. \A p \in Sessions : reports[p] # None => reports'[p] = reports[p]
  BY <1>1, StoreFacts
<1>3. EntriesFit'
  <2>1. ASSUME NEW r \in Sessions, store[r] # None, store[r].result \notin {None, Failed}
        PROVE  Fits(sessions[r], reports', store[r].result)
    <3>1. store[r].result \in Results /\ Fits(sessions[r], reports, store[r].result)
      BY <2>1, StoreFacts DEF ProvedInv, EntriesFit
    <3> QED BY <1>2, <3>1, FitsLater
  <2> QED BY <1>1, <2>1 DEF EntriesFit
<1>4. AnswersFit'
  <2>1. ASSUME NEW a \in answers, a.verdict \notin {None, Failed}
        PROVE  Fits(sessions[a.session], reports', a.verdict)
    <3>1. a.verdict \in Results /\ Fits(sessions[a.session], reports, a.verdict)
      BY <2>1, StoreFacts DEF ProvedInv, AnswersFit
    <3> QED BY <1>2, <3>1, FitsLater
  <2> QED BY <1>1, <2>1 DEF ProvedInv, AnswersFit
<1>5. EntriesAgree' /\ JobsAgree'
  BY <1>1 DEF ProvedInv, EntriesAgree, JobsAgree
<1> QED BY <1>3, <1>4, <1>5 DEF ProvedInv

LEMMA ProvedStep ==
    ASSUME RepInv, ProvedInv, [Next]_vars
    PROVE  ProvedInv'
<1>1. ASSUME UNCHANGED <<attested, sessions, reports, store, jobs>>, answers' \subseteq answers
      PROVE  ProvedInv'
  BY <1>1 DEF ProvedInv, EntriesFit, AnswersFit, EntriesAgree, JobsAgree
<1>2. ASSUME NEW s \in Sessions, StatusAnswers(s)
      PROVE  ProvedInv'
  <2> DEFINE verdict == IF store[s].error THEN Failed ELSE store[s].result
  <2>1. /\ store[s] # None /\ answers' = answers \cup {[session |-> s, verdict |-> verdict]}
        /\ UNCHANGED <<attested, sessions, reports, store, jobs>>
    BY <1>2 DEF StatusAnswers
  <2>2. /\ sessions[s] # None
        /\ verdict \notin {None, Failed} => Fits(sessions[s], reports, verdict)
    BY <2>1, OpenedEntry DEF ProvedInv, EntriesFit
  <2> HIDE DEF verdict
  <2>3. AnswersFit'
    BY <2>1, <2>2 DEF ProvedInv, AnswersFit
  <2> QED BY <2>1, <2>3 DEF ProvedInv, EntriesFit, EntriesAgree, JobsAgree
<1>3. ASSUME NEW s \in Sessions, NEW proof \in Sessions, NEW via, NEW w, NEW type,
             BeginsFor(s, proof, via, w, type)
      PROVE  ProvedInv'
  <2> DEFINE k == [session |-> s, proof |-> proof, via |-> via, wallet |-> w, type |-> type,
                   at |-> "history", committed |-> FALSE, score |-> 0]
  <2>1. /\ jobs' = jobs \cup {k}
        /\ UNCHANGED <<attested, sessions, reports, store, answers>>
    BY <1>3 DEF BeginsFor, BeginJob
  <2>2. k.via # "submit" => sessions[k.session] = [wallet |-> k.wallet, type |-> k.type]
    BY <1>3 DEF BeginsFor, ProvedInv, EntriesAgree
  <2> HIDE DEF k
  <2> QED BY <2>1, <2>2 DEF ProvedInv, EntriesFit, AnswersFit, EntriesAgree, JobsAgree
<1>4. ASSUME NEW j \in jobs, NEW k, JobMoves(j, k), SameJob(j, k)
      PROVE  ProvedInv'
  BY <1>4 DEF JobMoves, SameJob, ProvedInv, EntriesFit, AnswersFit, EntriesAgree, JobsAgree
<1>5. ASSUME NEW s \in Sessions, Evict(s)
      PROVE  ProvedInv'
  BY <1>5, StoreFacts
  DEF Evict, ProvedInv, EntriesFit, AnswersFit, EntriesAgree, JobsAgree
<1>6. CASE ServerRestart
  BY <1>6 DEF ServerRestart, ProvedInv, EntriesFit, AnswersFit, EntriesAgree, JobsAgree
<1>7. ASSUME UNCHANGED <<sessions, reports, store, jobs, answers>>
      PROVE  ProvedInv'
  BY <1>7 DEF ProvedInv, EntriesFit, AnswersFit, EntriesAgree, JobsAgree
<1>8. ASSUME jobs' = Unheard, answers' = {}, UNCHANGED <<attested, sessions, reports, store>>
      PROVE  ProvedInv'
  <2>1. ASSUME NEW k \in jobs', k.via # "submit"
        PROVE  sessions[k.session] = [wallet |-> k.wallet, type |-> k.type]
    <3>1. PICK j \in jobs : k = IF j.via = "page" THEN [j EXCEPT !.via = "gone"] ELSE j
      BY <1>8 DEF Unheard
    <3>2. j \in Jobs
      BY StoreFacts
    <3>3. SameJob(j, [j EXCEPT !.via = "gone"]) \/ j.via # "page"
      BY <3>2 DEF Jobs, SameJob
    <3>4. SameJob(j, k)
      BY <3>1, <3>3 DEF SameJob
    <3> QED BY <2>1, <3>4 DEF ProvedInv, JobsAgree, SameJob
  <2>2. JobsAgree'
    BY <1>8, <2>1 DEF JobsAgree
  <2> QED BY <1>8, <2>2 DEF ProvedInv, EntriesFit, AnswersFit, EntriesAgree
<1>9. ASSUME NEW j \in jobs, JobStep(j) \/ JobFault(j)
      PROVE  ProvedInv'
  BY <1>4, <1>9, JobCourse, SignJobProved, EndedJobProved
<1> QED
  BY <1>1, <1>2, <1>3, <1>5, <1>6, <1>7, <1>8, <1>9, OracleCourse, UserProvesProved,
     CreateSessionProved

(* ResultsStayWithTheirSession: whatever sessions, webhooks, submissions and  *)
(* evictions overlap, what the store and the replies hold under a session is  *)
(* made out to the wallet and type it was opened for.                        *)
THEOREM ResultsStay == Spec => []ResultsStayWithTheirSession
<1>1. Init => ProvedInv
  BY DEF Init, OracleStarted, ProvedInv, EntriesFit, AnswersFit, EntriesAgree, JobsAgree
<1>2. RepInv /\ ProvedInv /\ [Next]_vars => ProvedInv'
  BY ProvedStep
<1>3. ProvedInv => ResultsStayWithTheirSession
  <2> SUFFICES ASSUME ProvedInv, NEW s \in Sessions, NEW r \in ResultsOf(s) \ {None, Failed}
               PROVE  Fits(sessions[s], reports, r)
    BY DEF ResultsStayWithTheirSession, Fits
  <2>1. CASE \E a \in answers : a.session = s /\ r = a.verdict
    BY <2>1 DEF ProvedInv, AnswersFit
  <2>2. CASE store[s] # None /\ r = store[s].result
    BY <2>2 DEF ProvedInv, EntriesFit
  <2> QED BY <2>1, <2>2 DEF ResultsOf
<1> QED BY <1>1, <1>2, <1>3, RepInvHolds, PTL DEF Spec

(***************************************************************************)
(* A score is signed without a commit only for a committed type.            *)
(***************************************************************************)

CategoriesUsedUp == \A e \in events : <<e.type, e.master>> \in usedCategories

JobsCommitted == \A j \in jobs : j.committed => <<j.type, j.wallet>> \in usedCategories

LEMMA CategoriesStep ==
    ASSUME RepInv, CategoriesUsedUp, [Next]_vars
    PROVE  CategoriesUsedUp' /\ usedCategories \subseteq usedCategories'
<1>1. CASE UNCHANGED registry
  BY <1>1 DEF registry, CategoriesUsedUp
<1>2. ASSUME NEW t, Execute(t)
      PROVE  CategoriesUsedUp' /\ usedCategories \subseteq usedCategories'
  BY <1>2
  DEF Execute, VerifyKYC, UpdateCreditScore, CommitZKProof, LinkChildWallet, registry,
      CategoriesUsedUp, Committed
<1>3. ASSUME NEW w \in Wallets, RevokeKYC(w)
      PROVE  CategoriesUsedUp' /\ usedCategories \subseteq usedCategories'
  BY <1>3 DEF RevokeKYC, CategoriesUsedUp
<1> QED BY <1>1, <1>2, <1>3, RegistryMoves

LEMMA ScoreOnlyStep ==
    ASSUME RepInv, ProvedInv, CategoriesUsedUp, JobsCommitted, ScoreOnlyMeansCommitted,
           [Next]_vars
    PROVE  JobsCommitted' /\ ScoreOnlyMeansCommitted'
<1> DEFINE Goal == JobsCommitted' /\ ScoreOnlyMeansCommitted'
<1>0. /\ store \in [Sessions -> Entries \cup {None}] /\ jobs \subseteq Jobs
      /\ sessions \in [Sessions -> SessionContexts \cup {None}]
      /\ \A j \in jobs : j.session \in Sessions
  BY DEF RepInv, OracleTyped, Jobs
<1>a. usedCategories \subseteq usedCategories'
  BY CategoriesStep
<1>1. ASSUME UNCHANGED <<sessions, store, jobs>>
      PROVE  Goal
  BY <1>a, <1>1 DEF JobsCommitted, ScoreOnlyMeansCommitted
<1>2. ASSUME NEW s \in Sessions, NEW proof \in Sessions, NEW via, NEW w, NEW type,
             BeginsFor(s, proof, via, w, type)
      PROVE  Goal
  BY <1>a, <1>2 DEF BeginsFor, BeginJob, JobsCommitted, ScoreOnlyMeansCommitted
<1>3. ASSUME NEW s \in Sessions, NEW d \in Documents, UserProves(s, d)
      PROVE  Goal
  BY <1>a, <1>3 DEF UserProves, JobsCommitted, ScoreOnlyMeansCommitted
<1>4. ASSUME NEW j \in jobs, NEW k, JobMoves(j, k), SameJob(j, k),
             k.committed => j.committed \/ j.type \in CommittedTypes(j.wallet)
      PROVE  Goal
  <2>1. k.committed => <<k.type, k.wallet>> \in usedCategories
    BY <1>4 DEF SameJob, JobsCommitted, CategoriesUsedUp, CommittedTypes
  <2> QED BY <1>a, <1>4, <2>1 DEF JobMoves, JobsCommitted, ScoreOnlyMeansCommitted
<1>5. ASSUME NEW j \in jobs, UNCHANGED <<attested, sessions, reports>>, jobs' = jobs \ {j},
             store' = store \/ store' = WithError(j)
      PROVE  Goal
  <2>1. \A r \in Sessions : /\ store'[r] = None <=> store[r] = None
                            /\ store[r] # None => store'[r].result = store[r].result
    BY <1>0, <1>5, ErrorStoredEntries
  <2> QED BY <1>a, <1>5, <2>1 DEF JobsCommitted, ScoreOnlyMeansCommitted
<1>6. ASSUME NEW j \in jobs, SignJob(j)
      PROVE  Goal
  <2> DEFINE score == ScoreAttestation(j.wallet, NewScore(j), drawn + 1)
             commit == IF j.committed THEN None ELSE ProofAttestation(j, drawn + 2)
             result == [commit |-> commit, score |-> score]
  <2>1. /\ store' = WithResult(j, result)
        /\ jobs' = jobs \ {j} /\ UNCHANGED <<sessions, reports>>
    BY <1>6 DEF SignJob
  <2>2. result \in Results /\ result.commit = commit
    BY <1>0, <1>6, SignedResult DEF RepInv
  <2>3. commit = None => j.committed
    BY <1>6, SignedResult DEF RepInv
  <2>4. commit = None => <<j.type, j.wallet>> \in usedCategories
    BY <2>3 DEF JobsCommitted
  <2> HIDE DEF commit, result
  <2>5. \A r \in Sessions : /\ store'[r] = None <=> store[r] = None
                            /\ store[r] # None =>
                                 \/ store'[r].result = store[r].result
                                 \/ /\ store'[r].result = result
                                    /\ r = j.session /\ j.via # "submit"
    BY <1>0, <2>1, <2>2, ResultStoredEntries
  <2>6. j.via # "submit" => sessions[j.session] = [wallet |-> j.wallet, type |-> j.type]
    BY DEF ProvedInv, JobsAgree
  <2>7. ASSUME NEW r \in Sessions, store'[r] # None, store'[r].result # None,
               store'[r].result.commit = None
        PROVE  <<sessions'[r].type, sessions'[r].wallet>> \in usedCategories'
    <3>1. CASE store'[r].result = store[r].result
      BY <1>a, <2>1, <2>5, <2>7, <3>1 DEF ScoreOnlyMeansCommitted
    <3>2. CASE r = j.session /\ j.via # "submit" /\ store'[r].result = result
      BY <1>a, <2>1, <2>2, <2>4, <2>6, <2>7, <3>2
    <3> QED BY <2>5, <2>7, <3>1, <3>2
  <2> QED BY <1>a, <2>1, <2>7 DEF JobsCommitted, ScoreOnlyMeansCommitted
<1>7. ASSUME NEW s \in Sessions, Evict(s)
      PROVE  Goal
  BY <1>0, <1>a, <1>7 DEF Evict, JobsCommitted, ScoreOnlyMeansCommitted
<1>8. ASSUME ServerRestart
      PROVE  Goal
  BY <1>0, <1>a, <1>8 DEF ServerRestart, JobsCommitted, ScoreOnlyMeansCommitted
<1>9. ASSUME NEW s \in Sessions, NEW w \in Wallets, NEW type \in Types, CreateSession(s, w, type)
      PROVE  Goal
  <2>1. /\ sessions' = [sessions EXCEPT ![s] = [wallet |-> w, type |-> type]]
        /\ store' = [store EXCEPT ![s] = [wallet |-> w, type |-> type,
                                          result |-> None, error |-> FALSE]]
        /\ UNCHANGED <<attested, reports, jobs>>
    BY <1>9 DEF CreateSession
  <2>2. ASSUME NEW r \in Sessions, store'[r] # None, store'[r].result # None,
               store'[r].result.commit = None
        PROVE  <<sessions'[r].type, sessions'[r].wallet>> \in usedCategories'
    <3>1. r # s /\ store'[r] = store[r] /\ sessions'[r] = sessions[r]
      BY <1>0, <2>1, <2>2
    <3> QED BY <1>a, <2>2, <3>1 DEF ScoreOnlyMeansCommitted
  <2> QED BY <1>a, <2>1, <2>2 DEF JobsCommitted, ScoreOnlyMeansCommitted
<1>10. ASSUME NEW s \in Sessions, StatusAnswers(s)
       PROVE  Goal
  BY <1>1, <1>10 DEF StatusAnswers
<1>11. ASSUME jobs' = Unheard, UNCHANGED <<attested, sessions, reports, store>>
       PROVE  Goal
  <2>1. ASSUME NEW k \in jobs', k.committed
        PROVE  <<k.type, k.wallet>> \in usedCategories
    <3>1. PICK j \in jobs : k = IF j.via = "page" THEN [j EXCEPT !.via = "gone"] ELSE j
      BY <1>11 DEF Unheard
    <3>2. j \in Jobs
      BY <1>0
    <3>3. k.type = j.type /\ k.wallet = j.wallet /\ (k.committed => j.committed)
      BY <3>1, <3>2 DEF Jobs
    <3> QED BY <2>1, <3>3 DEF JobsCommitted
  <2> QED BY <1>a, <1>11, <2>1 DEF JobsCommitted, ScoreOnlyMeansCommitted
<1> HIDE DEF Goal
<1>12. ASSUME NEW j \in jobs, JobStep(j) \/ JobFault(j)
       PROVE  Goal
  BY <1>4, <1>5, <1>6, <1>12, JobCourse
<1>13. Goal
  BY <1>1, <1>2, <1>3, <1>7, <1>8, <1>9, <1>10, <1>11, <1>12, OracleCourse
<1> QED BY <1>13 DEF Goal

(* ScoreOnlyMeansCommitted: the replay checks are skipped only for a wallet  *)
(* whose commit of that type is on the chain, however reads and mining race. *)
THEOREM ScoreAloneNeedsCommit == Spec => []ScoreOnlyMeansCommitted
<1>1. Init => ProvedInv /\ CategoriesUsedUp /\ JobsCommitted /\ ScoreOnlyMeansCommitted
  BY DEF Init, Deployed, OracleStarted, ProvedInv, EntriesFit, AnswersFit, EntriesAgree,
         JobsAgree, CategoriesUsedUp, JobsCommitted, ScoreOnlyMeansCommitted
<1>2. /\ RepInv /\ ProvedInv /\ CategoriesUsedUp /\ JobsCommitted /\ ScoreOnlyMeansCommitted
      /\ [Next]_vars
      => (ProvedInv /\ CategoriesUsedUp /\ JobsCommitted /\ ScoreOnlyMeansCommitted)'
  BY ProvedStep, CategoriesStep, ScoreOnlyStep
<1> QED BY <1>1, <1>2, RepInvHolds, PTL DEF Spec

(***************************************************************************)
(* An identity is confirmed only after a consent.                           *)
(***************************************************************************)

(* The request the identity page waits for was opened.                      *)
RequestIsOpen == kyc.request # None => requests[kyc.request] # None

(* What a new KYC message rests on.                                         *)
Consented(m) ==
    \/ m.master \in vouched
    \/ /\ kyc.waiting /\ kyc.request \in Requests
       /\ requests[kyc.request] \in [wallet : Wallets, status : {"given"}]

NewKycFollows == \A m \in attested' \ attested : m.fn = "verifyKYC" => Consented(m)

(* A step that signs no KYC message and opens or closes no request.         *)
LEMMA NoKycSigned ==
    ASSUME RequestIsOpen, attested' \subseteq attested \cup ScoreMessage \cup ProofMessage,
           UNCHANGED requests, kyc'.request \in {kyc.request, None}
    PROVE  RequestIsOpen' /\ NewKycFollows
BY DEF RequestIsOpen, NewKycFollows, ScoreMessage, ProofMessage

(* What the routes and the page of the identity do.                         *)
LEMMA OnKycConsent ==
    ASSUME RepInv, RequestIsOpen, OnKyc
    PROVE  RequestIsOpen' /\ NewKycFollows
<1> DEFINE Goal == RequestIsOpen' /\ NewKycFollows
<1>0. /\ requests \in [Requests -> RequestStates \cup {None}] /\ kyc \in KycStates
  BY DEF RepInv, PagesTyped, KycTyped
<1>1. ASSUME NEW q \in Requests, RequestOpens(q), UNCHANGED oracle
      PROVE  Goal
  <2> DEFINE x == [wallet |-> kyc.asking, status |-> "pending"]
  <2>1. requests' = [requests EXCEPT ![q] = x] /\ UNCHANGED attested /\ kyc'.request = q
    BY <1>0, <1>1 DEF RequestOpens, OpenRequest, oracle, KycStates
  <2>2. x # None
    <3>1. x \in RequestStates
      BY <1>0, <1>1 DEF RequestOpens, RequestStates, KycStates
    <3> QED BY <3>1, SystemAssumption
  <2> HIDE DEF x
  <2> QED BY <1>0, <2>1, <2>2 DEF RequestIsOpen, NewKycFollows
<1>2. ASSUME NEW q \in Requests, KycStatus(q)
      PROVE  Goal
  <2>1. UNCHANGED <<requests, kyc>> /\ kyc.request = q /\ kyc.waiting
    BY <1>2 DEF KycStatus
  <2>2. CASE UNCHANGED oracle
    BY <2>1, <2>2, NoKycSigned DEF oracle
  <2>3. CASE ConsentGiven(q)
    <3>1. requests[q] # None
      BY <2>1, SystemAssumption DEF RequestIsOpen
    <3>2. requests[q] \in [wallet : Wallets, status : {"given"}]
      BY <1>0, <2>3, <3>1 DEF ConsentGiven, RequestStates
    <3> QED BY <2>1, <3>2 DEF RequestIsOpen, NewKycFollows, Consented
  <2> QED BY <1>2, <2>2, <2>3 DEF KycStatus
<1>3. ASSUME AlreadyVerified
      PROVE  Goal
  <2>1. kyc.asking \in vouched /\ UNCHANGED requests /\ kyc'.request = kyc.request
    BY <1>0, <1>3 DEF AlreadyVerified, KycStates
  <2>2. PICK read : attested' = attested \cup {Approval(kyc.asking, read).kyc,
                                               Approval(kyc.asking, read).score}
    BY <1>3 DEF AlreadyVerified, Approve, Signed
  <2>3. \A m \in attested' \ attested : m.master \in vouched
    BY <2>1, <2>2 DEF Approval, KycAttestation, ScoreAttestation
  <2> QED BY <2>1, <2>3 DEF RequestIsOpen, NewKycFollows, Consented
<1>4. ASSUME ClaimIsSigned
      PROVE  Goal
  <2>1. \E w, score, nonce : attested' = attested \cup {ScoreAttestation(w, score, nonce)}
    BY <1>4 DEF ClaimIsSigned, Signed
  <2>2. \A m \in attested' \ attested : m.fn # "verifyKYC"
    BY <2>1 DEF ScoreAttestation
  <2>3. UNCHANGED requests /\ kyc'.request = kyc.request
    BY <1>0, <1>4 DEF ClaimIsSigned, KycStates
  <2> QED BY <2>2, <2>3 DEF RequestIsOpen, NewKycFollows
<1>5. ASSUME \/ ClickVerifyIdentity \/ PollTimesOut \/ ClickTryAgain \/ ClickStopWaiting
             \/ ClickConfirm \/ ClickClaim \/ VerifyFails \/ ConfirmRefused \/ ClaimFails
             \/ VerifyIsSent \/ BonusIsSent \/ ClaimIsSent
             \/ \E a \in kycAnswers : KycAnswerArrives(a),
             UNCHANGED oracle
      PROVE  Goal
  <2>1. UNCHANGED <<attested, requests>>
    BY <1>5
    DEF ClickVerifyIdentity, PollTimesOut, ClickTryAgain, ClickStopWaiting, ClickConfirm,
        ClickClaim, VerifyFails, ConfirmRefused, ClaimFails, VerifyIsSent, BonusIsSent,
        ClaimIsSent, KycAnswerArrives, oracle
  <2>2. kyc'.request \in {kyc.request, None}
    BY <1>0, <1>5
    DEF ClickVerifyIdentity, PollTimesOut, ClickTryAgain, ClickStopWaiting, ClickConfirm,
        ClickClaim, VerifyFails, ConfirmRefused, ClaimFails, VerifyIsSent, BonusIsSent,
        ClaimIsSent, KycAnswerArrives, KycStates
  <2> QED BY <2>1, <2>2, NoKycSigned
<1> HIDE DEF Goal
<1>6. Goal
  BY <1>1, <1>2, <1>3, <1>4, <1>5 DEF OnKyc
<1> QED BY <1>6 DEF Goal

LEMMA ConsentStep ==
    ASSUME RepInv, RequestIsOpen, [Next]_vars
    PROVE  RequestIsOpen' /\ NewKycFollows
<1> DEFINE Goal == RequestIsOpen' /\ NewKycFollows
<1>0. requests \in [Requests -> RequestStates \cup {None}] /\ kyc \in KycStates
  BY DEF RepInv, PagesTyped, KycTyped
<1>1. ASSUME UNCHANGED <<attested, kycpage>>
      PROVE  Goal
  BY <1>1, NoKycSigned DEF kycpage
<1>2. ASSUME NEW j \in jobs, JobStep(j) \/ JobFault(j), UNCHANGED kycpage
      PROVE  Goal
  <2>1. CASE SignJob(j)
    <3>1. attested' \subseteq attested \cup ScoreMessage \cup ProofMessage
      BY <2>1, SignedResult DEF SignJob, Signed, RepInv
    <3> QED BY <1>2, <3>1, NoKycSigned DEF kycpage
  <2>2. CASE UNCHANGED attested
    BY <1>1, <1>2, <2>2
  <2> QED BY <1>2, <2>1, <2>2, JobCourse DEF JobMoves
<1>3. CASE OracleStep \/ OracleRequest \/ OracleFault
  BY <1>1, <1>2, <1>3
  DEF OracleStep, OracleRequest, OracleFault, Callback, SubmitsProof, BeginJob, UserProves,
      ServerRestart, Evict
<1>4. CASE Polls \/ OnWeb2
  BY <1>1, <1>4 DEF Polls, StatusRunsJob, StatusAnswers, BeginJob, OnWeb2, SessionOpens,
                    CreateSession, oracle
<1>5. CASE OnWallets
  BY <1>1, <1>5 DEF OnWallets, CheckAnswers, oracle
<1>6. ASSUME NEW p \in Pages, OpenPage(p)
      PROVE  Goal
  <2>1. kyc'.request = None /\ UNCHANGED <<attested, requests>>
    BY <1>6 DEF OpenPage, FreshKyc
  <2> QED BY <2>1, NoKycSigned
<1>7. CASE QIEPassAnswers
  <2>1. PICK q \in Requests : Consents(q) /\ UNCHANGED attested
    BY <1>7 DEF QIEPassAnswers, oracle
  <2>2. PICK answer \in {"given", "rejected"} :
            requests' = [requests EXCEPT ![q].status = answer]
    BY <2>1 DEF Consents
  <2> DEFINE x == [requests[q] EXCEPT !.status = answer]
  <2>3. x \in RequestStates /\ requests[q] # None /\ UNCHANGED kyc
    BY <1>0, <2>1 DEF Consents, RequestStates
  <2>4. x # None
    BY <2>3, SystemAssumption
  <2>5. requests' = [requests EXCEPT ![q] = x]
    BY <2>2
  <2> HIDE DEF x
  <2>6. RequestIsOpen'
    BY <1>0, <2>3, <2>4, <2>5 DEF RequestIsOpen, KycStates
  <2> QED BY <2>1, <2>6 DEF NewKycFollows
<1>8. CASE NewDay \/ Revocation \/ Mining \/ AccountSwitch \/ SentElsewhere \/ UNCHANGED vars
  BY <1>1, <1>8
  DEF NewDay, Revocation, Mining, AccountSwitch, SentElsewhere, oracle, kycpage, vars
<1>9. CASE OnKyc
  BY <1>9, OnKycConsent
<1> QED BY <1>3, <1>4, <1>5, <1>6, <1>7, <1>8, <1>9 DEF Next

(* KycFollowsConsent: the oracle signs a KYC message for a wallet QIE Pass     *)
(* has verified, or while the page waits on a request that was consented to.  *)
THEOREM IdentityNeedsConsent == Spec => KycFollowsConsent
<1>1. Init => RequestIsOpen
  BY DEF Init, FreshKyc, RequestIsOpen
<1>2. RepInv /\ RequestIsOpen /\ [Next]_vars => RequestIsOpen'
  BY ConsentStep
<1>3. RepInv /\ RequestIsOpen /\ [Next]_vars => [NewKycFollows]_vars
  BY ConsentStep
<1> QED
  BY <1>1, <1>2, <1>3, RepInvHolds, PTL DEF Spec, KycFollowsConsent, NewKycFollows, Consented
=============================================================================
