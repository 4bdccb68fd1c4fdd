-------------------------------- MODULE KycPage ---------------------------------
(***************************************************************************)
(* The identity page, reputation/kyc/page.tsx, the KYC routes it calls, and *)
(* QIE Pass behind them (external: a request that ends pending, given or    *)
(* rejected, and a memory of the wallets it has verified).                  *)
(*                                                                          *)
(* A route reads the score and signs in one step; its answer travels to the *)
(* page in another, so the page and the chain may have moved on.            *)
(***************************************************************************)
EXTENDS BrowserWallet

CONSTANTS Requests, Rejected

VARIABLES requests,    \* QIE Pass: a verification request and its consent
          vouched,     \* QIE Pass: wallets already verified with the partner
          kyc,         \* the component's state
          kycAnswers   \* replies of the status route on their way

kycpage == <<requests, vouched, kyc, kycAnswers>>

RequestStates == [wallet : Wallets, status : {"pending", "given", "rejected"}]
KycApprovals == [kyc : KycMessage, score : ScoreMessage]
KycAnswer == [request : Requests, verdict : KycApprovals \cup {Rejected, Failed}]

KycStates ==
    [asking : Wallets \cup {NoOne}, request : {None} \cup Requests,
     data : {None} \cup KycApprovals,
     prompt : {"none", "verify", "score"},
     closure : [address : Wallets \cup {NoOne}, data : {None} \cup KycApprovals],
     waiting : BOOLEAN, timedOut : BOOLEAN, done : BOOLEAN,
     claimer : Wallets \cup {NoOne}, claim : {None} \cup ScoreMessage]

NoKycClosure == [address |-> NoOne, data |-> None]

FreshKyc == [asking |-> NoOne, request |-> None, data |-> None, prompt |-> "none",
             closure |-> NoKycClosure, waiting |-> FALSE, timedOut |-> FALSE,
             done |-> FALSE, claimer |-> NoOne, claim |-> None]

QIEPassStarted ==
    /\ requests = [q \in Requests |-> None]
    /\ vouched = {}
    /\ kycAnswers = {}

---------------------------------------------------------------------------
(* The routes.                                                              *)

(* buildKycApproval, and the same lines of the status route. A failed read   *)
(* of the score counts as 0.                                                *)
Approval(w, read) ==
    [kyc |-> KycAttestation(w, drawn + 1),
     score |-> ScoreAttestation(w, Capped(read + KYC_SCORE_BONUS), drawn + 2)]

Approve(w, read) ==
    /\ Fresh(2)
    /\ Signed({Approval(w, read).kyc, Approval(w, read).score})
    /\ UNCHANGED <<sessions, reports, store, jobs, answers>>

(* createVerificationRequest: QIE Pass opens a request, or answers 409 for  *)
(* a wallet it knows.                                                       *)
OpenRequest(q, w) ==
    /\ requests[q] = None /\ \A r \in Requests : r < q => requests[r] # None
    /\ w \notin vouched
    /\ requests' = [requests EXCEPT ![q] = [wallet |-> w, status |-> "pending"]]
    /\ UNCHANGED vouched

Consents(q) ==
    /\ requests[q] # None /\ requests[q].status = "pending"
    /\ \E answer \in {"given", "rejected"} :
          /\ requests' = [requests EXCEPT ![q].status = answer]
          /\ vouched' = IF answer = "given" THEN vouched \cup {requests[q].wallet} ELSE vouched
    /\ UNCHANGED <<kyc, kycAnswers>>

AnswerKyc(q, verdict) ==
    kycAnswers' = kycAnswers \cup {[request |-> q, verdict |-> verdict]}

\* mutant: whatever is no longer pending has been granted
ConsentSettled(q) == requests[q].status # "pending"

ConsentGiven(q) == requests[q].status = "given"

(* claimAndVerify, and the signing after it: for the account of the page.    *)
ClaimAndVerify(q) ==
    \E read \in {profile[address].score, 0} :
        Approve(address, read) /\ AnswerKyc(q, Approval(address, read))

(* GET /kyc/status for the account the page is on; a pending request answers *)
(* "pending", which changes nothing.                                        *)
KycStatus(q) ==
    /\ kyc.request = q /\ kyc.data = None /\ kyc.waiting
    /\ \/ /\ requests[q].status = "rejected"
          /\ AnswerKyc(q, Rejected)
          /\ UNCHANGED oracle
       \/ /\ ConsentGiven(q)                   \* the credential does not verify,
          /\ AnswerKyc(q, Failed)              \* or a call throws
          /\ UNCHANGED oracle
       \/ /\ ConsentGiven(q)
          /\ ClaimAndVerify(q)
    /\ UNCHANGED <<requests, vouched, kyc>>

---------------------------------------------------------------------------
(* The page.                                                                *)

ScoreClaimNeeded == IsKYCVerified(address) /\ ShownScore < 200 /\ ~kyc.done

(* The button stays on while a request is out; one at a time is the bound.   *)
ClickVerifyIdentity ==
    /\ Shown
    /\ ~IsKYCVerified(address) /\ kyc.data = None /\ ~kyc.waiting
    /\ kyc.asking = NoOne
    /\ kyc' = [kyc EXCEPT !.asking = address]
    /\ UNCHANGED <<requests, vouched, kycAnswers>>

(* handleVerify after POST /kyc: a new request to wait for, signed data at   *)
(* once, or an error.                                                       *)
RequestOpens(q) ==
    /\ kyc.asking # NoOne
    /\ OpenRequest(q, kyc.asking)
    /\ kyc' = [kyc EXCEPT !.asking = NoOne, !.request = q, !.waiting = TRUE]
    /\ UNCHANGED <<oracle, kycAnswers>>

AlreadyVerified ==
    /\ kyc.asking \in vouched
    /\ \E read \in {profile[kyc.asking].score, 0} :
          /\ Approve(kyc.asking, read)
          /\ kyc' = [kyc EXCEPT !.asking = NoOne, !.data = Approval(kyc.asking, read)]
    /\ UNCHANGED <<requests, vouched, kycAnswers>>

VerifyFails ==
    /\ kyc.asking # NoOne
    /\ kyc' = [kyc EXCEPT !.asking = NoOne]
    /\ UNCHANGED <<oracle, requests, vouched, kycAnswers>>

(* Replies of the poll, also those that were out when the page moved on.    *)
KycAnswerArrives(a) ==
    /\ a \in kycAnswers
    /\ kycAnswers' = kycAnswers \ {a}
    /\ kyc' = IF a.verdict \in {Rejected, Failed}
                THEN [kyc EXCEPT !.waiting = FALSE, !.request = None]
                ELSE [kyc EXCEPT !.data = a.verdict, !.waiting = FALSE, !.timedOut = FALSE]
    /\ UNCHANGED <<requests, vouched>>

(* 90 seconds of polling.                                                   *)
PollTimesOut ==
    /\ kyc.request # None /\ kyc.data = None
    /\ kyc.waiting
    /\ kyc' = [kyc EXCEPT !.waiting = FALSE, !.timedOut = TRUE]
    /\ UNCHANGED <<requests, vouched, kycAnswers>>

ClickTryAgain ==
    /\ Shown
    /\ kyc.timedOut /\ kyc.data = None
    /\ kyc' = [kyc EXCEPT !.timedOut = FALSE, !.request = None]
    /\ UNCHANGED <<requests, vouched, kycAnswers>>

ClickStopWaiting ==
    /\ Shown
    /\ kyc.waiting /\ kyc.data = None
    /\ kyc' = [kyc EXCEPT !.waiting = FALSE, !.request = None]
    /\ UNCHANGED <<requests, vouched, kycAnswers>>

(* handleSubmitOnChain: the KYC message is signed for its own master; the    *)
(* score goes out for the account the page was on.                          *)
ClickConfirm ==
    /\ Shown
    /\ kyc.data # None /\ kyc.prompt = "none"
    /\ kyc' = [kyc EXCEPT !.prompt = "verify",
                          !.closure = [address |-> address, data |-> kyc.data]]
    /\ UNCHANGED <<requests, vouched, kycAnswers>>

VerifyIsSent ==
    /\ kyc.prompt = "verify"
    /\ Send(kyc.closure.data.kyc)
    /\ kyc' = [kyc EXCEPT !.prompt = "score"]
    /\ UNCHANGED <<requests, vouched, kycAnswers>>

BonusIsSent ==
    /\ kyc.prompt = "score"
    /\ Send(CallFor(kyc.closure.address, kyc.closure.data.score))
    /\ kyc' = [kyc EXCEPT !.prompt = "none", !.closure = NoKycClosure, !.data = None,
                          !.request = None, !.done = TRUE]
    /\ UNCHANGED <<requests, vouched, kycAnswers>>

ConfirmRefused ==
    /\ kyc.prompt # "none"
    /\ kyc' = [kyc EXCEPT !.prompt = "none", !.closure = NoKycClosure]
    /\ UNCHANGED <<wallet, requests, vouched, kycAnswers>>

(* handleClaimScore and POST /kyc/claim-score.                              *)
ClickClaim ==
    /\ Shown
    /\ ScoreClaimNeeded
    /\ kyc.claimer = NoOne
    /\ kyc' = [kyc EXCEPT !.claimer = address]
    /\ UNCHANGED <<requests, vouched, kycAnswers>>

Claimable(w, read) ==
    /\ IsKYCVerified(w)
    /\ read < KYC_SCORE_BONUS

ClaimIsSigned ==
    /\ kyc.claimer # NoOne /\ kyc.claim = None
    /\ \E read \in {profile[kyc.claimer].score, 0} :
          /\ Claimable(kyc.claimer, read)
          /\ Fresh(1)
          /\ LET m == ScoreAttestation(kyc.claimer, Capped(read + KYC_SCORE_BONUS), drawn + 1)
             IN  Signed({m}) /\ kyc' = [kyc EXCEPT !.claim = m]
    /\ UNCHANGED <<sessions, reports, store, jobs, answers, requests, vouched, kycAnswers>>

ClaimIsSent ==
    /\ kyc.claim # None
    /\ Send(CallFor(kyc.claimer, kyc.claim))
    /\ kyc' = [kyc EXCEPT !.claimer = NoOne, !.claim = None]
    /\ UNCHANGED <<requests, vouched, kycAnswers>>

ClaimFails ==
    /\ kyc.claimer # NoOne
    /\ kyc' = [kyc EXCEPT !.claimer = NoOne, !.claim = None]
    /\ UNCHANGED <<wallet, requests, vouched, kycAnswers>>

=============================================================================
