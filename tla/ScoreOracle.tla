------------------------------ MODULE ScoreOracle -------------------------------
(***************************************************************************)
(* The backend that turns a finished Reclaim proof into signed messages:    *)
(* the session store, the routes that write it, and processAndSignProof.    *)
(* One job is one run of that function. It awaits the chain several times,  *)
(* so its reads are steps of their own, and every read but the events' may  *)
(* fail into the default the code gives it; the scan of events fails into   *)
(* an empty list, which is also what a commit older than its window gives.  *)
(*                                                                          *)
(* A session id stands for the Reclaim session and for the proof made in it *)
(* (the claim's identifier differs in every session); a document is what    *)
(* the bureau showed, the same for every wallet. What ties a proof to the   *)
(* request it comes with is the caller: the status route fetches the proof  *)
(* of the session it is asked about; the webhook takes a session and a      *)
(* proof, and the submit route a proof, a wallet and a type, as they come.  *)
(* The store's TTL is minutes                                               *)
(* and now counts KYC terms, so expiry of a session is a step of its own.   *)
(* nonces are drawn at random from 2^256: two draws never agree here.       *)
(***************************************************************************)
EXTENDS ReputationRegistry, ScoreModel

CONSTANTS DocumentType,     \* of a document: its kind
          RawScore,         \* of a document claimed as a type: the score read in it
          KYC_TERM, MaxInFlight, None, Failed

ASSUME OracleAssumption ==
    /\ \A n \in Nullifiers : RawScore[n] \in Nat
    /\ KYC_TERM \in Nat

KYC_SCORE_BONUS == 200
KYC_BASE == 200

VARIABLES drawn,      \* how many nonces have been drawn
          sessions,   \* what Reclaim embedded in a session: wallet and type
          reports,    \* the document proved in a session, at Reclaim
          store,      \* proofStore: the server's memory
          jobs,       \* runs of processAndSignProof
          answers     \* replies of the status route on their way to the page

oracle == <<attested, drawn, sessions, reports, store, jobs, answers>>

SessionContexts == [wallet : Wallets, type : Types]
Results == [commit : ProofMessage \cup {None}, score : ScoreMessage]
Verdicts == Results \cup {Failed}
Entries == [wallet : Wallets, type : Types, result : Results \cup {None}, error : BOOLEAN]
Jobs == [session : Sessions, proof : Sessions, via : {"callback", "page", "gone", "submit"},
         wallet : Wallets, type : Types, at : {"history", "replay", "score", "sign"}, committed : BOOLEAN, score : Scores]
Answers == [session : Sessions, verdict : Verdicts]

Fresh(n) == drawn + n <= MaxNonce

Delta(nullifier) == ComputeDelta(nullifier[1], RawScore[nullifier], 0)

\* mutant: a sum that may pass what the contract takes
Uncapped(score) == score

Capped(score) == Least(MAX_CREDIT_SCORE, score)

(* verifyProof: the document of a job's proof, under the type claimed for it. *)
DocumentOf(j) == <<j.type, reports[j.proof]>>

ScoreAttestation(w, score, nonce) ==
    [fn |-> "updateCreditScore", master |-> w, score |-> score, nonce |-> nonce]
KycAttestation(w, nonce) ==
    [fn |-> "verifyKYC", master |-> w, expiry |-> now + KYC_TERM, nonce |-> nonce]
ProofAttestation(j, nonce) ==
    [fn |-> "commitZKProof", master |-> j.wallet, proof |-> j.proof, type |-> j.type,
     document |-> DocumentOf(j), nonce |-> nonce]

Signed(messages) ==
    /\ attested' = attested \cup messages
    /\ drawn' = drawn + Cardinality(messages)

OracleStarted ==
    /\ attested = {} /\ drawn = 0
    /\ sessions = [s \in Sessions |-> None]
    /\ reports = [s \in Sessions |-> None]
    /\ store = [s \in Sessions |-> None]
    /\ jobs = {} /\ answers = {}

---------------------------------------------------------------------------
(* Sessions.                                                                *)

NextSession(s) == sessions[s] = None /\ \A r \in Sessions : r < s => sessions[r] # None

(* POST /zkproof; telecom is not among the allowed types.                   *)
CreateSession(s, w, type) ==
    /\ NextSession(s)
    /\ type \in CREDIT_PROOF_TYPES
    /\ sessions' = [sessions EXCEPT ![s] = [wallet |-> w, type |-> type]]
    /\ store' = [store EXCEPT ![s] = [wallet |-> w, type |-> type,
                                      result |-> None, error |-> FALSE]]
    /\ UNCHANGED <<attested, drawn, reports, jobs, answers>>

(* The user finishes the proof on Reclaim's side.                           *)
UserProves(s, d) ==
    /\ sessions[s] # None /\ reports[s] = None
    /\ DocumentType[d] = sessions[s].type
    /\ reports' = [reports EXCEPT ![s] = d]
    /\ UNCHANGED <<attested, drawn, sessions, store, jobs, answers>>

(* evict, at the next read or write after the TTL.                          *)
Evict(s) ==
    /\ store[s] # None
    /\ store' = [store EXCEPT ![s] = None]
    /\ UNCHANGED <<attested, drawn, sessions, reports, jobs, answers>>

(* The store and the running requests live in the memory of one process.    *)
ServerRestart ==
    /\ store' = [s \in Sessions |-> None]
    /\ jobs' = {} /\ answers' = {}
    /\ UNCHANGED <<attested, drawn, sessions, reports>>

(* setResult and setError: an entry that is gone takes nothing, and the      *)
(* submit route stores nothing.                                             *)
Kept(j) == j.via # "submit" /\ store[j.session] # None
WithResult(j, r) == IF Kept(j) THEN [store EXCEPT ![j.session].result = r] ELSE store
WithError(j) == IF Kept(j) THEN [store EXCEPT ![j.session].error = TRUE] ELSE store

(* The page that asked is gone: its requests run on and nobody hears them.  *)
Unheard == {IF j.via = "page" THEN [j EXCEPT !.via = "gone"] ELSE j : j \in jobs}

---------------------------------------------------------------------------
(* processAndSignProof.                                                     *)

BeginJob(s, proof, via, w, type) ==
    /\ reports[proof] # None
    /\ Cardinality(jobs) < MaxInFlight
    /\ jobs' = jobs \cup {[session |-> s, proof |-> proof, via |-> via,
                           wallet |-> w, type |-> type,
                           at |-> "history", committed |-> FALSE, score |-> 0]}
    /\ UNCHANGED <<attested, drawn, sessions, reports, store, answers>>

\* mutant: the wallet and the type of the newest entry
CallbackOnNewest(s, proof) ==
    /\ store[s] # None
    /\ LET newest == store[Max({r \in Sessions : store[r] # None})]
       IN  BeginJob(s, proof, "callback", newest.wallet, newest.type)

(* Reclaim's webhook, as often as it likes: a finished proof, for the entry  *)
(* of the session it names.                                                 *)
Callback(s, proof) ==
    /\ store[s] # None
    /\ BeginJob(s, proof, "callback", store[s].wallet, store[s].type)

(* POST /proof/submit: wallet and type come with the proof, and the outcome  *)
(* is the caller's alone.                                                   *)
SubmitsProof(proof, w, type) == BeginJob(proof, proof, "submit", w, type)

(* GET /zkproof/status with nothing in the store yet and a proof at Reclaim. *)
StatusRunsJob(s) ==
    /\ store[s] # None
    /\ ~store[s].error /\ store[s].result = None
    /\ BeginJob(s, s, "page", store[s].wallet, store[s].type)

(* GET /zkproof/status with an outcome in the store; the error comes first. *)
StatusAnswers(s) ==
    /\ store[s] # None
    /\ store[s].error \/ store[s].result # None
    /\ Cardinality(answers) < MaxInFlight
    /\ answers' = answers \cup {[session |-> s,
                                 verdict |-> IF store[s].error THEN Failed ELSE store[s].result]}
    /\ UNCHANGED <<attested, drawn, sessions, reports, store, jobs>>

Replied(j, verdict) ==
    IF j.via = "page" THEN answers \cup {[session |-> j.session, verdict |-> verdict]}
    ELSE answers

JobMoves(j, to) ==
    /\ jobs' = (jobs \ {j}) \cup {to}
    /\ UNCHANGED <<attested, drawn, sessions, reports, store, answers>>

JobErrs(j) ==
    /\ jobs' = jobs \ {j}
    /\ store' = WithError(j)
    /\ answers' = Replied(j, Failed)
    /\ UNCHANGED <<attested, drawn, sessions, reports>>

(* verifyProof refuses: the SDK says no or throws.                          *)
ProofRefused(j) == j.at = "history" /\ JobErrs(j)

(* readCommittedProofTypeHashes.                                            *)
CommittedTypes(w) == {e.type : e \in {f \in events : f.master = w}}

(* GET /proof-status: what the scan gives, which is nothing for a commit     *)
(* older than its window, or when the chain does not answer.                *)
ProofStatus(w) == {CommittedTypes(w), {}}

\* mutant: a used document is taken for this wallet's own commit
HistoryReadLoosely(j, seen) ==
    LET own == j.type \in seen \/ DocumentOf(j) \in usedDocuments
    IN  /\ j.at = "history"
        /\ JobMoves(j, [j EXCEPT !.committed = own, !.at = IF own THEN "score" ELSE "replay"])

HistoryRead(j, seen) ==
    /\ j.at = "history"
    /\ JobMoves(j, [j EXCEPT !.committed = j.type \in seen,
                             !.at = IF j.type \in seen THEN "score" ELSE "replay"])

ReadHistory(j) == HistoryRead(j, CommittedTypes(j.wallet))
HistoryUnread(j) == HistoryRead(j, {})

(* readIsProofUsed and readIsDocumentNullifierUsed; unread, both are false.  *)
CheckReplay(j) ==
    /\ j.at = "replay"
    /\ IF j.proof \in usedProofs \/ DocumentOf(j) \in usedDocuments
         THEN JobErrs(j)
         ELSE JobMoves(j, [j EXCEPT !.at = "score"])

ReplayUnread(j) == j.at = "replay" /\ JobMoves(j, [j EXCEPT !.at = "score"])

(* readCreditScore; unread, it is 0.                                        *)
ScoreRead(j, read) ==
    /\ j.at = "score"
    /\ JobMoves(j, [j EXCEPT !.at = "sign", !.score = read])

ReadScore(j) == ScoreRead(j, profile[j.wallet].score)
ScoreUnread(j) == ScoreRead(j, 0)

NewScore(j) ==
    LET delta == Delta(DocumentOf(j))
    IN  IF j.committed THEN Capped(Most(j.score, KYC_BASE + delta))
        ELSE Capped(j.score + delta)

SignJob(j) ==
    /\ j.at = "sign"
    /\ Fresh(IF j.committed THEN 1 ELSE 2)
    /\ LET score == ScoreAttestation(j.wallet, NewScore(j), drawn + 1)
           commit == IF j.committed THEN None ELSE ProofAttestation(j, drawn + 2)
           result == [commit |-> commit, score |-> score]
       IN  /\ Signed({score, commit} \ {None})
           /\ store' = WithResult(j, result)
           /\ answers' = Replied(j, result)
    /\ jobs' = jobs \ {j}
    /\ UNCHANGED <<sessions, reports>>

(* An exception (the RPC refuses the nonce check five times, no key): the    *)
(* webhook stores an error, the status route answers "pending".             *)
JobThrows(j) ==
    /\ jobs' = jobs \ {j}
    /\ store' = IF j.via = "callback" THEN WithError(j) ELSE store
    /\ UNCHANGED <<attested, drawn, sessions, reports, answers>>

JobStep(j) == ReadHistory(j) \/ CheckReplay(j) \/ ReadScore(j) \/ SignJob(j)

(* A call of the job that fails: one that the code gives a default, or not.  *)
JobFault(j) == ProofRefused(j) \/ HistoryUnread(j) \/ ReplayUnread(j) \/ ScoreUnread(j)
                 \/ JobThrows(j)

=============================================================================
