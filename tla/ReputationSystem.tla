--------------------------- MODULE ReputationSystem -----------------------------
(***************************************************************************)
(* The reputation of a person with several accounts: the registry, the      *)
(* oracle's backend, QIE Pass and Reclaim behind it, and one browser tab    *)
(* that shows one of the three reputation pages. Opening another page, or    *)
(* reloading, drops the page's state and the replies it waits for; what is   *)
(* signed, sent, stored or committed stays.                                 *)
(***************************************************************************)
EXTENDS Web2Page, KycPage, WalletsPage

CONSTANTS MaxTime, MaxMishaps, Pages,
          StartingProfiles    \* what an account may hold at the start

ASSUME SystemAssumption ==
    /\ StartingProfiles \subseteq Profiles
    /\ None \notin SessionContexts \cup Entries \cup ProofMessage \cup RequestStates \cup Requests
                 \cup Documents

VARIABLES page,
          mishaps   \* bounds what comes from outside a page's own course

chain == <<now, registry>>
vars == <<now, profile, usedNonces, usedProofs, usedCategories, usedDocuments, events,
          children, lockedTo, attested, drawn, sessions, reports, store, jobs, answers,
          address, mempool, web2, doneProofs, persisted, requests, vouched, kyc,
          kycAnswers, link, linkSigned, page, mishaps>>

Init ==
    /\ Deployed
    /\ profile \in [Wallets -> StartingProfiles]
    /\ OracleStarted /\ WalletStarted /\ QIEPassStarted
    /\ web2 = FreshWeb2 /\ doneProofs = {}
    /\ persisted = [w \in Wallets |-> {}]
    /\ kyc = FreshKyc
    /\ link = FreshLink /\ linkSigned = {}
    /\ page \in Pages
    /\ mishaps = 0

Mishap == mishaps < MaxMishaps /\ mishaps' = mishaps + 1

NewDay ==
    /\ Mishap /\ now < MaxTime
    /\ now' = now + 1
    /\ UNCHANGED <<registry, oracle, wallet, web2page, kycpage, walletspage, page>>

Revocation ==
    /\ Mishap /\ \E w \in Wallets : profile[w].verified /\ RevokeKYC(w)
    /\ UNCHANGED <<now, oracle, wallet, web2page, kycpage, walletspage, page>>

Mining ==
    /\ \E w \in Wallets : Mine(w)
    /\ UNCHANGED <<now, oracle, web2page, kycpage, walletspage, page, mishaps>>

(* A page is opened, or the one that is open reloaded. The prompts of a page *)
(* are answered before it is left.                                          *)
OpenPage(p) ==
    /\ Mishap
    /\ ~IsSubmitting /\ kyc.prompt = "none" /\ link.handler = Resting
    /\ page' = p
    /\ web2' = FreshWeb2 /\ kyc' = FreshKyc /\ link' = FreshLink
    /\ doneProofs' = persisted[address]
    /\ answers' = {} /\ kycAnswers' = {} /\ jobs' = Unheard
    /\ UNCHANGED <<now, registry, attested, drawn, sessions, reports, store, wallet,
                   persisted, requests, vouched, linkSigned>>

AccountSwitch ==
    /\ Mishap
    /\ \E w \in Wallets : AccountSwitched(w) /\ doneProofs' = LoadedFor(w, doneProofs)
    /\ UNCHANGED <<now, registry, oracle, web2, persisted, kycpage, page>>

(* The backend and the services behind it.                                  *)
OracleStep ==
    /\ \/ /\ \E s \in Sessions : Callback(s, s) \/ \E d \in Documents : UserProves(s, d)
          /\ UNCHANGED mishaps
       \/ (\E j \in jobs : JobStep(j)) /\ UNCHANGED mishaps
    /\ UNCHANGED <<now, registry, wallet, web2page, kycpage, walletspage, page>>

(* A webhook that names one session and brings the proof of another, and the *)
(* submit route, which no page calls.                                       *)
OracleRequest ==
    /\ Mishap
    /\ \/ \E s, p \in Sessions : s # p /\ Callback(s, p)
       \/ \E p \in Sessions, w \in Wallets, type \in Types : SubmitsProof(p, w, type)
    /\ UNCHANGED <<now, registry, wallet, web2page, kycpage, walletspage, page>>

OracleFault ==
    /\ Mishap
    /\ \/ ServerRestart
       \/ \E s \in Sessions : Evict(s)
       \/ \E j \in jobs : JobFault(j)
    /\ UNCHANGED <<now, registry, wallet, web2page, kycpage, walletspage, page>>

Polls ==
    /\ page = "web2"
    /\ \E s \in Sessions : Polling(s) /\ (StatusRunsJob(s) \/ StatusAnswers(s))
    /\ UNCHANGED <<now, registry, wallet, web2page, kycpage, walletspage, page, mishaps>>

OnWeb2 ==
    /\ page = "web2"
    /\ \/ /\ \/ \E type \in Types : ClickVerify(type) \/ ClickResync(type)
             \/ ClickCancel \/ SwitchRegion \/ ClickDismiss \/ ClickSubmit
          /\ UNCHANGED <<oracle, wallet, mishaps>>
       \/ (SessionFails \/ PromptRefused) /\ Mishap /\ UNCHANGED <<oracle, wallet>>
       \/ \E s \in Sessions : SessionOpens(s) /\ UNCHANGED <<wallet, mishaps>>
       \/ /\ \E a \in answers : AnswerArrives(a)
          /\ UNCHANGED <<attested, drawn, sessions, reports, store, jobs, wallet, mishaps>>
       \/ (CommitIsSent \/ ScoreIsSent) /\ UNCHANGED <<oracle, mishaps>>
    /\ UNCHANGED <<now, registry, kycpage, walletspage, page>>

OnKyc ==
    /\ page = "kyc"
    /\ \/ /\ \/ ClickVerifyIdentity \/ PollTimesOut \/ ClickTryAgain \/ ClickStopWaiting
             \/ ClickConfirm \/ ClickClaim
             \/ \E q \in Requests : RequestOpens(q)
             \/ \E a \in kycAnswers : KycAnswerArrives(a)
          /\ UNCHANGED <<oracle, wallet, mishaps>>
       \/ (VerifyFails \/ ConfirmRefused \/ ClaimFails) /\ Mishap /\ UNCHANGED <<oracle, wallet>>
       \/ (VerifyIsSent \/ BonusIsSent \/ ClaimIsSent) /\ UNCHANGED <<oracle, mishaps>>
       \/ (AlreadyVerified \/ ClaimIsSigned \/ \E q \in Requests : KycStatus(q))
            /\ UNCHANGED <<wallet, mishaps>>
    /\ UNCHANGED <<now, registry, web2page, walletspage, page>>

QIEPassAnswers ==
    /\ \E q \in Requests : Consents(q)
    /\ UNCHANGED <<now, registry, oracle, wallet, web2page, walletspage, page, mishaps>>

OnWallets ==
    /\ page = "wallets"
    /\ \/ /\ \/ \E w \in Wallets : TypeChild(w)
             \/ ClickPrepare \/ ClickMasterSign \/ MasterSigns \/ ClickChildSign \/ ChildSigns
             \/ ClickLink \/ ValidationPasses \/ ClickReset
          /\ UNCHANGED <<oracle, wallet, mishaps>>
       \/ /\ CheckRefuses \/ MasterRefuses \/ ChildRefuses \/ ValidationFails \/ LinkRefused
          /\ Mishap /\ UNCHANGED <<oracle, wallet>>
       \/ CheckAnswers /\ UNCHANGED <<wallet, mishaps>>
       \/ LinkIsSent /\ UNCHANGED <<oracle, mishaps>>
    /\ UNCHANGED <<now, registry, web2page, kycpage, page>>

(* The registry is open: another front end may send what the oracle signed,  *)
(* or a link with signatures that were made here.                           *)
SentElsewhere ==
    /\ Mishap
    /\ \E w \in Wallets :
          /\ Len(mempool[w]) < MaxPending
          /\ \/ \E m \in attested : mempool' = [mempool EXCEPT ![w] = Append(@, m)]
             \/ \E child \in Wallets, n \in Nonces, masterSig, childSig \in linkSigned :
                  mempool' = [mempool EXCEPT ![w] = Append(@,
                    [fn |-> "linkChildWallet", from |-> w, child |-> child, nonce |-> n,
                     masterSig |-> masterSig, childSig |-> childSig])]
    /\ UNCHANGED <<now, registry, oracle, address, web2page, kycpage, walletspage, page>>

Next == \/ NewDay \/ Revocation \/ Mining \/ AccountSwitch
        \/ OracleStep \/ OracleRequest \/ OracleFault \/ Polls
        \/ OnWeb2 \/ OnKyc \/ QIEPassAnswers \/ OnWallets \/ SentElsewhere
        \/ \E p \in Pages : OpenPage(p)

Spec == Init /\ [][Next]_vars

---------------------------------------------------------------------------

RepTypeOK ==
    /\ now \in Nat
    /\ profile \in [Wallets -> Profiles]
    /\ usedNonces \subseteq Nonces
    /\ usedProofs \subseteq Sessions
    /\ usedCategories \subseteq Types \X Wallets
    /\ usedDocuments \subseteq Nullifiers
    /\ events \subseteq Commits
    /\ children \in [Wallets -> SUBSET Wallets]
    /\ lockedTo \in [Wallets -> Wallets \cup {NoOne}]
    /\ attested \subseteq Messages
    /\ drawn \in 0 .. MaxNonce
    /\ sessions \in [Sessions -> SessionContexts \cup {None}]
    /\ reports \in [Sessions -> Documents \cup {None}]
    /\ store \in [Sessions -> Entries \cup {None}]
    /\ jobs \subseteq Jobs
    /\ answers \subseteq Answers
    /\ address \in Wallets
    /\ mempool \in [Wallets -> Seq(Transactions)]
    /\ web2 \in Web2States
    /\ doneProofs \subseteq Types
    /\ persisted \in [Wallets -> SUBSET Types]
    /\ requests \in [Requests -> RequestStates \cup {None}]
    /\ vouched \subseteq Wallets
    /\ kyc \in KycStates
    /\ kycAnswers \subseteq KycAnswer
    /\ link \in LinkStates
    /\ linkSigned \subseteq LinkSignatures
    /\ page \in Pages

(* A result is for the session it was asked for: whatever the store or a     *)
(* reply holds under a session's id is made out to the wallet that opened    *)
(* it, for the type it was opened for, and commits the document of a proof   *)
(* that was finished; jobs of other sessions, evictions, restarts and late   *)
(* callbacks in between change nothing of that.                             *)
ResultsOf(s) ==
    {a.verdict : a \in {b \in answers : b.session = s}}
      \cup (IF store[s] = None THEN {} ELSE {store[s].result})

ResultsStayWithTheirSession ==
    \A s \in Sessions : \A r \in ResultsOf(s) \ {None, Failed} :
        /\ r.score.master = sessions[s].wallet
        /\ r.commit # None =>
             /\ r.commit.master = sessions[s].wallet /\ r.commit.type = sessions[s].type
             /\ reports[r.commit.proof] # None
             /\ r.commit.document = <<r.commit.type, reports[r.commit.proof]>>

(* A result that carries a score and no commit is given only to a wallet     *)
(* whose commit of that type is on the chain: the replay checks are skipped  *)
(* for nobody else, whatever was mined while the job was waiting.            *)
ScoreOnlyMeansCommitted ==
    \A s \in Sessions : store[s] # None /\ store[s].result # None =>
        (store[s].result.commit = None =>
            <<sessions[s].type, sessions[s].wallet>> \in usedCategories)

(* A score on the chain changes only to one the oracle signed for that       *)
(* wallet, and by spending a nonce that was unspent.                         *)
ScoreChangesByFreshAttestation ==
    [][\A w \in Wallets : profile'[w].score # profile[w].score =>
          \E m \in attested : /\ m.fn = "updateCreditScore" /\ m.master = w
                              /\ m.score = profile'[w].score
                              /\ m.nonce \in usedNonces' \ usedNonces]_vars

(* The oracle confirms an identity only on a consent: a new KYC message is   *)
(* for a wallet QIE Pass knows as verified, or the request the page waits    *)
(* for has been consented to; it never comes of one that is still open or    *)
(* was rejected, or of one the page has given up.                           *)
KycFollowsConsent ==
    [][\A m \in attested' \ attested : m.fn = "verifyKYC" =>
          \/ m.master \in vouched
          \/ /\ kyc.waiting /\ kyc.request \in Requests
             /\ requests[kyc.request] \in [wallet : Wallets, status : {"given"}]]_vars

(* The list of children in one contract and the locks in the other agree.    *)
ChildrenAgree ==
    \A m \in Wallets : /\ children[m] = {c \in Wallets : lockedTo[c] = m}
                       /\ m \notin children[m]
                       /\ ChildCount(m) <= MAX_CHILD_WALLETS

(* A child is locked to a master only after both have signed that link, in   *)
(* whatever order accounts were switched and links cancelled and resent.     *)
LinkedByBoth ==
    \A c, m \in Wallets : lockedTo[c] = m =>
        \E n \in usedNonces : {LinkSignature(m, m, c, n), LinkSignature(c, m, c, n)}
                                 \subseteq linkSigned

=============================================================================
