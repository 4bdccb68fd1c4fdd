-------------------------------- MODULE Web2Page --------------------------------
(***************************************************************************)
(* The credit score page, reputation/web2/page.tsx: a proof session is      *)
(* started, polled, and its result submitted as one or two transactions.    *)
(* Each handler is split at its awaits; what it closed over at its start is *)
(* kept with it (submitting, closure), because the page's state moves on.   *)
(***************************************************************************)
EXTENDS BrowserWallet

VARIABLES web2,        \* the component's state
          doneProofs,  \* its list of finished proof types
          persisted    \* localStorage, per account

web2page == <<web2, doneProofs, persisted>>

Phases == {"idle", "committing", "scoring", "done"}
NoClosure == [address |-> NoOne, type |-> None, result |-> None]

Web2States ==
    [submitting : {None} \cup [type : Types, wallet : Wallets],
     pending : {None} \cup [session : Sessions, type : Types],
     result : {None} \cup Results,
     phase : Phases,
     closure : [address : Wallets \cup {NoOne}, type : Types \cup {None},
                result : {None} \cup Results]]

FreshWeb2 == [submitting |-> None, pending |-> None, result |-> None,
              phase |-> "idle", closure |-> NoClosure]

(* The mount effect and the one on [address]: an account without an entry    *)
(* in localStorage leaves the list as it was.                               *)
LoadedFor(w, before) == IF persisted[w] = {} THEN before ELSE persisted[w]

IsSubmitting == web2.phase \in {"committing", "scoring"}

EffectiveDone(seen) == doneProofs \cup seen

CreditBureauDone(done) ==
    done \cap CREDIT_PROOF_TYPES # {} \/ ShownScore > KYC_BASE

(* handleSubmitOnChain marks the type of the session it closed over.        *)
Finished(type) == {type} \ {None}

(* useOnChainProofs.                                                        *)
Seen == ProofStatus(address)

---------------------------------------------------------------------------

AsksFor(type) ==
    /\ web2.submitting = None
    /\ web2' = [web2 EXCEPT !.submitting = [type |-> type, wallet |-> address]]
    /\ UNCHANGED <<doneProofs, persisted>>

(* The Verify button of a provider card.                                    *)
ClickVerify(type) ==
    /\ Gated
    /\ \E seen \in Seen :
          type \notin EffectiveDone(seen) /\ ~CreditBureauDone(EffectiveDone(seen))
    /\ AsksFor(type)

(* "Re-sync credit score", offered for a provider known to be done.          *)
ClickResync(type) ==
    /\ Gated
    /\ \E seen \in Seen : type \in EffectiveDone(seen)
    /\ web2.pending = None /\ ~IsSubmitting
    /\ AsksFor(type)

(* handleProof after its fetch: a session, or an error.                     *)
SessionOpens(s) ==
    /\ web2.submitting # None
    /\ CreateSession(s, web2.submitting.wallet, web2.submitting.type)
    /\ web2' = [web2 EXCEPT !.submitting = None,
                            !.pending = [session |-> s, type |-> web2.submitting.type]]
    /\ UNCHANGED <<doneProofs, persisted>>

SessionFails ==
    /\ web2.submitting # None
    /\ web2' = [web2 EXCEPT !.submitting = None]
    /\ UNCHANGED <<doneProofs, persisted>>

(* The interval polls the session it closed over while there is no result.  *)
Polling(s) == web2.pending # None /\ web2.pending.session = s /\ web2.result = None

(* A reply is used whatever the page is waiting for by now: clearing the     *)
(* interval does not take back a request that is out.                       *)
AnswerArrives(a) ==
    /\ a \in answers
    /\ answers' = answers \ {a}
    /\ web2' = IF a.verdict = Failed THEN [web2 EXCEPT !.pending = None]
               ELSE [web2 EXCEPT !.result = a.verdict]
    /\ UNCHANGED <<doneProofs, persisted>>

ClickCancel ==
    /\ Gated
    /\ web2.pending # None /\ web2.result = None
    /\ web2' = [web2 EXCEPT !.pending = None]
    /\ UNCHANGED <<doneProofs, persisted>>

(* Another region, confirmed: the session goes, a result stays.             *)
SwitchRegion ==
    /\ Gated
    /\ \E seen \in Seen : ~CreditBureauDone(EffectiveDone(seen))
    /\ web2.pending # None
    /\ web2' = [web2 EXCEPT !.pending = None]
    /\ UNCHANGED <<doneProofs, persisted>>

ClickDismiss ==
    /\ Gated
    /\ web2.result # None
    /\ web2.phase = "idle"
    /\ web2' = [web2 EXCEPT !.result = None, !.pending = None]
    /\ UNCHANGED <<doneProofs, persisted>>

(* handleSubmitOnChain up to its first prompt.                              *)
ClickSubmit ==
    /\ Gated
    /\ web2.result # None /\ ~IsSubmitting
    /\ web2' = [web2 EXCEPT
                  !.phase = IF web2.result.commit = None THEN "scoring" ELSE "committing",
                  !.closure = [address |-> address, result |-> web2.result,
                               type |-> IF web2.pending = None THEN None
                                        ELSE web2.pending.type]]
    /\ UNCHANGED <<doneProofs, persisted>>

CommitIsSent ==
    /\ web2.phase = "committing"
    /\ Send(CallFor(web2.closure.address, web2.closure.result.commit))
    /\ web2' = [web2 EXCEPT !.phase = "scoring"]
    /\ UNCHANGED <<doneProofs, persisted>>

ScoreIsSent ==
    /\ web2.phase = "scoring"
    /\ Send(CallFor(web2.closure.address, web2.closure.result.score))
    /\ web2' = [web2 EXCEPT !.phase = "done", !.result = None, !.pending = None,
                            !.closure = NoClosure]
    /\ doneProofs' = doneProofs \cup Finished(web2.closure.type)
    /\ persisted' = IF web2.closure.type = None THEN persisted
                    ELSE [persisted EXCEPT ![web2.closure.address] = doneProofs']

(* The user refuses a prompt, or the wallet sees that the call would revert. *)
PromptRefused ==
    /\ IsSubmitting
    /\ web2' = [web2 EXCEPT !.phase = "idle", !.closure = NoClosure]
    /\ UNCHANGED <<wallet, doneProofs, persisted>>

=============================================================================
