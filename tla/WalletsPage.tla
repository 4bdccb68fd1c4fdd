------------------------------ MODULE WalletsPage -------------------------------
(***************************************************************************)
(* The child wallet page, reputation/wallets/page.tsx, with the two routes  *)
(* it calls: a nonce is drawn, master and child sign the same message, the  *)
(* signatures are checked by the server and then sent from the master.      *)
(* A handler keeps what it closed over and sets the step when it ends,      *)
(* whatever the page shows by then.                                         *)
(***************************************************************************)
EXTENDS BrowserWallet

VARIABLES link,        \* the component's state
          linkSigned   \* every link message a wallet has signed

walletspage == <<link, linkSigned>>

Unsigned == [by |-> NoOne, master |-> NoOne, child |-> NoOne, nonce |-> 0]
SignaturesOrNone == LinkSignatures \cup {Unsigned}
Offers == [master : Wallets, child : Wallets, nonce : Nonces]

(* What a step carries: the message to sign and the signatures so far.      *)
Steps == [id : {"idle", "checking", "nonce_ready", "master_signed", "child_signed",
                "submitting", "done"},
          offer : {None} \cup Offers,
          masterSig : SignaturesOrNone, childSig : SignaturesOrNone]

Step(id) == [id |-> id, offer |-> None, masterSig |-> Unsigned, childSig |-> Unsigned]

(* A handler that is waiting: for what, the step it was called with, and the *)
(* child and account it closed over.                                        *)
Handlers == [awaits : {"nothing", "check", "masterSign", "childSign", "validate", "send"},
             with : Steps, input : Wallets \cup {NoOne}, account : Wallets \cup {NoOne}]

Resting == [awaits |-> "nothing", with |-> Step("idle"), input |-> NoOne, account |-> NoOne]

LinkStates == [step : Steps, input : Wallets \cup {NoOne}, handler : Handlers]

FreshLink == [step |-> Step("idle"), input |-> NoOne, handler |-> Resting]

OnChild == address = link.input

AtStep(id) == link.step.id = id /\ link.handler = Resting
Awaits(what) == link.handler.awaits = what

Starts(what, step) ==
    /\ link' = [link EXCEPT !.step = step,
                            !.handler = [awaits |-> what, with |-> link.step,
                                         input |-> link.input, account |-> address]]
    /\ UNCHANGED linkSigned

Ends(step) == link' = [link EXCEPT !.step = step, !.handler = Resting]

(* The effect on [address, step.id]: being on the child when its signature   *)
(* is due, or arriving there, asks for it. It needs no button, so it works  *)
(* for a child without KYC, from which KYCGate hides the button.            *)
AskedOnChild(l, account) ==
    IF l.step.id = "master_signed" /\ l.handler = Resting /\ account = l.input
      THEN [l EXCEPT !.handler = [awaits |-> "childSign", with |-> l.step,
                                  input |-> l.input, account |-> account]]
      ELSE l

(* signTypedDataAsync signs with the account the wallet is on.              *)
Signature == LET o == link.handler.with.offer
             IN  [by |-> address, master |-> o.master, child |-> o.child, nonce |-> o.nonce]

---------------------------------------------------------------------------

TypeChild(w) ==
    /\ AtStep("idle")
    /\ w # link.input
    /\ link' = [link EXCEPT !.input = w]
    /\ UNCHANGED linkSigned

(* handlePrepare. The button is off for a child the page knows to be locked; *)
(* the lock it knows may be older than the chain's.                         *)
ClickPrepare ==
    /\ Gated
    /\ AtStep("idle")
    /\ link.input # NoOne /\ ~OnChild
    /\ Starts("check", Step("checking"))

(* POST /child-wallet/check. A lock that cannot be read counts as none, so   *)
(* the route may answer with a nonce for a child that is locked.            *)
CheckAnswers ==
    /\ Awaits("check")
    /\ Fresh(1)
    /\ drawn' = drawn + 1
    /\ Ends([Step("nonce_ready") EXCEPT
                !.offer = [master |-> link.handler.account, child |-> link.handler.input,
                           nonce |-> drawn + 1]])
    /\ UNCHANGED <<attested, sessions, reports, store, jobs, answers, linkSigned>>

(* The child is locked, or the request fails.                               *)
CheckRefuses ==
    /\ Awaits("check")
    /\ Ends(Step("idle"))
    /\ UNCHANGED linkSigned

ClickMasterSign ==
    /\ Gated
    /\ AtStep("nonce_ready")
    /\ Starts("masterSign", link.step)

MasterSigns ==
    /\ Awaits("masterSign")
    /\ link' = AskedOnChild([link EXCEPT !.handler = Resting,
                               !.step = [link.handler.with EXCEPT !.id = "master_signed",
                                                                  !.masterSig = Signature]],
                            address)
    /\ linkSigned' = linkSigned \cup {Signature}

MasterRefuses ==
    /\ Awaits("masterSign")
    /\ Ends(Step("idle"))
    /\ UNCHANGED linkSigned

AccountSwitched(w) ==
    /\ SwitchAccount(w)
    /\ link' = AskedOnChild(link, w)
    /\ UNCHANGED linkSigned

(* The button of handleChildSign.                                           *)
ClickChildSign ==
    /\ Gated
    /\ AtStep("master_signed")
    /\ OnChild
    /\ Starts("childSign", link.step)

ChildSigns ==
    /\ Awaits("childSign")
    /\ Ends([link.handler.with EXCEPT !.id = "child_signed", !.childSig = Signature])
    /\ linkSigned' = linkSigned \cup {Signature}

ChildRefuses ==
    /\ Awaits("childSign")
    /\ Ends(link.step)
    /\ UNCHANGED linkSigned

(* handleSubmit: POST /child-wallet/link with the account of the click as    *)
(* the master, then the transaction from whatever account the wallet is on. *)
ClickLink ==
    /\ Gated
    /\ AtStep("child_signed")
    /\ ~OnChild
    /\ Starts("validate", Step("submitting"))

LinkValid(h) ==
    LET nonce == h.with.offer.nonce
    IN  /\ h.with.masterSig = LinkSignature(h.account, h.account, h.input, nonce)
        /\ h.with.childSig = LinkSignature(h.input, h.account, h.input, nonce)

ValidationPasses ==
    /\ Awaits("validate")
    /\ LinkValid(link.handler)
    /\ link' = [link EXCEPT !.handler.awaits = "send"]
    /\ UNCHANGED linkSigned

(* A signature is wrong, the child is locked by now, or the request fails.   *)
ValidationFails ==
    /\ Awaits("validate")
    /\ Ends(Step("idle"))
    /\ UNCHANGED linkSigned

LinkIsSent ==
    /\ Awaits("send")
    /\ LET h == link.handler
       IN  Send([fn |-> "linkChildWallet", from |-> address, child |-> h.input,
                 nonce |-> h.with.offer.nonce, masterSig |-> h.with.masterSig,
                 childSig |-> h.with.childSig])
    /\ link' = [FreshLink EXCEPT !.step = Step("done")]
    /\ UNCHANGED linkSigned

LinkRefused ==
    /\ Awaits("send")
    /\ Ends(Step("idle"))
    /\ UNCHANGED linkSigned

(* Cancel, in every step of a link and also while a handler waits: the       *)
(* handler still ends, and sets its step then. "Link another wallet" is the  *)
(* same from "done".                                                        *)
ClickReset ==
    /\ link.step.id \notin {"idle", "checking"}
    /\ link' = [link EXCEPT !.step = Step("idle"), !.input = NoOne]
    /\ UNCHANGED linkSigned

=============================================================================
