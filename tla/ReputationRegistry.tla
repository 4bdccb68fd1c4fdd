--------------------------- MODULE ReputationRegistry ---------------------------
(***************************************************************************)
(* ReputationRegistry.sol and NullifierRegistry.sol: a profile (score, KYC  *)
(* with an expiry) and linked child wallets per master wallet, the proofs   *)
(* committed so far, and the lock of each child in the second contract,     *)
(* which only the first one writes.                                         *)
(*                                                                          *)
(* Whoever sends a call, it acts on a message: an attestation the oracle    *)
(* signed, or the two signatures of a link. A transaction is a record of    *)
(* its function, its sender and what it carries; Accepted says when it does *)
(* not revert and Effect what it then writes. A signature is the record of  *)
(* who signed which message, so recovering a signer is reading a field.     *)
(***************************************************************************)
EXTENDS Integers, FiniteSets

CONSTANTS Wallets, Types, Documents, Sessions, MaxNonce,
          MAX_CREDIT_SCORE, MAX_CHILD_WALLETS, NoOne

ASSUME RegistryAssumption ==
    /\ MAX_CREDIT_SCORE \in Nat
    /\ MAX_CHILD_WALLETS \in Nat
    /\ MaxNonce \in Nat
    /\ Sessions \subseteq Nat
    /\ NoOne \notin Wallets

VARIABLES now,             \* days, in units of the KYC term
          profile,         \* _profiles: score, kycVerified, kycExpiry
          usedNonces, usedProofs, usedCategories, usedDocuments,
          events,          \* the ZKProofCommitted log
          children,        \* _childWallets
          lockedTo,        \* NullifierRegistry._lockedTo
          attested         \* every message the oracle has signed

registry == <<profile, usedNonces, usedProofs, usedCategories, usedDocuments,
              events, children, lockedTo>>

Nonces == 1 .. MaxNonce
Scores == 0 .. MAX_CREDIT_SCORE

(* A document nullifier: a hash of the proof type claimed and of what the     *)
(* document shows, so a document has one for each type it is claimed as.     *)
Nullifiers == Types \X Documents

Profiles == [score : Scores, verified : BOOLEAN, expiry : Nat]

KycMessage == [fn : {"verifyKYC"}, master : Wallets, expiry : Nat, nonce : Nonces]
ScoreMessage == [fn : {"updateCreditScore"}, master : Wallets, score : Scores,
                 nonce : Nonces]
ProofMessage == [fn : {"commitZKProof"}, master : Wallets, proof : Sessions,
                 type : Types, document : Nullifiers, nonce : Nonces]
Messages == KycMessage \cup ScoreMessage \cup ProofMessage

LinkSignatures == [by : Wallets, master : Wallets, child : Wallets, nonce : Nonces]
LinkCall == [fn : {"linkChildWallet"}, from : Wallets, child : Wallets,
             nonce : Nonces, masterSig : LinkSignatures, childSig : LinkSignatures]

LinkSignature(by, master, child, nonce) ==
    [by |-> by, master |-> master, child |-> child, nonce |-> nonce]

Committed(m) == [master |-> m.master, proof |-> m.proof, type |-> m.type,
                 document |-> m.document]
Commits == [master : Wallets, proof : Sessions, type : Types, document : Nullifiers]

IsKYCVerified(w) == profile[w].verified /\ now < profile[w].expiry
IsLocked(w) == lockedTo[w] # NoOne
ChildCount(w) == Cardinality(children[w])

Deployed ==
    /\ now = 0
    /\ usedNonces = {} /\ usedProofs = {} /\ usedCategories = {}
    /\ usedDocuments = {} /\ events = {}
    /\ children = [w \in Wallets |-> {}]
    /\ lockedTo = [w \in Wallets |-> NoOne]

---------------------------------------------------------------------------

Attested(m) == m \in attested

VerifyKYCAccepted(m) == m.nonce \notin usedNonces /\ now < m.expiry /\ Attested(m)

VerifyKYC(m) ==
    /\ VerifyKYCAccepted(m)
    /\ usedNonces' = usedNonces \cup {m.nonce}
    /\ profile' = [profile EXCEPT ![m.master].verified = TRUE,
                                  ![m.master].expiry = m.expiry]
    /\ UNCHANGED <<usedProofs, usedCategories, usedDocuments, events, children, lockedTo>>

RevokeKYC(w) ==
    /\ profile' = [profile EXCEPT ![w].verified = FALSE]
    /\ UNCHANGED <<usedNonces, usedProofs, usedCategories, usedDocuments, events,
                   children, lockedTo>>

UpdateCreditScoreAccepted(m) ==
    m.score <= MAX_CREDIT_SCORE /\ m.nonce \notin usedNonces /\ Attested(m)

\* mutant: the nonce stays good
UpdateKeepsNonce(m) ==
    /\ UpdateCreditScoreAccepted(m)
    /\ profile' = [profile EXCEPT ![m.master].score = m.score]
    /\ UNCHANGED <<usedNonces, usedProofs, usedCategories, usedDocuments, events, children,
                   lockedTo>>

UpdateCreditScore(m) ==
    /\ UpdateCreditScoreAccepted(m)
    /\ usedNonces' = usedNonces \cup {m.nonce}
    /\ profile' = [profile EXCEPT ![m.master].score = m.score]
    /\ UNCHANGED <<usedProofs, usedCategories, usedDocuments, events, children, lockedTo>>

CommitZKProofAccepted(m) ==
    /\ m.proof \notin usedProofs
    /\ <<m.type, m.master>> \notin usedCategories
    /\ m.document \notin usedDocuments
    /\ m.nonce \notin usedNonces
    /\ Attested(m)

CommitZKProof(m) ==
    /\ CommitZKProofAccepted(m)
    /\ usedNonces' = usedNonces \cup {m.nonce}
    /\ usedProofs' = usedProofs \cup {m.proof}
    /\ usedCategories' = usedCategories \cup {<<m.type, m.master>>}
    /\ usedDocuments' = usedDocuments \cup {m.document}
    /\ events' = events \cup {Committed(m)}
    /\ UNCHANGED <<profile, children, lockedTo>>

(* registerNullifier: the second contract checks the lock again.            *)
Lockable(child, master) == child # master /\ ~IsLocked(child)

\* mutant: the master's word is enough
LinkUncountersigned(t) ==
    /\ t.child # t.from
    /\ t.nonce \notin usedNonces
    /\ Lockable(t.child, t.from)
    /\ ChildCount(t.from) < MAX_CHILD_WALLETS
    /\ t.masterSig = LinkSignature(t.from, t.from, t.child, t.nonce)

LinkChildWalletAccepted(t) ==
    /\ t.child # t.from
    /\ t.nonce \notin usedNonces
    /\ Lockable(t.child, t.from)
    /\ ChildCount(t.from) < MAX_CHILD_WALLETS
    /\ t.masterSig = LinkSignature(t.from, t.from, t.child, t.nonce)
    /\ t.childSig = LinkSignature(t.child, t.from, t.child, t.nonce)

\* mutant: the child is listed and registerNullifier is not called
LinkWithoutLock(t) ==
    /\ LinkChildWalletAccepted(t)
    /\ usedNonces' = usedNonces \cup {t.nonce}
    /\ children' = [children EXCEPT ![t.from] = @ \cup {t.child}]
    /\ UNCHANGED <<profile, usedProofs, usedCategories, usedDocuments, events, lockedTo>>

LinkChildWallet(t) ==
    /\ LinkChildWalletAccepted(t)
    /\ usedNonces' = usedNonces \cup {t.nonce}
    /\ lockedTo' = [lockedTo EXCEPT ![t.child] = t.from]
    /\ children' = [children EXCEPT ![t.from] = @ \cup {t.child}]
    /\ UNCHANGED <<profile, usedProofs, usedCategories, usedDocuments, events>>

(* What a mined transaction does: its effect, or nothing when it reverts.   *)
Accepted(t) ==
    CASE t.fn = "verifyKYC" -> VerifyKYCAccepted(t)
      [] t.fn = "updateCreditScore" -> UpdateCreditScoreAccepted(t)
      [] t.fn = "commitZKProof" -> CommitZKProofAccepted(t)
      [] t.fn = "linkChildWallet" -> LinkChildWalletAccepted(t)

Execute(t) ==
    \/ t.fn = "verifyKYC" /\ VerifyKYC(t)
    \/ t.fn = "updateCreditScore" /\ UpdateCreditScore(t)
    \/ t.fn = "commitZKProof" /\ CommitZKProof(t)
    \/ t.fn = "linkChildWallet" /\ LinkChildWallet(t)
    \/ ~Accepted(t) /\ UNCHANGED registry

=============================================================================
