------------------------------ MODULE MCReputation ------------------------------
(* Two accounts of a person, one report, and two types it may be claimed as. *)
EXTENDS ReputationSystem, TLC

MCTypes == {"CREDIT_CIBIL_PAISABAZAR", "CREDIT_EXPERIAN_US"}
MCDocuments == {"cibil"}
MCDocumentType == [d \in MCDocuments |-> "CREDIT_CIBIL_PAISABAZAR"]
MCRawScore == [n \in MCTypes \X MCDocuments |-> 780]
MCNewcomer == [score |-> 0, verified |-> FALSE, expiry |-> 0]
MCVerified == [score |-> KYC_SCORE_BONUS, verified |-> TRUE, expiry |-> KYC_TERM]
MCMembers == {MCVerified}
MCAnyone == {MCNewcomer, [MCVerified EXCEPT !.score = 900]}
MCSessions == {1, 2}
MCRequests == {1, 2}
Symmetry == Permutations(Wallets)
=============================================================================
