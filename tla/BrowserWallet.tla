----------------------------- MODULE BrowserWallet ------------------------------
(***************************************************************************)
(* The wallet in the browser: the account it is switched to, and what it    *)
(* has sent. writeContractAsync answers when the user has signed and the    *)
(* transaction is out; the pages never wait for a receipt, so a transaction *)
(* that reverts when it is mined tells them nothing. An account's           *)
(* transactions are mined in the order of its nonces.                       *)
(***************************************************************************)
EXTENDS ScoreOracle

CONSTANT MaxPending

VARIABLES address,   \* useAccount
          mempool    \* sent by each account, not mined yet

wallet == <<address, mempool>>

Transactions == Messages \cup LinkCall

WalletStarted ==
    /\ address \in Wallets
    /\ mempool = [w \in Wallets |-> <<>>]

(* NetworkGuard hides every page from an account that is locked as a child;  *)
(* KYCGate hides the two inner pages from one without a valid KYC.          *)
LockStatus == IsLocked(address)
Shown == ~LockStatus
Gated == Shown /\ IsKYCVerified(address)

(* useCreditScore.                                                          *)
ShownScore == profile[address].score

(* The user confirms the prompt.                                            *)
Send(t) ==
    /\ Len(mempool[address]) < MaxPending
    /\ mempool' = [mempool EXCEPT ![address] = Append(@, t)]
    /\ UNCHANGED address

(* A page passes the address it sees, whoever the message was signed for.   *)
CallFor(w, m) == [m EXCEPT !.master = w]

SwitchAccount(w) ==
    /\ w # address
    /\ address' = w
    /\ UNCHANGED mempool

Mine(w) ==
    /\ mempool[w] # <<>>
    /\ Execute(Head(mempool[w]))
    /\ mempool' = [mempool EXCEPT ![w] = Tail(@)]
    /\ UNCHANGED address

=============================================================================
