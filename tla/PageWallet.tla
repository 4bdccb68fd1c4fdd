----------------------------- MODULE PageWallet -----------------------------
(***************************************************************************)
(* What the money pages share: a visitor who moves between them, the       *)
(* handlers their buttons start, and the wallet those ask.                 *)
(* writeContractAsync answers with a hash as soon as the user has signed;  *)
(* no page waits for the transaction to be mined.  isPending belongs to    *)
(* the page that is mounted: who leaves it and comes back finds its        *)
(* buttons enabled while the handler he started is still at work.          *)
(***************************************************************************)
EXTENDS Integers, Sequences

CONSTANTS
  Moves,                  \* pairs of pages: from which to which the visitor goes
  MaxClicks, MaxVisits    \* bounds of the model

VARIABLES
  visit,       \* the page that is mounted, and how many have been
  handlers,    \* what the buttons started: the calls each has still to send
  queue        \* signed and not mined yet, in nonce order

walletVars == <<visit, handlers, queue>>

PageNames == {"lending", "stake", "dashboard"}

Shows(page) == visit.page = page

IsPending ==
  \E n \in DOMAIN handlers : handlers[n].calls # <<>> /\ handlers[n].visit = visit.count

\* a button of the page is pressed: its handler has these calls to make
Click(page, calls) ==
  /\ Shows(page) /\ ~IsPending
  /\ Len(handlers) < MaxClicks
  /\ handlers' = Append(handlers, [visit |-> visit.count, calls |-> calls])
  /\ UNCHANGED <<visit, queue>>

\* the user signs the next call of a handler
Sign(n) ==
  /\ handlers[n].calls # <<>>
  /\ queue' = Append(queue, Head(handlers[n].calls))
  /\ handlers' = [handlers EXCEPT ![n].calls = Tail(@)]
  /\ UNCHANGED visit

\* after its last call a handler empties its form and refetches, if its page is
\* still the one it was started on
Concludes(n, page) ==
  Len(handlers[n].calls) = 1 /\ handlers[n].visit = visit.count /\ Shows(page)

\* the user declines, or the wallet finds that the call would revert: the catch
\* branch leaves the form as it is and sends nothing more
Decline(n) ==
  /\ handlers[n].calls # <<>>
  /\ handlers' = [handlers EXCEPT ![n].calls = <<>>]
  /\ UNCHANGED <<visit, queue>>

Mount(page) ==
  /\ visit.count < MaxVisits /\ <<visit.page, page>> \in Moves
  /\ visit' = [page |-> page, count |-> visit.count + 1]
  /\ UNCHANGED <<handlers, queue>>

WalletInit ==
  /\ visit \in [page : PageNames, count : {1}]
  /\ handlers = <<>> /\ queue = <<>>
=============================================================================
