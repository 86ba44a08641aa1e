------------------------------ MODULE InvoiceCall ------------------------------
(***************************************************************************)
(* Asking BTCPay for an invoice: btcpay.Client.CreateInvoice with its       *)
(* retries, and what a purchase handler does around it until it answers.    *)
(*                                                                          *)
(* One caller asks, and asks again when told "please try again".  BTCPay    *)
(* carries out a request, refuses it because its Lightning node did not     *)
(* reply, or says nothing; what the client gave up on it may still carry    *)
(* out.  Time is counted in ticks from the beginning of a call.             *)
(***************************************************************************)
EXTENDS Integers

CONSTANTS
  Budget,       \* invoiceBudget
  Attempt,      \* perAttemptTimeout
  Wait,         \* transientRetryWait
  MaxAttempts,  \* maxInvoiceAttempts
  WriteTimeout, \* http.Server.WriteTimeout, of the whole request
  MaxCalls      \* bound on how often the caller asks

ASSUME InvoiceCallConstants ==
  /\ Budget \in Nat /\ Attempt \in Nat /\ Wait \in Nat
  /\ Attempt <= Budget
  /\ MaxAttempts \in Nat \ {0}
  /\ WriteTimeout \in Nat
  /\ MaxCalls \in Nat

VARIABLES
  at,       \* where the handler is
  now,      \* ticks since the call began
  since,    \* when what it waits for began
  attempts, \* attempts made in this call
  server,   \* what BTCPay did so far with the attempt under way
  adrift,   \* requests given up on that BTCPay may still carry out
  minted,   \* invoices BTCPay holds
  result,   \* what the caller was told
  calls     \* how often it asked

clock == <<now, since>>
btcpay == <<server, adrift, minted>>
vars == <<at, clock, attempts, btcpay, result, calls>>

Busy == {"attempt", "wait", "methods"}

Init ==
  /\ at = "idle" /\ now = 0 /\ since = 0 /\ attempts = 0
  /\ server = "none" /\ adrift = 0 /\ minted = 0
  /\ result = "none" /\ calls = 0

Finish(answer) == at' = "done" /\ result' = answer /\ UNCHANGED <<clock, attempts>>

-----------------------------------------------------------------------------
(* The clock.                                                               *)

\* Mutant: the backstop of the HTTP client, thirty seconds, is the only bound.
DeadlineOfClient == IF at = "wait" THEN since + Wait ELSE since + 4 * Attempt

\* When the context of the call under way ends: an attempt's is a child of the
\* budget's, the other calls have their own.
Deadline ==
  IF at = "wait" THEN since + Wait
  ELSE IF at = "attempt" /\ Budget < since + Attempt THEN Budget
  ELSE since + Attempt

Tick ==
  /\ at \in Busy
  /\ now < Deadline
  /\ now' = now + 1
  /\ UNCHANGED <<at, since, attempts, btcpay, result, calls>>

-----------------------------------------------------------------------------
(* BTCPay.                                                                  *)

Mint ==
  /\ server = "sent"
  /\ server' = "minted" /\ minted' = minted + 1
  /\ UNCHANGED <<at, clock, attempts, adrift, result, calls>>

\* The Lightning node did not reply; nothing is created.
Refuse ==
  /\ server = "sent"
  /\ server' = "refused"
  /\ UNCHANGED <<at, clock, attempts, adrift, minted, result, calls>>

MintLate ==
  /\ adrift > 0
  /\ adrift' = adrift - 1 /\ minted' = minted + 1
  /\ UNCHANGED <<at, clock, attempts, server, result, calls>>

-----------------------------------------------------------------------------
(* The handler.                                                             *)

\* A purchase that needs an invoice, by a caller who has not asked or was told
\* that trying again works.
Ask ==
  /\ at = "idle" \/ (at = "done" /\ result = "unavailable")
  /\ calls < MaxCalls /\ calls' = calls + 1
  /\ at' = "attempt" /\ now' = 0 /\ since' = 0 /\ attempts' = 1
  /\ server' = "sent" /\ result' = "none"
  /\ UNCHANGED <<adrift, minted>>

\* 200 or 201.  An address purchase goes on to fetch the BOLT11, a product's
\* answers.
Created ==
  /\ at = "attempt" /\ server = "minted"
  /\ server' = "none"
  /\ \/ /\ at' = "methods" /\ since' = now
        /\ UNCHANGED <<now, attempts, result>>
     \/ Finish("invoice")
  /\ UNCHANGED <<adrift, minted, calls>>

\* Mutant: the wait is left out of what has to fit.
FitsWithoutWait == now + Attempt <= Budget

\* A whole attempt fits behind the wait.
Fits == now + Wait + Attempt <= Budget

\* Mutant: only the clock bounds the attempts.
UnavailableUncapped ==
  /\ at = "attempt" /\ server = "refused"
  /\ server' = "none"
  /\ \/ /\ Fits
        /\ at' = "wait" /\ since' = now
        /\ UNCHANGED <<now, attempts, result>>
     \/ /\ ~Fits
        /\ Finish("unavailable")
  /\ UNCHANGED <<adrift, minted, calls>>

\* isTransientLNFailure.
Unavailable ==
  /\ at = "attempt" /\ server = "refused"
  /\ server' = "none"
  /\ \/ /\ attempts < MaxAttempts
        /\ Fits
        /\ at' = "wait" /\ since' = now
        /\ UNCHANGED <<now, attempts, result>>
     \/ /\ attempts >= MaxAttempts \/ ~Fits
        /\ Finish("unavailable")
  /\ UNCHANGED <<adrift, minted, calls>>

\* Mutant: every refusal is taken for the Lightning node's.
RejectedRetryable ==
  /\ at = "attempt" /\ server \in {"sent", "minted"}
  /\ server' = "none"
  /\ Finish("unavailable")
  /\ UNCHANGED <<adrift, minted, calls>>

\* Another status, or a body that is no invoice, from a BTCPay that created one
\* or did not.
Rejected ==
  /\ at = "attempt" /\ server \in {"sent", "minted"}
  /\ server' = "none"
  /\ Finish("error")
  /\ UNCHANGED <<adrift, minted, calls>>

\* Mutant: a request given up on is tried again.
AbandonRetried ==
  /\ at = "attempt"
  /\ server' = "none"
  /\ adrift' = IF server = "sent" THEN adrift + 1 ELSE adrift
  /\ \/ /\ attempts < MaxAttempts
        /\ Fits
        /\ at' = "wait" /\ since' = now
        /\ UNCHANGED <<now, attempts, result>>
     \/ /\ attempts >= MaxAttempts \/ ~Fits
        /\ Finish("error")
  /\ UNCHANGED <<minted, calls>>

\* The attempt times out, the transport fails or the caller hangs up, whatever
\* BTCPay made or will make of the request.
Abandon ==
  /\ at = "attempt"
  /\ server' = "none"
  /\ adrift' = IF server = "sent" THEN adrift + 1 ELSE adrift
  /\ Finish("error")
  /\ UNCHANGED <<minted, calls>>

Retry ==
  /\ at = "wait"
  /\ now = since + Wait
  /\ at' = "attempt" /\ since' = now /\ attempts' = attempts + 1
  /\ server' = "sent"
  /\ UNCHANGED <<now, adrift, minted, result, calls>>

\* The caller hangs up during the wait.
Cancel ==
  /\ at = "wait"
  /\ Finish("unavailable")
  /\ UNCHANGED <<btcpay, calls>>

\* GetInvoicePaymentMethods answers or fails; the invoice is the answer with
\* or without a BOLT11.
Methods ==
  /\ at = "methods"
  /\ Finish("invoice")
  /\ UNCHANGED <<btcpay, calls>>

\* Mutant: no deadline is set.
ExpireNever == FALSE /\ UNCHANGED vars

\* A context ends.
Expire == now = Deadline /\ (Abandon \/ Methods)

Next ==
  \/ Tick \/ Mint \/ Refuse \/ MintLate
  \/ Ask \/ Created \/ Unavailable \/ Rejected \/ Abandon \/ Retry \/ Cancel \/ Methods

Spec == Init /\ [][Next]_vars

\* Time passes, timers fire and the handler goes on; BTCPay and the caller need
\* do nothing.
FairSpec == Spec /\ WF_vars(Tick) /\ WF_vars(Expire) /\ WF_vars(Retry)
-----------------------------------------------------------------------------
(* Properties.                                                              *)

TypeOK ==
  /\ at \in {"idle", "done"} \cup Busy
  /\ now \in Nat /\ since \in Nat
  /\ attempts \in 0..MaxAttempts
  /\ server \in {"none", "sent", "minted", "refused"}
  /\ adrift \in Nat /\ minted \in Nat
  /\ result \in {"none", "invoice", "unavailable", "error"}
  /\ calls \in 0..MaxCalls

\* However often the client retries, and the caller asks again when told to,
\* at most one invoice exists (client.go:228-231: "retrying would mint a second
\* one nobody asked for").
OneInvoice == minted <= 1

\* Told to try again, a caller leaves no invoice behind, now or later
\* (client.go:178-182: "The failed attempt creates NOTHING").
RetryableMintedNothing == result = "unavailable" => minted = 0 /\ adrift = 0

\* No attempt begins that the budget would cut short (client.go:287-288:
\* "Beginning one we cannot finish burns the remaining budget and still fails").
WholeAttempts == at = "attempt" => since + Attempt <= Budget

\* A call that ends without an invoice ends within the budget, and one with an
\* invoice a payment-methods call later (client.go:149-151).
InBudget ==
  /\ at \in {"attempt", "wait"} \/ result \in {"unavailable", "error"} => now <= Budget
  /\ now <= Budget + Attempt

\* A call returns whatever BTCPay does (client.go:249-250).
CallReturns == at \in Busy ~> at = "done"

-----------------------------------------------------------------------------
(* What the code's comments claim and the code does not do.                 *)

\* client.go:149-151: "So the whole sequence is bounded well inside the edge
\* budget, and we answer in our own words when it does not fit."  An answer is
\* written while the server still lets it be.
AnswersInTime == at = "done" => now <= WriteTimeout
=============================================================================
