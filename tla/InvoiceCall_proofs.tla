-------------------------- MODULE InvoiceCall_proofs --------------------------
(***************************************************************************)
(* Theorems about InvoiceCall, for every budget, timeout, wait and number   *)
(* of attempts, as long as a first attempt fits the budget.                 *)
(***************************************************************************)
EXTENDS InvoiceCall, TLAPS

\* Between calls, while waiting and while fetching the BOLT11 nothing is under
\* way; and nothing was made of what may be asked again.
Quiet ==
  /\ at # "attempt" => server = "none"
  /\ at = "attempt" => server # "none"
  /\ at \in Busy => result = "none"
  /\ \/ at \in {"idle", "wait"} \/ server \in {"sent", "refused"} \/ result = "unavailable"
     => minted = 0 /\ adrift = 0
  /\ minted + adrift <= 1

\* Where the clock is in what is waited for, and that to the budget.
InTime ==
  /\ at \in Busy => since <= now
  /\ at = "attempt" => now <= since + Attempt /\ since + Attempt <= Budget
  /\ at = "wait" => /\ now <= since + Wait /\ since + Wait + Attempt <= Budget
                    /\ attempts < MaxAttempts
  /\ at = "methods" => now <= since + Attempt /\ since <= Budget
  /\ at = "idle" => now = 0
  /\ at = "done" => now <= Budget + Attempt
  /\ result \in {"unavailable", "error"} => now <= Budget

IInv == TypeOK /\ Quiet /\ InTime

LEMMA IInvProperties ==
  ASSUME IInv
  PROVE  TypeOK /\ OneInvoice /\ RetryableMintedNothing /\ WholeAttempts /\ InBudget
<1>1. OneInvoice /\ RetryableMintedNothing
  BY DEF IInv, TypeOK, Quiet, OneInvoice, RetryableMintedNothing
<1>2. WholeAttempts
  BY DEF IInv, InTime, WholeAttempts
<1>3. InBudget
  BY InvoiceCallConstants DEF IInv, TypeOK, InTime, InBudget, Busy
<1> QED BY <1>1, <1>2, <1>3 DEF IInv

LEMMA TickKeeps == ASSUME IInv, Tick PROVE IInv'
<1>1. Deadline \in Nat /\ now + 1 <= Deadline
  BY InvoiceCallConstants DEF Tick, Deadline, IInv, TypeOK
<1>2. TypeOK' /\ Quiet'
  BY DEF Tick, btcpay, IInv, TypeOK, Quiet, Busy
<1>3. InTime'
  BY <1>1, InvoiceCallConstants DEF Tick, Deadline, btcpay, IInv, TypeOK, Quiet, InTime, Busy
<1> QED BY <1>2, <1>3 DEF IInv

LEMMA BTCPayKeeps == ASSUME IInv, Mint \/ Refuse \/ MintLate PROVE IInv'
<1>1. UNCHANGED <<at, clock, attempts, result, calls>>
  BY DEF Mint, Refuse, MintLate
<1>2. InTime'
  BY <1>1 DEF IInv, InTime, clock
<1>3. TypeOK' /\ Quiet'
  <2>1. CASE Mint
    BY <1>1, <2>1 DEF Mint, IInv, TypeOK, Quiet, clock, Busy
  <2>2. CASE Refuse
    BY <1>1, <2>2 DEF Refuse, IInv, TypeOK, Quiet, clock, Busy
  <2>3. CASE MintLate
    BY <1>1, <2>3 DEF MintLate, IInv, TypeOK, Quiet, clock, Busy
  <2> QED BY <2>1, <2>2, <2>3
<1> QED BY <1>2, <1>3 DEF IInv

LEMMA AskKeeps == ASSUME IInv, Ask PROVE IInv'
<1>1. TypeOK' /\ Quiet'
  BY InvoiceCallConstants DEF Ask, IInv, TypeOK, Quiet, Busy
<1>2. InTime'
  BY InvoiceCallConstants DEF Ask, InTime, Busy
<1> QED BY <1>1, <1>2 DEF IInv

\* A call that ends within its budget, with an answer that fits what is minted.
LEMMA FinishKeeps ==
  ASSUME IInv, NEW answer \in {"invoice", "unavailable", "error"}, Finish(answer),
         UNCHANGED calls, server' = "none",
         adrift' \in Nat, minted' \in Nat, minted' + adrift' <= 1,
         answer = "unavailable" => minted' = 0 /\ adrift' = 0,
         at \in Busy,
         answer # "invoice" => at # "methods"
  PROVE  IInv'
<1>1. at' = "done" /\ result' = answer /\ UNCHANGED <<now, since, attempts>>
  BY DEF Finish, clock
<1>3. TypeOK'
  BY <1>1 DEF IInv, TypeOK
<1>4. Quiet'
  <2>1. at' \notin Busy /\ at' \notin {"idle", "wait"} /\ at' # "attempt"
    BY <1>1 DEF Busy
  <2>2. result' = "unavailable" => minted' = 0 /\ adrift' = 0
    BY <1>1
  <2>3. server' \notin {"sent", "refused"}
    OBVIOUS
  <2> QED BY <2>1, <2>2, <2>3 DEF Quiet
<1>2. InTime'
  BY InvoiceCallConstants DEF Finish, clock, IInv, TypeOK, InTime, Busy
<1> QED BY <1>2, <1>3, <1>4 DEF IInv

LEMMA CreatedKeeps == ASSUME IInv, Created PROVE IInv'
<1>1. ASSUME Finish("invoice")
      PROVE  IInv'
  BY <1>1, FinishKeeps DEF Created, IInv, TypeOK, Quiet, Busy
<1>2. ASSUME at' = "methods", since' = now, UNCHANGED <<now, attempts, result>>
      PROVE  IInv'
  <2>1. TypeOK' /\ Quiet'
    BY <1>2 DEF Created, IInv, TypeOK, Quiet, Busy
  <2>2. InTime'
    BY <1>2, InvoiceCallConstants DEF Created, IInv, TypeOK, Quiet, InTime, Busy
  <2> QED BY <2>1, <2>2 DEF IInv
<1> QED BY <1>1, <1>2 DEF Created

LEMMA UnavailableKeeps == ASSUME IInv, Unavailable PROVE IInv'
<1>1. ASSUME Finish("unavailable")
      PROVE  IInv'
  BY <1>1, FinishKeeps DEF Unavailable, IInv, TypeOK, Quiet, Busy
<1>2. ASSUME attempts < MaxAttempts, Fits, at' = "wait", since' = now,
             UNCHANGED <<now, attempts, result>>
      PROVE  IInv'
  <2>1. TypeOK' /\ Quiet'
    BY <1>2 DEF Unavailable, IInv, TypeOK, Quiet, Busy
  <2>2. InTime'
    BY <1>2, InvoiceCallConstants DEF Unavailable, Fits, IInv, TypeOK, Quiet, InTime, Busy
  <2> QED BY <2>1, <2>2 DEF IInv
<1> QED BY <1>1, <1>2 DEF Unavailable

LEMMA EndsKeep == ASSUME IInv, Rejected \/ Abandon \/ Cancel \/ Methods PROVE IInv'
<1>1. CASE Rejected
  BY <1>1, FinishKeeps DEF Rejected, IInv, TypeOK, Quiet, Busy
<1>2. CASE Abandon
  BY <1>2, FinishKeeps DEF Abandon, IInv, TypeOK, Quiet, Busy
<1>3. CASE Cancel
  BY <1>3, FinishKeeps DEF Cancel, btcpay, IInv, TypeOK, Quiet, Busy
<1>4. CASE Methods
  BY <1>4, FinishKeeps DEF Methods, btcpay, IInv, TypeOK, Quiet, Busy
<1> QED BY <1>1, <1>2, <1>3, <1>4

LEMMA RetryKeeps == ASSUME IInv, Retry PROVE IInv'
<1>1. TypeOK' /\ Quiet'
  BY InvoiceCallConstants DEF Retry, IInv, TypeOK, Quiet, InTime, Busy
<1>2. InTime'
  BY InvoiceCallConstants DEF Retry, IInv, TypeOK, Quiet, InTime, Busy
<1> QED BY <1>1, <1>2 DEF IInv

LEMMA IInvNext == ASSUME IInv, [Next]_vars PROVE IInv'
<1>1. CASE UNCHANGED vars
  BY <1>1 DEF vars, clock, btcpay, IInv, TypeOK, Quiet, InTime, Busy
<1> QED BY <1>1, TickKeeps, BTCPayKeeps, AskKeeps, CreatedKeeps, UnavailableKeeps, EndsKeep,
           RetryKeeps DEF Next

LEMMA IInvInit == Init => IInv
  BY InvoiceCallConstants DEF Init, IInv, TypeOK, Quiet, InTime, Busy

LEMMA Always == Spec => []IInv
<1> QED BY IInvInit, IInvNext, PTL DEF Spec

-----------------------------------------------------------------------------
\* Every reachable state is well typed; in particular no call makes more
\* attempts than the cap (client.go:161-167).
THEOREM InvoiceCallTypeCorrect == Spec => []TypeOK
<1> QED BY Always, IInvProperties, PTL

\* Retries never mint a second invoice, whatever BTCPay does with a request and
\* when, and for any budget and number of attempts (client.go:228-231).
THEOREM NeverASecondInvoice == Spec => []OneInvoice
<1> QED BY Always, IInvProperties, PTL

\* "Please try again" is said only when no invoice exists or can come to exist
\* (client.go:178-182, purchase.go:342-352).
THEOREM TryAgainIsSafe == Spec => []RetryableMintedNothing
<1> QED BY Always, IInvProperties, PTL

\* Every attempt has its whole timeout before the budget ends (client.go:287-292).
THEOREM AttemptsAreWhole == Spec => []WholeAttempts
<1> QED BY Always, IInvProperties, PTL

\* A call without an invoice ends within the budget, any call within the budget
\* and one more request (client.go:249-250, purchase.go:359).
THEOREM CallsAreBounded == Spec => []InBudget
<1> QED BY Always, IInvProperties, PTL
=============================================================================
