---------------------------- MODULE MCInvoiceCall ----------------------------
(* InvoiceCall for TLC with the constants of the code; a tick is the retry    *)
(* wait of half a second.                                                     *)
EXTENDS InvoiceCall

Seconds(n) == 2 * n

FifteenSeconds == Seconds(15)  \* invoiceBudget, and http.Server.WriteTimeout
SevenSeconds == Seconds(7)     \* perAttemptTimeout
=============================================================================
