---------------------------- MODULE Obligations ----------------------------
(***************************************************************************)
(* What the settlement components pass to each other: the net obligation   *)
(* of netting.rs ("deliverer owes quantity units of symbol to receiver,    *)
(* against payment"), and what a collection of obligations means for one   *)
(* account.  trade_count is carried along by the code and never read, so   *)
(* the record leaves it out.                                               *)
(***************************************************************************)
EXTENDS Integers, FiniteSetsExt

NetObligation(symbol, deliverer, receiver, quantity, payment) ==
    [symbol |-> symbol, deliverer |-> deliverer, receiver |-> receiver,
     net_quantity |-> quantity, net_payment |-> payment]

ObligationType(Symbols, Accounts, Quantities, Payments) ==
    [symbol: Symbols, deliverer: Accounts, receiver: Accounts,
     net_quantity: Quantities, net_payment: Payments]

(***************************************************************************)
(* The sum of Amount(ob) over the obligations ob of a sequence (or of any  *)
(* function whose values are obligations).                                 *)
(***************************************************************************)
Total(Amount(_), obs) ==
    SumFunction([i \in DOMAIN obs |-> Amount(obs[i])])

(***************************************************************************)
(* What an account gains when every obligation of obs is performed:        *)
(* units of a symbol (received minus delivered), and cash as the netting   *)
(* engine means it (the receiver pays, the deliverer is paid).             *)
(***************************************************************************)
Into(ob, a, amount)  == IF ob.receiver = a THEN amount ELSE 0
OutOf(ob, a, amount) == IF ob.deliverer = a THEN amount ELSE 0

NetUnits(obs, symbol, a) ==
    Total(LAMBDA ob : IF ob.symbol = symbol
                      THEN Into(ob, a, ob.net_quantity) - OutOf(ob, a, ob.net_quantity)
                      ELSE 0, obs)

NetCash(obs, symbol, a) ==
    Total(LAMBDA ob : IF ob.symbol = symbol
                      THEN OutOf(ob, a, ob.net_payment) - Into(ob, a, ob.net_payment)
                      ELSE 0, obs)
=============================================================================
