----------------------------- MODULE MCRendezvous -----------------------------
(* Instances of Rendezvous for TLC: two peers, two currencies.                *)
EXTENDS Rendezvous, TLC

CONSTANTS alice, bob, u1, u2, e1

Spec1(c) == [currency |-> c, denomination |-> 1]
CurrencyOf == u1 :> "USD" @@ u2 :> "USD" @@ e1 :> "EUR"
PursesOf == alice :> {{u1, u2}} @@ bob :> {{e1}}
SpecsOf == {Spec1("USD"), Spec1("EUR")}

===============================================================================
