----------------------------- MODULE MCBilling -----------------------------
(* Small instances of Billing for TLC. *)
EXTENDS Billing, TLC

CONSTANTS month, year

MCPeriodLen == [f \in Offers |-> IF f = year THEN 2 ELSE 1]

Symmetric == Permutations(Invoices) \cup Permutations(Payments) \cup Permutations(Calls)
             \cup Permutations(Keys)

\* A bound: of two keys, an offer of a year and a clock that reaches 2, a
\* state has one at most.
Buying == {order[o] : o \in {x \in Orders : Exists(x)}}
          \cup {call[c] : c \in {x \in Calls : call[x].pc \in {"reserve", "insert"}}}
TwoKeys == \E b, d \in Buying : b.key # d.key
BuysYear == \E b \in Buying : b.offer = year
Few == ~(TwoKeys /\ BuysYear) /\ (now = 2 => ~TwoKeys /\ ~BuysYear)

\* Which of the two rows the first order takes makes no difference.
FirstOrder == CHOOSE o \in Orders : TRUE
Small == Few /\ ((\E o \in Orders : Exists(o)) => Exists(FirstOrder))
=============================================================================
