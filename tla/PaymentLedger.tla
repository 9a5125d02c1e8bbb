--------------------------- MODULE PaymentLedger ---------------------------
(***************************************************************************)
(* What the billing subsystem promises about money, without invoices,      *)
(* callbacks, polls or locks: an order is settled at most once, settling   *)
(* it buys its full length on top of whatever the account still has, and   *)
(* nothing else ever moves the end of a paid period.                       *)
(***************************************************************************)
EXTENDS Naturals

CONSTANTS Users, Orders, Offers, PeriodLen, NoOffer

VARIABLES clock, settled, live, plan, paidUntil

vars == <<clock, settled, live, plan, paidUntil>>

Init ==
  /\ clock = 0
  /\ settled = {}
  /\ live = [u \in Users |-> FALSE]
  /\ plan = [u \in Users |-> NoOffer]
  /\ paidUntil = [u \in Users |-> 0]

\* An account that still runs is extended; any other one starts now.
From(u) == IF live[u] /\ clock < paidUntil[u] THEN paidUntil[u] ELSE clock

Settle(u, o, f) ==
  /\ o \notin settled
  /\ settled' = settled \cup {o}
  /\ live' = [live EXCEPT ![u] = TRUE]
  /\ plan' = [plan EXCEPT ![u] = f]
  /\ paidUntil' = [paidUntil EXCEPT ![u] = From(u) + PeriodLen[f]]
  /\ UNCHANGED clock

Lapse(u) ==
  /\ live[u]
  /\ live' = [live EXCEPT ![u] = FALSE]
  /\ UNCHANGED <<clock, settled, plan, paidUntil>>

Pass ==
  /\ clock' = clock + 1
  /\ UNCHANGED <<settled, live, plan, paidUntil>>

Next ==
  \/ \E u \in Users, o \in Orders, f \in Offers : Settle(u, o, f)
  \/ \E u \in Users : Lapse(u)
  \/ Pass

Spec == Init /\ [][Next]_vars
=============================================================================
