---------------------------- MODULE OneTimeCode ----------------------------
(* What a login by SMS promises about its codes, without rows, requests,    *)
(* deliveries or clocks: a code opens one door, once, and stands a bounded  *)
(* number of wrong guesses; a code that is void is void for good.           *)
EXTENDS Naturals

CONSTANTS Codes, MaxAttempts

VARIABLES granted,  \* how many tokens a code was exchanged for
          wrong,    \* how many wrong guesses were compared with a code
          void      \* the codes withdrawn without having been used

vars == <<granted, wrong, void>>

Open(c) == c \notin void /\ granted[c] = 0

Init ==
    /\ granted = [c \in Codes |-> 0]
    /\ wrong = [c \in Codes |-> 0]
    /\ void = {}

Accept(c) ==
    /\ Open(c)
    /\ wrong[c] < MaxAttempts
    /\ granted' = [granted EXCEPT ![c] = 1]
    /\ UNCHANGED <<wrong, void>>

Reject(c) ==
    /\ Open(c)
    /\ wrong[c] < MaxAttempts
    /\ wrong' = [wrong EXCEPT ![c] = @ + 1]
    /\ UNCHANGED <<granted, void>>

\* Newer codes, failed deliveries and pruning withdraw codes.
Withdraw ==
    /\ \E C \in SUBSET {c \in Codes : Open(c)} : void' = void \cup C
    /\ UNCHANGED <<granted, wrong>>

Next == Withdraw \/ \E c \in Codes : Accept(c) \/ Reject(c)

Spec == Init /\ [][Next]_vars
=============================================================================
