---------------------------- MODULE MCComponents ----------------------------
(* Components that share no variable, checked in one run: part says which   *)
(* of them takes the steps, so that the run explores the states of each and *)
(* not their product.  Live updates are explored twice, without devices and *)
(* without streams; logins as well, with one phone and all of their steps,  *)
(* and with two phones behind one client but only as far as the limits go.  *)
EXTENDS SmsLogin, Sessions, Realtime, ObjectTransfer, Calendar, TLC

VARIABLE part

\* Requests for codes meet the limit of the phone first, guesses the client's.
MCPhoneLimit == [a \in Actions |-> IF a = "sms_request" THEN 2 ELSE 3]
MCRemoteLimit == [a \in Actions |-> IF a = "sms_request" THEN 3 ELSE 2]
MCWindow == [a \in Actions |-> IF a = "sms_request" THEN 2 ELSE 1]

OnePhone == CHOOSE p \in Phones : TRUE

\* Sets that no part uses together have the same model values: requests, handlers
\* and people; streams, devices and files.  So one permutation serves them all.
Symmetric == Permutations(Requests) \cup Permutations(Streams)

MCInit ==
    /\ part \in {"login", "limits", "sessions", "streams", "push", "transfer", "calendar"}
    /\ LoginInit /\ SessionsInit /\ RealtimeInit /\ TransferInit /\ CalendarInit
    /\ part \notin {"streams", "push"} => members = [p \in Projects |-> {}]
    /\ part # "transfer" => activeFiles = {} /\ size = [k \in Keys |-> 0]
    /\ part # "calendar" => begun = [year |-> 2027, month |-> 1, day |-> 1]

MCNext ==
    \/ part = "login" /\ LoginNext
       /\ \A r \in Requests : request'[r].phone \in {NoPhone, OnePhone}
       /\ UNCHANGED <<part, sessionVars, realtimeVars, transferVars, calendarVars>>
    \/ part = "limits" /\ LoginNext
       /\ \A r \in Requests : request'[r].step \in {"idle", "counted", "reserved"}
       /\ UNCHANGED <<part, sessionVars, realtimeVars, transferVars, calendarVars>>
    \/ part = "sessions" /\ SessionsNext
       /\ UNCHANGED <<part, loginVars, realtimeVars, transferVars, calendarVars>>
    \/ part = "streams" /\ device' = device /\ RealtimeNext
       /\ UNCHANGED <<part, loginVars, sessionVars, transferVars, calendarVars>>
    \/ part = "push" /\ stream' = stream /\ RealtimeNext
       /\ UNCHANGED <<part, loginVars, sessionVars, transferVars, calendarVars>>
    \/ part = "transfer" /\ TransferNext
       /\ UNCHANGED <<part, loginVars, sessionVars, realtimeVars, calendarVars>>
    \/ part = "calendar" /\ CalendarNext
       /\ UNCHANGED <<part, loginVars, sessionVars, realtimeVars, transferVars>>

MCSpec == MCInit /\ [][MCNext]_<<part, loginVars, sessionVars, realtimeVars,
                                 transferVars, calendarVars>>
=============================================================================
