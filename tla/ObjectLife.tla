----------------------------- MODULE ObjectLife -----------------------------
(***************************************************************************)
(* What the file storage promises about an uploaded object, without rows,  *)
(* outbox, journal, workers or requests: an object is stored once, served  *)
(* only after its upload succeeded, leaves the bucket only while nobody is *)
(* served with it, and is never served again once it was retired.          *)
(***************************************************************************)
CONSTANT Files

VARIABLES stored,   \* in the bucket, of an upload not yet answered, or failed
          served,   \* in the bucket, and shown to the members of the project
          retired,  \* in the bucket, of a file that was replaced or deleted
          gone      \* not in the bucket any more

vars == <<stored, served, retired, gone>>

Init == stored = {} /\ served = {} /\ retired = {} /\ gone = {}

\* A Put that fails may leave nothing behind; its path is not used again.
Put(f) ==
  /\ f \notin stored \cup served \cup retired \cup gone
  /\ \/ stored' = stored \cup {f} /\ UNCHANGED gone
     \/ gone' = gone \cup {f} /\ UNCHANGED stored
  /\ UNCHANGED <<served, retired>>

\* A cover retires the older covers of its project.
Serve(f, old) ==
  /\ f \in stored /\ f \notin old
  /\ stored' = stored \ ({f} \cup old)
  /\ served' = (served \ old) \cup {f}
  /\ retired' = retired \cup old
  /\ UNCHANGED gone

Retire(old) ==
  /\ stored' = stored \ old
  /\ served' = served \ old
  /\ retired' = retired \cup old
  /\ UNCHANGED gone

\* The clean-up of an upload, or the removal of what was retired.
Remove(f) ==
  /\ f \in stored \cup retired
  /\ stored' = stored \ {f}
  /\ retired' = retired \ {f}
  /\ gone' = gone \cup {f}
  /\ UNCHANGED served

Next ==
  \/ \E f \in Files : Put(f) \/ Remove(f)
  \/ \E f \in Files, old \in SUBSET (stored \cup served) : Serve(f, old)
  \/ \E old \in SUBSET (stored \cup served) : Retire(old)

Spec == Init /\ [][Next]_vars
=============================================================================
