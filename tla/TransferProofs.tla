--------------------------- MODULE TransferProofs ---------------------------
(***************************************************************************)
(* Proofs about ObjectTransfer, for every number of files, all sizes and   *)
(* all limits that stand to one another as those of S3 and of the code do. *)
(***************************************************************************)
EXTENDS ObjectTransfer, TLAPS

-----------------------------------------------------------------------------
(* Division, rounding and the plan of a multipart upload. *)

LEMMA Division ==
  ASSUME NEW n \in Nat, NEW d \in Nat \ {0}
  PROVE  /\ n \div d \in Nat /\ n % d \in Nat
         /\ n = d * (n \div d) + (n % d)
         /\ n % d < d
  <1>1. d \in Nat /\ d > 0
    OBVIOUS
  <1>2. n \div d \in Int /\ n \div d >= 0
    BY <1>1
  <1>3. n % d \in 0 .. d - 1
    BY <1>1
  <1>4. n = d * (n \div d) + (n % d)
    BY <1>1
  <1>5. n \div d \in Nat
    BY <1>2
  <1>6. n % d \in Nat /\ n % d < d
    BY <1>1, <1>3
  <1>7. QED BY <1>4, <1>5, <1>6, Zenon

\* A product grows with its factor.
LEMMA ProductGrows ==
  ASSUME NEW d \in Nat, NEW a \in Int, NEW b \in Int, a <= b
  PROVE  d * a <= d * b
  BY SMT

LEMMA QuotientBelow ==
  ASSUME NEW n \in Nat, NEW d \in Nat \ {0}, NEW c \in Nat, n < d * c
  PROVE  n \div d < c
  <1> DEFINE q == n \div d
  <1>1. q \in Nat /\ d * q <= n
    BY Division
  <1> HIDE DEF q
  <1>2. c <= q => d * c <= d * q
    BY <1>1, ProductGrows
  <1>3. d * c \in Int /\ d * q \in Int
    BY <1>1
  <1>4. q < c
    BY <1>1, <1>2, <1>3
  <1>5. QED BY <1>4 DEF q

LEMMA CeilDivCovers ==
  ASSUME NEW n \in Nat, NEW d \in Nat \ {0}
  PROVE  CeilDiv(n, d) \in Nat /\ n <= d * CeilDiv(n, d)
  <1> DEFINE q == n \div d
             r == n % d
  <1>1. q \in Nat /\ r \in Nat /\ n = d * q + r /\ r < d
    BY Division
  <1>2. CeilDiv(n, d) = q + (IF r # 0 THEN 1 ELSE 0)
    BY DEF CeilDiv
  <1> HIDE DEF q, r
  <1>3. d * (q + 1) = d * q + d
    BY <1>1
  <1>4. d * q \in Int
    BY <1>1
  <1>5. CASE r = 0
    BY <1>1, <1>2, <1>4, <1>5
  <1>6. CASE r # 0
    BY <1>1, <1>2, <1>3, <1>4, <1>6
  <1>7. QED BY <1>5, <1>6

LEMMA CeilDivLeast ==
  ASSUME NEW n \in Nat, NEW d \in Nat \ {0}, NEW c \in Nat, n <= d * c
  PROVE  CeilDiv(n, d) <= c
  <1> DEFINE q == n \div d
             r == n % d
  <1>1. q \in Nat /\ r \in Nat /\ n = d * q + r /\ r < d
    BY Division
  <1>2. CeilDiv(n, d) = q + (IF r # 0 THEN 1 ELSE 0)
    BY DEF CeilDiv
  <1> HIDE DEF q, r
  <1>3. d * q \in Int /\ d * c \in Int
    BY <1>1
  <1>4. c <= q - 1 => d * c <= d * (q - 1)
    BY <1>1, ProductGrows
  <1>5. c <= q => d * c <= d * q
    BY <1>1, ProductGrows
  <1>6. d * (q - 1) = d * q - d
    BY <1>1
  <1>7. CASE r = 0
    BY <1>1, <1>2, <1>3, <1>4, <1>6, <1>7
  <1>8. CASE r # 0
    BY <1>1, <1>2, <1>3, <1>5, <1>8
  <1>9. QED BY <1>7, <1>8

\* Rounding up to a whole number of d stays below every multiple of d.
LEMMA RoundUpLeast ==
  ASSUME NEW b \in Nat, NEW d \in Nat \ {0}, NEW m \in Nat, b <= m, m % d = 0
  PROVE  RoundUp(b, d) \in Nat /\ b <= RoundUp(b, d) /\ RoundUp(b, d) <= m
  <1> DEFINE q == b \div d
             r == b % d
             k == m \div d
  <1>1. q \in Nat /\ r \in Nat /\ b = d * q + r /\ r < d
    BY Division
  <1>2. k \in Nat /\ m = d * k
    <2> DEFINE rest == m % d
    <2>1. k \in Nat /\ m = d * k + rest /\ rest = 0
      BY Division
    <2> HIDE DEF k, rest
    <2>2. d * k \in Int
      BY <2>1
    <2>3. QED BY <2>1, <2>2
  <1>3. RoundUp(b, d) = IF r = 0 THEN b ELSE b + (d - r)
    BY DEF RoundUp
  <1> HIDE DEF q, r, k
  <1>4. CASE r = 0
    BY <1>3, <1>4
  <1>5. CASE r # 0
    <2>1. RoundUp(b, d) = d * q + d
      <3>1. d * q \in Int
        BY <1>1
      <3>2. QED BY <1>1, <1>3, <1>5, <3>1
    <2>2. d * (q + 1) = d * q + d
      BY <1>1
    <2>3. k <= q => d * k <= d * q
      BY <1>1, <1>2, ProductGrows
    <2>4. d * q \in Int /\ d * k \in Int
      BY <1>1, <1>2
    <2>5. q + 1 <= k
      BY <1>1, <1>2, <1>5, <2>3, <2>4
    <2>6. d * (q + 1) <= d * k
      BY <1>1, <1>2, <2>5, ProductGrows
    <2>7. QED BY <1>1, <1>2, <1>3, <1>5, <2>1, <2>2, <2>4, <2>6
  <1>6. QED BY <1>4, <1>5
\* multipartUploadPlanWithThreshold finds a plan for every size it is asked for:
\* the two errors after the choice of a part size cannot happen.
LEMMA EveryLargeFileHasPlan ==
  ASSUME NEW n \in Nat, SinglePut < n, n <= MaxPart * MaxParts
  PROVE  HasPlan(n)
  <1> DEFINE q == CeilDiv(n, MaxParts)
             b == IF q > DefaultPart THEN q ELSE DefaultPart
             r == RoundUp(b, MiB)
  <1>1. /\ MiB \in Nat \ {0} /\ MinPart \in Nat \ {0} /\ DefaultPart \in Nat \ {0}
        /\ MaxPart \in Nat \ {0} /\ MaxParts \in Nat \ {0}
        /\ SinglePut \in Nat
        /\ MinPart <= DefaultPart /\ DefaultPart <= MaxPart /\ MaxPart % MiB = 0
    BY TransferAssumption
  <1>2. n <= MaxParts * MaxPart
    BY <1>1
  <1>3. q \in Nat /\ n <= MaxParts * q /\ q <= MaxPart
    BY <1>1, <1>2, CeilDivCovers, CeilDivLeast
  <1>4. PartSize(n) = r
    BY DEF PartSize
  <1> HIDE DEF q
  <1>5. b \in Nat /\ q <= b /\ MinPart <= b /\ b <= MaxPart
    BY <1>1, <1>3
  <1> HIDE DEF b
  <1>6. r \in Nat /\ b <= r /\ r <= MaxPart
    BY <1>1, <1>5, RoundUpLeast
  <1> HIDE DEF r
  <1>7. r \in MinPart .. MaxPart /\ r \in Nat \ {0}
    BY <1>1, <1>5, <1>6
  <1>8. (n - 1) \div r + 1 <= MaxParts
    <2>1. q <= r
      BY <1>3, <1>5, <1>6
    <2>2. MaxParts * q <= MaxParts * r
      BY <1>1, <1>3, <1>6, <2>1, ProductGrows
    <2>3. n - 1 \in Nat
      BY <1>1
    <2>4. n - 1 < r * MaxParts
      <3>1. MaxParts * q \in Int /\ MaxParts * r \in Int /\ r * MaxParts = MaxParts * r
        BY <1>1, <1>3, <1>6
      <3>2. QED BY <1>3, <2>2, <3>1
    <2>5. (n - 1) \div r < MaxParts
      BY <1>1, <1>7, <2>3, <2>4, QuotientBelow
    <2>6. (n - 1) \div r \in Nat
      BY <1>7, <2>3, Division
    <2>7. QED BY <1>1, <2>5, <2>6
  <1>9. QED BY <1>4, <1>7, <1>8 DEF HasPlan, PartCount
-----------------------------------------------------------------------------
(* The parts of an upload. *)

\* While bytes are left, the next part has a length S3 accepts and there is
\* room for it; afterwards either the body is complete or the part was full.
LEMMA NextPart ==
  ASSUME NEW n \in Nat, HasPlan(n), NEW p \in Nat, NEW sent \in Nat,
         sent < n, sent = p * PartSize(n)
  PROVE  LET length == PartLength(n, sent) IN
         /\ p < MaxParts
         /\ length \in 1 .. MaxPart
         /\ length < MinPart => sent + length = n
         /\ sent + length <= n
         /\ sent + length < n => sent + length = (p + 1) * PartSize(n)
  <1> DEFINE s == PartSize(n)
             q == (n - 1) \div s
  <1>1. /\ MinPart \in Nat \ {0} /\ MaxPart \in Nat \ {0} /\ MaxParts \in Nat \ {0}
        /\ MinPart <= MaxPart
    BY TransferAssumption
  <1>2. s \in MinPart .. MaxPart /\ q + 1 <= MaxParts
    BY DEF HasPlan, PartCount
  <1>3. PartLength(n, sent) = IF n - sent < s THEN n - sent ELSE s
    BY DEF PartLength
  <1>4. s \in Nat \ {0} /\ n - 1 \in Nat
    BY <1>1, <1>2
  <1>5. q \in Nat /\ n - 1 < s * (q + 1)
    <2> DEFINE r == (n - 1) % s
    <2>1. q \in Nat /\ r \in Nat /\ r < s /\ n - 1 = s * q + r
      BY <1>4, Division
    <2> HIDE DEF q, r, s
    <2>2. s * (q + 1) = s * q + s /\ s * q \in Int
      BY <1>4, <2>1
    <2>3. QED BY <1>4, <2>1, <2>2
  <1>6. sent = p * s
    OBVIOUS
  <1> HIDE DEF q, s
  <1>7. q + 1 <= p => s * (q + 1) <= s * p
    BY <1>4, <1>5, ProductGrows
  <1>8. s * p = p * s /\ s * p \in Int /\ s * (q + 1) \in Int /\ (p + 1) * s = p * s + s
    BY <1>4, <1>5
  <1>9. p < q + 1
    BY <1>5, <1>6, <1>7, <1>8
  <1>10. p < MaxParts
    BY <1>1, <1>2, <1>5, <1>9
  <1>11. CASE n - sent < s
    <2>1. PartLength(n, sent) = n - sent
      BY <1>3, <1>11
    <2>2. QED BY <1>1, <1>2, <1>10, <1>11, <2>1 DEF s
  <1>12. CASE ~(n - sent < s)
    <2>1. PartLength(n, sent) = s
      BY <1>3, <1>12
    <2>2. sent + s = (p + 1) * s
      BY <1>6, <1>8
    <2>3. s \in 1 .. MaxPart /\ ~(s < MinPart) /\ sent + s <= n
      BY <1>1, <1>2, <1>4, <1>12
    <2>4. QED BY <1>10, <2>1, <2>2, <2>3 DEF s
  <1>13. QED BY <1>11, <1>12

-----------------------------------------------------------------------------
(* The inductive invariant. *)

Copying == {"put", "temp", "publish", "parts", "verify"}

\* The copies of this run are whole: those of the files it has done with.
CopiesKept ==
  /\ job.pc \in Copying \cup {"next"} =>
       /\ job.todo \subseteq activeFiles
       /\ \A k \in activeFiles \ job.todo : store[Target][k] = Whole(k)
  /\ job.pc \in Copying => job.key \in job.todo
  /\ job.pc = "done" => \A k \in activeFiles : store[Target][k] = Whole(k)

\* What was sent is what the source delivered, in full parts but for the last.
PartsInOrder ==
  job.pc = "parts" =>
    LET n == size[job.key] IN
    /\ HasPlan(n)
    /\ job.parts <= MaxParts
    /\ job.got = job.sent /\ job.sent <= n
    /\ job.sent < n => job.sent = job.parts * PartSize(n)

ReadInFull == job.pc = "verify" => job.got = size[job.key]

TransferInv ==
  /\ TransferTypeOK
  /\ WholeObjects
  /\ ActiveFilesServed
  /\ CopiesKept
  /\ PartsInOrder
  /\ ReadInFull

LEMMA JobShape ==
  ASSUME TransferTypeOK
  PROVE  /\ job.pc \in {"serving", "stopped", "done", "next"} \cup Copying
         /\ job.pc = "next" => job \in [pc : {"next"}, todo : SUBSET Keys]
         /\ job.pc \in {"put", "temp", "publish"} =>
              job \in [pc : {"put", "temp", "publish"}, key : Keys, todo : SUBSET Keys]
         /\ job.pc = "parts" =>
              job \in [pc : {"parts"}, key : Keys, todo : SUBSET Keys, parts : Nat,
                       sent : Nat, got : Nat, same : BOOLEAN]
         /\ job.pc = "verify" =>
              job \in [pc : {"verify"}, key : Keys, todo : SUBSET Keys, got : Nat]
  BY DEF TransferTypeOK, JobState, Copying

LEMMA SizesAreNumbers ==
  ASSUME TransferTypeOK, NEW k \in Keys
  PROVE  size[k] \in Nat /\ Whole(k) \in Object /\ Whole(k) # NoObject
  <1>1. size[k] \in Nat
    BY TransferAssumption DEF TransferTypeOK
  <1>2. Whole(k) \in Object
    BY <1>1 DEF Whole, Object
  <1>3. QED BY <1>1, <1>2, TransferAssumption

LEMMA TargetIsOther ==
  ASSUME TransferTypeOK
  PROVE  Target \in Stores /\ Target # driver
  BY DEF TransferTypeOK, Target, Stores
-----------------------------------------------------------------------------
(* Every step keeps the invariant. *)

\* The API's steps and the operator's.
LEMMA ServingStep ==
  ASSUME TransferInv,
         \/ \E k \in Keys : UploadFile(k) \/ DeleteFile(k)
         \/ StopApi \/ StartApi \/ CutOver
  PROVE  TransferInv'
  <1> USE DEF TransferInv
  <1>1. ASSUME NEW k \in Keys, UploadFile(k)
        PROVE  TransferInv'
    <2>1. /\ job.pc = "serving" /\ UNCHANGED <<size, driver, job>>
          /\ activeFiles' = activeFiles \cup {k}
          /\ \A s \in Stores, x \in Keys :
               store'[s][x] = IF s = driver /\ x = k THEN Whole(k) ELSE store[s][x]
      BY <1>1 DEF UploadFile, TransferTypeOK
    <2>2. TransferTypeOK'
      BY <1>1, <2>1, SizesAreNumbers DEF UploadFile, TransferTypeOK
    <2>3. WholeObjects'
      BY <2>1 DEF WholeObjects, Whole
    <2>4. ActiveFilesServed'
      BY <2>1 DEF ActiveFilesServed, Whole, TransferTypeOK
    <2>5. QED BY <2>1, <2>2, <2>3, <2>4 DEF CopiesKept, PartsInOrder, ReadInFull, Copying
  <1>2. ASSUME NEW k \in Keys, DeleteFile(k)
        PROVE  TransferInv'
    <2>1. /\ job.pc = "serving" /\ UNCHANGED <<size, driver, job>>
          /\ activeFiles' = activeFiles \ {k}
          /\ store' = store \/ store' = [store EXCEPT ![driver][k] = NoObject]
      BY <1>2 DEF DeleteFile
    <2>2. \A s \in Stores, x \in Keys :
            store'[s][x] = store[s][x] \/ (x = k /\ store'[s][x] = NoObject)
      BY <2>1 DEF TransferTypeOK
    <2>3. TransferTypeOK'
      BY <2>1 DEF TransferTypeOK
    <2>4. WholeObjects'
      BY <2>1, <2>2 DEF WholeObjects
    <2>5. ActiveFilesServed'
      BY <2>1, <2>2 DEF ActiveFilesServed, Whole, TransferTypeOK
    <2>6. QED BY <2>1, <2>3, <2>4, <2>5 DEF CopiesKept, PartsInOrder, ReadInFull, Copying
  <1>3. CASE StopApi \/ StartApi
    <2>1. /\ job' \in {[pc |-> "stopped"], [pc |-> "serving"]}
          /\ UNCHANGED <<size, activeFiles, driver, store>>
      BY <1>3 DEF StopApi, StartApi
    <2>2. TransferTypeOK'
      BY <2>1 DEF TransferTypeOK, JobState
    <2>3. QED
      BY <2>1, <2>2 DEF WholeObjects, ActiveFilesServed, Whole, CopiesKept, PartsInOrder,
                        ReadInFull, Copying
  <1>4. CASE CutOver
    <2>1. /\ job.pc = "done" /\ job' = [pc |-> "serving"] /\ driver' = Target
          /\ UNCHANGED <<size, activeFiles, store>>
      BY <1>4 DEF CutOver
    <2>2. TransferTypeOK'
      BY <2>1, TargetIsOther DEF TransferTypeOK, JobState
    <2>3. ActiveFilesServed'
      BY <2>1 DEF ActiveFilesServed, CopiesKept, Whole
    <2>4. QED
      BY <2>1, <2>2, <2>3 DEF WholeObjects, CopiesKept, PartsInOrder, ReadInFull, Copying
  <1>5. QED BY <1>1, <1>2, <1>3, <1>4

\* A step of the tool that writes the object of job.key leaves the others as
\* they are, and the API's store with them.
LEMMA WritesOneCopy ==
  ASSUME TransferInv, job.pc \in Copying, NEW o \in Object, Stored(o),
         o.len = size[job.key], UNCHANGED <<size, activeFiles, driver>>,
         Verify(size[job.key]) \/ Stops
  PROVE  TransferInv'
  <1> USE DEF TransferInv
  <1>1. job.key \in Keys /\ job.todo \subseteq Keys
    BY JobShape DEF Copying
  <1>2. \A s \in Stores, k \in Keys :
          store'[s][k] = IF s = Target /\ k = job.key THEN o ELSE store[s][k]
    BY <1>1 DEF Stored, TransferTypeOK
  <1>3. store' \in [Stores -> [Keys -> Object \cup {NoObject}]]
    BY <1>1, TargetIsOther DEF Stored, TransferTypeOK
  <1>4. job' \in JobState
    BY <1>1, SizesAreNumbers DEF Verify, Stops, JobState
  <1>5. TransferTypeOK'
    BY <1>3, <1>4 DEF TransferTypeOK
  <1>6. WholeObjects'
    BY <1>2 DEF WholeObjects
  <1>7. ActiveFilesServed'
    BY <1>2, TargetIsOther DEF ActiveFilesServed, Whole, TransferTypeOK
  <1>8. CopiesKept'
    <2>1. Target' = Target
      BY DEF Target
    <2>2. CASE Stops
      BY <2>2 DEF Stops, CopiesKept, Copying
    <2>3. CASE Verify(size[job.key])
      <3>1. job'.pc = "verify" /\ job'.key = job.key /\ job'.todo = job.todo
        BY <2>3 DEF Verify
      <3>2. \A k \in activeFiles \ job.todo : store'[Target][k] = store[Target][k]
        BY <1>2, TargetIsOther DEF CopiesKept, TransferTypeOK
      <3>3. QED BY <2>1, <3>1, <3>2 DEF CopiesKept, Copying, Whole
    <2>4. QED BY <2>2, <2>3
  <1>9. PartsInOrder' /\ ReadInFull'
    BY DEF Verify, Stops, PartsInOrder, ReadInFull
  <1>10. QED BY <1>5, <1>6, <1>7, <1>8, <1>9
LEMMA ArrivesBoolean ==
  ASSUME TransferTypeOK, NEW k \in Keys, store[driver][k] \in Object,
         NEW same \in Arrives(store[driver][k].same)
  PROVE  [len |-> size[k], same |-> same] \in Object
  BY SizesAreNumbers DEF Arrives, Object

\* Steps of the tool that write no object: only the job changes.
LEMMA JobStep ==
  ASSUME TransferInv, UNCHANGED <<size, activeFiles, driver, store>>,
         job' \in JobState, CopiesKept', PartsInOrder', ReadInFull'
  PROVE  TransferInv'
  BY DEF TransferInv, TransferTypeOK, WholeObjects, ActiveFilesServed, Whole

LEMMA RunStep ==
  ASSUME TransferInv, MigrateActiveFiles \/ Finish \/ MigrationFails
  PROVE  TransferInv'
  <1> USE DEF TransferInv
  <1>1. CASE MigrateActiveFiles
    <2>1. job' \in JobState
      BY <1>1 DEF MigrateActiveFiles, JobState, TransferTypeOK
    <2>2. CopiesKept' /\ PartsInOrder' /\ ReadInFull'
      BY <1>1 DEF MigrateActiveFiles, CopiesKept, PartsInOrder, ReadInFull, Copying
    <2>3. QED BY <1>1, <2>1, <2>2, JobStep DEF MigrateActiveFiles
  <1>2. CASE Finish
    <2>1. job' \in JobState
      BY <1>2 DEF Finish, JobState
    <2>2. CopiesKept' /\ PartsInOrder' /\ ReadInFull'
      BY <1>2 DEF Finish, CopiesKept, PartsInOrder, ReadInFull, Copying, Target, Whole
    <2>3. QED BY <1>2, <2>1, <2>2, JobStep DEF Finish
  <1>3. CASE MigrationFails
    <2>1. job' \in JobState
      BY <1>3 DEF MigrationFails, Stops, JobState
    <2>2. CopiesKept' /\ PartsInOrder' /\ ReadInFull'
      BY <1>3 DEF MigrationFails, Stops, CopiesKept, PartsInOrder, ReadInFull, Copying
    <2>3. QED BY <1>3, <2>1, <2>2, JobStep DEF MigrationFails
  <1>4. QED BY <1>1, <1>2, <1>3

LEMMA OpenStep ==
  ASSUME TransferInv, NEW k \in Keys, OpenSource(k)
  PROVE  TransferInv'
  <1> USE DEF TransferInv
  <1>1. job.pc = "next" /\ job.todo \in SUBSET Keys /\ k \in job.todo
    BY JobShape DEF OpenSource
  <1>2. size[k] \in Nat /\ store[driver][k].same \in BOOLEAN
    BY SizesAreNumbers DEF OpenSource, TransferTypeOK, Object
  <1>3. CASE job' = [pc |-> "temp", key |-> k, todo |-> job.todo]
             \/ job' = [pc |-> "put", key |-> k, todo |-> job.todo]
    <2>1. job' \in JobState
      BY <1>1, <1>3 DEF JobState
    <2>2. CopiesKept' /\ PartsInOrder' /\ ReadInFull'
      BY <1>1, <1>3 DEF OpenSource, CopiesKept, PartsInOrder, ReadInFull, Copying,
                        Target, Whole
    <2>3. QED BY <2>1, <2>2, JobStep DEF OpenSource
  <1>4. CASE HasPlan(size[k]) /\
             job' = [pc |-> "parts", key |-> k, todo |-> job.todo, parts |-> 0,
                     sent |-> 0, got |-> 0, same |-> store[driver][k].same]
    <2>1. job' \in JobState
      BY <1>1, <1>2, <1>4 DEF JobState
    <2>2. CopiesKept' /\ ReadInFull'
      BY <1>1, <1>4 DEF OpenSource, CopiesKept, ReadInFull, Copying, Target, Whole
    <2>3. PartsInOrder'
      <3>1. size' = size /\ 0 <= MaxParts /\ PartSize(size[k]) \in Int
        BY <1>4, TransferAssumption DEF OpenSource, HasPlan
      <3>2. 0 * PartSize(size[k]) = 0
        BY <3>1
      <3>3. QED BY <1>2, <1>4, <3>1, <3>2 DEF PartsInOrder
    <2>4. QED BY <2>1, <2>2, <2>3, JobStep DEF OpenSource
  <1>5. QED BY <1>3, <1>4 DEF OpenSource

LEMMA PartStep ==
  ASSUME TransferInv, UploadPart
  PROVE  TransferInv'
  <1> USE DEF TransferInv
  <1> DEFINE n == size[job.key]
             length == PartLength(n, job.sent)
  <1>1. /\ job.pc = "parts" /\ job.sent < n
        /\ UNCHANGED <<size, activeFiles, driver, store>>
    BY DEF UploadPart
  <1>2. job \in [pc : {"parts"}, key : Keys, todo : SUBSET Keys, parts : Nat,
                 sent : Nat, got : Nat, same : BOOLEAN]
    BY <1>1, JobShape
  <1>3. PICK same \in Arrives(job.same) :
          job' = [job EXCEPT !.parts = @ + 1, !.sent = @ + length, !.got = @ + length,
                             !.same = same]
    BY DEF UploadPart
  <1>4. same \in BOOLEAN
    BY <1>2 DEF Arrives
  <1>5. n \in Nat /\ HasPlan(n) /\ job.got = job.sent /\ job.sent = job.parts * PartSize(n)
    BY <1>1, <1>2, SizesAreNumbers DEF PartsInOrder
  <1>6. /\ job.parts < MaxParts
        /\ length \in 1 .. MaxPart
        /\ job.sent + length <= n
        /\ job.sent + length < n => job.sent + length = (job.parts + 1) * PartSize(n)
    BY <1>1, <1>2, <1>5, NextPart
  <1>7. length \in Nat
    BY <1>6, TransferAssumption
  <1> HIDE DEF length
  <1>8. /\ job'.pc = "parts" /\ job'.key = job.key /\ job'.todo = job.todo
        /\ job'.parts = job.parts + 1
        /\ job'.sent = job.sent + length /\ job'.got = job.got + length
    BY <1>2, <1>3
  <1>9. job' \in JobState
    <2>1. job.parts + 1 \in Nat /\ job.sent + length \in Nat /\ job.got + length \in Nat
      BY <1>2, <1>7
    <2>2. job' \in [pc : {"parts"}, key : Keys, todo : SUBSET Keys, parts : Nat,
                     sent : Nat, got : Nat, same : BOOLEAN]
      BY <1>2, <1>3, <1>4, <2>1
    <2>3. QED BY <2>2 DEF JobState
  <1>10. CopiesKept' /\ ReadInFull'
    BY <1>1, <1>8 DEF CopiesKept, ReadInFull, Copying, Target, Whole
  <1>11. PartsInOrder'
    <2>1. job.parts + 1 <= MaxParts
      BY <1>2, <1>6, TransferAssumption
    <2>2. QED BY <1>1, <1>5, <1>6, <1>8, <2>1 DEF PartsInOrder
  <1>12. QED BY <1>1, <1>9, <1>10, <1>11, JobStep

LEMMA WriteStep ==
  ASSUME TransferInv, PutStream \/ RenameTemp \/ CompleteMultipartUpload
  PROVE  TransferInv'
  <1> USE DEF TransferInv
  <1>1. job.pc \in Copying /\ job.key \in Keys
    BY JobShape DEF PutStream, RenameTemp, CompleteMultipartUpload, Copying
  <1>2. store[driver][job.key] \in Object
    BY <1>1, SizesAreNumbers DEF CopiesKept, ActiveFilesServed
  <1>3. CASE PutStream \/ RenameTemp
    <2>1. PICK same \in Arrives(store[driver][job.key].same) :
            Stored([len |-> size[job.key], same |-> same])
      BY <1>3 DEF PutStream, RenameTemp
    <2>2. [len |-> size[job.key], same |-> same] \in Object
      BY <1>1, <1>2, ArrivesBoolean
    <2>3. QED BY <1>1, <1>3, <2>1, <2>2, WritesOneCopy DEF PutStream, RenameTemp
  <1>4. CASE CompleteMultipartUpload
    <2>1. job \in [pc : {"parts"}, key : Keys, todo : SUBSET Keys, parts : Nat,
                   sent : Nat, got : Nat, same : BOOLEAN]
      BY <1>4, JobShape DEF CompleteMultipartUpload
    <2>2. job.got = size[job.key]
      BY <1>4, <2>1, SizesAreNumbers DEF CompleteMultipartUpload, PartsInOrder
    <2>3. [len |-> job.got, same |-> job.same] \in Object
      BY <2>1 DEF Object
    <2>4. QED BY <1>1, <1>4, <2>2, <2>3, WritesOneCopy DEF CompleteMultipartUpload
  <1>5. QED BY <1>3, <1>4

LEMMA TempStep ==
  ASSUME TransferInv, CopyToTemp
  PROVE  TransferInv'
  <1> USE DEF TransferInv
  <1>1. job \in [pc : {"put", "temp", "publish"}, key : Keys, todo : SUBSET Keys]
    BY JobShape DEF CopyToTemp
  <1>2. job' = [job EXCEPT !.pc = "publish"] /\ UNCHANGED <<size, activeFiles, driver, store>>
    BY DEF CopyToTemp
  <1>3. job' \in JobState
    BY <1>1, <1>2 DEF JobState
  <1>4. job.pc = "temp" /\ job'.pc = "publish" /\ job'.key = job.key /\ job'.todo = job.todo
    BY <1>1, <1>2 DEF CopyToTemp
  <1>5. CopiesKept' /\ PartsInOrder' /\ ReadInFull'
    BY <1>2, <1>4 DEF CopiesKept, PartsInOrder, ReadInFull, Copying, Target, Whole
  <1>6. QED BY <1>2, <1>3, <1>5, JobStep

LEMMA VerifyStep ==
  ASSUME TransferInv, VerifyCopy
  PROVE  TransferInv'
  <1> USE DEF TransferInv
  <1>1. job \in [pc : {"verify"}, key : Keys, todo : SUBSET Keys, got : Nat]
    BY JobShape DEF VerifyCopy
  <1>2. /\ job' = [pc |-> "next", todo |-> job.todo \ {job.key}]
        /\ UNCHANGED <<size, activeFiles, driver, store>>
    BY DEF VerifyCopy, Copied
  <1>3. job' \in JobState
    BY <1>1, <1>2 DEF JobState
  <1>4. store[Target][job.key] = Whole(job.key)
    <2>1. store[driver][job.key] = Whole(job.key)
      BY <1>1 DEF CopiesKept, ActiveFilesServed, Copying
    <2>2. QED BY <2>1 DEF VerifyCopy, Whole
  <1>5. \A k \in activeFiles \ (job.todo \ {job.key}) : store[Target][k] = Whole(k)
    BY <1>1, <1>4 DEF CopiesKept, Copying
  <1>6. job.todo \subseteq activeFiles
    BY <1>1 DEF CopiesKept, Copying
  <1>7. CopiesKept'
    BY <1>2, <1>5, <1>6 DEF CopiesKept, Copying, Target, Whole
  <1>8. PartsInOrder' /\ ReadInFull'
    BY <1>2 DEF PartsInOrder, ReadInFull
  <1>9. QED BY <1>2, <1>3, <1>7, <1>8, JobStep
-----------------------------------------------------------------------------
(* Theorems. *)

LEMMA TransferInvStart == TransferInit => TransferInv
  <1> SUFFICES ASSUME TransferInit PROVE TransferInv
    OBVIOUS
  <1>1. \A k \in Keys : Whole(k) \in Object
    BY TransferAssumption DEF TransferInit, Whole, Object
  <1>2. /\ store \in [Stores -> [Keys -> Object \cup {NoObject}]]
        /\ \A s \in Stores, k \in Keys :
             store[s][k] = IF s = "local" /\ k \in activeFiles THEN Whole(k) ELSE NoObject
    <2> DEFINE Held(s, k) == IF s = "local" /\ k \in activeFiles THEN Whole(k) ELSE NoObject
    <2>1. \A s \in Stores, k \in Keys : Held(s, k) \in Object \cup {NoObject}
      BY <1>1
    <2>2. store = [s \in Stores |-> [k \in Keys |-> Held(s, k)]]
      BY DEF TransferInit
    <2> HIDE DEF Held
    <2>3. /\ store \in [Stores -> [Keys -> Object \cup {NoObject}]]
          /\ \A s \in Stores, k \in Keys : store[s][k] = Held(s, k)
      BY <2>1, <2>2
    <2>4. QED BY <2>3 DEF Held
  <1>3. TransferTypeOK
    BY <1>2 DEF TransferInit, TransferTypeOK, JobState, Stores
  <1>4. WholeObjects
    <2> SUFFICES ASSUME NEW s \in Stores, NEW k \in Keys, store[s][k] # NoObject
                 PROVE  store[s][k].len = size[k]
      BY DEF WholeObjects
    <2>1. store[s][k] = Whole(k)
      BY <1>2
    <2>2. Whole(k).len = size[k]
      BY DEF Whole
    <2>3. QED BY <2>1, <2>2
  <1>5. ActiveFilesServed
    BY <1>2 DEF TransferInit, ActiveFilesServed, Stores
  <1>6. CopiesKept /\ PartsInOrder /\ ReadInFull
    BY DEF TransferInit, CopiesKept, PartsInOrder, ReadInFull, Copying
  <1>7. QED BY <1>3, <1>4, <1>5, <1>6 DEF TransferInv

LEMMA TransferInvKept == TransferInv /\ [TransferNext]_transferVars => TransferInv'
  <1> SUFFICES ASSUME TransferInv, [TransferNext]_transferVars
               PROVE  TransferInv'
    OBVIOUS
  <1>1. CASE \/ \E k \in Keys : UploadFile(k) \/ DeleteFile(k)
             \/ StopApi \/ StartApi \/ CutOver
    BY <1>1, ServingStep
  <1>2. CASE MigrateActiveFiles \/ Finish \/ MigrationFails
    BY <1>2, RunStep
  <1>3. ASSUME NEW k \in Keys, OpenSource(k)
        PROVE  TransferInv'
    BY <1>3, OpenStep
  <1>4. CASE PutStream \/ RenameTemp \/ CompleteMultipartUpload
    BY <1>4, WriteStep
  <1>5. CASE UploadPart
    BY <1>5, PartStep
  <1>6. CASE CopyToTemp
    BY <1>6, TempStep
  <1>7. CASE VerifyCopy
    BY <1>7, VerifyStep
  <1>8. CASE UNCHANGED transferVars
    BY <1>8 DEF transferVars, TransferInv, TransferTypeOK, WholeObjects, ActiveFilesServed,
                Whole, CopiesKept, PartsInOrder, ReadInFull, Target
  <1>9. QED
    BY <1>1, <1>2, <1>3, <1>4, <1>5, <1>6, <1>7, <1>8 DEF TransferNext, CopyAndVerify

LEMMA TransferInvariant == TransferSpec => []TransferInv
  BY TransferInvStart, TransferInvKept, PTL DEF TransferSpec

\* The stores and the tool keep their types.
THEOREM TransferTypeCorrect == TransferSpec => []TransferTypeOK
  <1>1. TransferInv => TransferTypeOK
    BY DEF TransferInv
  <1>2. QED BY <1>1, TransferInvariant, PTL

\* A failed or interrupted copy never shows a part of a file in either store.
THEOREM NoPartialObject == TransferSpec => []WholeObjects
  <1>1. TransferInv => WholeObjects
    BY DEF TransferInv
  <1>2. QED BY <1>1, TransferInvariant, PTL

\* The API never runs on a store that lacks a file or has a damaged one: the
\* store is changed only after a run that read every copy back.
THEOREM CutOverLosesNothing == TransferSpec => []ActiveFilesServed
  <1>1. TransferInv => ActiveFilesServed
    BY DEF TransferInv
  <1>2. QED BY <1>1, TransferInvariant, PTL

\* The plan of a multipart upload exists for every size up to the maximum, and
\* every part that follows from it is one S3 accepts.
THEOREM PlansAreAccepted == TransferSpec => []PartsAccepted
  <1>1. TransferInv => PartsAccepted
    <2> SUFFICES ASSUME TransferInv PROVE PartsAccepted
      OBVIOUS
    <2> USE DEF TransferInv
    <2>1. ASSUME NEW k \in Keys, SinglePut < size[k], size[k] <= MaxPart * MaxParts
          PROVE  HasPlan(size[k])
      BY <2>1, SizesAreNumbers, EveryLargeFileHasPlan
    <2>2. ASSUME job.pc = "parts"
          PROVE  LET n == size[job.key]
                     length == PartLength(n, job.sent)
                 IN  /\ job.parts <= MaxParts
                     /\ job.sent < n =>
                          /\ job.parts < MaxParts
                          /\ length \in 1 .. MaxPart
                          /\ length < MinPart => job.sent + length = n
      <3>1. job.key \in Keys /\ job.parts \in Nat /\ job.sent \in Nat
        BY <2>2, JobShape
      <3>2. size[job.key] \in Nat
        BY <3>1, SizesAreNumbers
      <3>3. QED BY <2>2, <3>1, <3>2, NextPart DEF PartsInOrder
    <2>3. QED BY <2>1, <2>2 DEF PartsAccepted
  <1>2. QED BY <1>1, TransferInvariant, PTL
=============================================================================
