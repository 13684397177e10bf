------------------------- MODULE SampleGrabberProofs -------------------------
(***************************************************************************)
(* Proofs about SampleGrabber, for any set of readers, any size of the     *)
(* buffer and any number of samples.                                       *)
(*                                                                         *)
(* What a reader is given is the content of the buffer at that moment: the *)
(* bytes below mImageByteSize are all of the last sample (Whole), and that *)
(* sample is newer than what a reader has that may take it (Newer).        *)
(***************************************************************************)
EXTENDS SampleGrabber, FiniteSetTheorems, TLAPS

USE GrabberAssumption

LEMMA TypedInit == SGInit => SGTypeOK
<1>. SUFFICES ASSUME SGInit PROVE SGTypeOK OBVIOUS
<1>1. /\ mReadyToRead \in BOOLEAN /\ capturing \in BOOLEAN /\ shut \in BOOLEAN
      /\ refused \in BOOLEAN
      BY Zenon DEF SGInit
<1>2. mData \in [Bytes(Capacity) -> Nat] BY DEF SGInit, Bytes
<1>3. taken \in [Readers -> [Bytes(Capacity) -> Nat]] BY <1>2 DEF SGInit
<1>4. QED BY <1>1, <1>2, <1>3 DEF SGInit, SGTypeOK

\* What Take does to the variables.
LEMMA TakeChanges ==
  ASSUME SGTypeOK, NEW r \in Readers, Take(r)
  PROVE  /\ taken' \in [Readers -> [Bytes(Capacity) -> Nat]]
         /\ \A q \in Readers \ {r} : taken'[q] = taken[q]
         /\ \A b \in Bytes(Capacity) :
               taken'[r][b] = IF b <= mImageByteSize THEN mData[b] ELSE 0
         /\ reader' \in [Readers -> {"out", "test", "copy", "lock", "blocked"}]
         /\ reader'[r] = "out"
         /\ \A q \in Readers \ {r} :
               reader'[q] = reader[q] \/ (reader[q] = "blocked" /\ reader'[q] = "lock")
         /\ mReadyToRead' = FALSE
         /\ UNCHANGED <<mode, mData, mImageByteSize, samples, wanted, refused, capturing, shut>>
<1>1. DOMAIN mData = Bytes(Capacity) BY DEF SGTypeOK
<1>2. [b \in DOMAIN mData |-> IF b <= mImageByteSize THEN mData[b] ELSE 0]
        \in [Bytes(Capacity) -> Nat]
      BY <1>1 DEF SGTypeOK
<1>3. QED BY <1>1, <1>2 DEF Take, copy, SGTypeOK, Blocked

\* What a step of a reader does that takes nothing.
LEMMA GoesChanges ==
  ASSUME SGTypeOK, NEW r \in Readers, NEW line \in {"out", "test", "copy", "lock", "blocked"},
         Goes(r, line)
  PROVE  /\ reader' \in [Readers -> {"out", "test", "copy", "lock", "blocked"}]
         /\ reader'[r] = line /\ \A q \in Readers \ {r} : reader'[q] = reader[q]
         /\ UNCHANGED <<mode, taken, bufferVars, capturing, shut>>
BY DEF Goes, SGTypeOK

\* What a sample does to the buffer.
LEMMA FillChanges ==
  ASSUME SGTypeOK, NEW size \in 0 .. Capacity, fill(size)
  PROVE  /\ samples' = samples + 1 /\ mReadyToRead' = TRUE
         /\ mImageByteSize' \in 0 .. Capacity
         /\ mData' \in [Bytes(Capacity) -> Nat]
         /\ \A b \in Bytes(Capacity) : b <= mImageByteSize' => mData'[b] = samples'
<1>1. mImageByteSize' \in 0 .. Capacity BY DEF fill, Smaller, SGTypeOK
<1>2. samples' = samples + 1 /\ samples' \in Nat BY DEF fill, SGTypeOK
<1>3. mData' = [b \in Bytes(Capacity) |->
                  IF b <= mImageByteSize' THEN samples' ELSE mData[b]]
      BY DEF fill, SGTypeOK
<1>4. QED BY <1>1, <1>2, <1>3 DEF fill, SGTypeOK

\* What waking does to the readers.
LEMMA WakeChanges ==
  ASSUME SGTypeOK, wake
  PROVE  /\ reader' \in [Readers -> {"out", "test", "copy", "lock", "blocked"}]
         /\ mode = "ASYNC" => reader' = reader
         /\ mode # "ASYNC" => \A q \in Readers :
               reader'[q] = IF reader[q] = "blocked" THEN "lock" ELSE reader[q]
BY DEF wake, NotifyAll, Blocked, SGTypeOK

LEMMA TypedNext == ASSUME SGTypeOK, [SGNext]_grabberVars PROVE SGTypeOK'
<1>. USE DEF SGTypeOK
<1>1. ASSUME NEW size \in 0 .. Capacity, writeData(size) PROVE SGTypeOK'
  <2>1. wanted' \in Nat BY <1>1 DEF writeData
  <2>2. fill(size) /\ wake /\ UNCHANGED <<mode, taken, refused, capturing, shut>> BY <1>1 DEF writeData
  <2>3. /\ mReadyToRead' \in BOOLEAN /\ samples' \in Nat
        /\ mImageByteSize' \in 0 .. Capacity /\ mData' \in [Bytes(Capacity) -> Nat]
    <3>1. mReadyToRead' \in BOOLEAN BY <2>2, Zenon DEF fill
    <3>2. samples \in Nat /\ samples' = samples + 1 BY <2>2, FillChanges
    <3>3. samples' \in Nat BY <3>2
    <3>4. mImageByteSize' \in 0 .. Capacity /\ mData' \in [Bytes(Capacity) -> Nat]
          BY <2>2, FillChanges
    <3>5. QED BY <3>1, <3>3, <3>4, Zenon
  <2>4. reader' \in [Readers -> {"out", "test", "copy", "lock", "blocked"}]
        BY <2>2, WakeChanges
  <2>5. QED BY <2>1, <2>2, <2>3, <2>4
<1>2. CASE startClock BY <1>2 DEF startClock, readVars, bufferVars
<1>3. CASE stopClock BY <1>3 DEF stopClock, readVars, bufferVars
<1>4. CASE Shutdown BY <1>4 DEF Shutdown, readVars, bufferVars
<1>5. CASE dropRequest \/ refuseSample
  <2>1. refused' \in BOOLEAN BY <1>5, Zenon DEF dropRequest, refuseSample
  <2>2. wanted' \in Nat /\ UNCHANGED <<mode, readVars, bufferVars, capturing, shut>>
        BY <1>5 DEF dropRequest, refuseSample
  <2>3. QED BY <2>1, <2>2 DEF readVars, bufferVars
<1>6. ASSUME NEW r \in Readers, Read(r) PROVE SGTypeOK'
  <2>1. CASE readData(r)
    <3>1. Goes(r, "test") /\ wanted' \in Nat BY <2>1 DEF readData
    <3>2. refused' \in BOOLEAN BY <2>1, Zenon DEF readData
    <3>3. QED BY <3>1, <3>2, GoesChanges DEF bufferVars
  <2>2. CASE testReady(r)
    <3>1. PICK line \in {"out", "copy", "lock"} : Goes(r, line)
          BY <2>2 DEF testReady
    <3>2. QED BY <2>2, <3>1, GoesChanges DEF bufferVars, testReady
  <2>3. CASE Take(r) BY <2>3, TakeChanges
  <2>4. CASE (Goes(r, "blocked") \/ Goes(r, "out")) /\ UNCHANGED <<wanted, refused>>
        BY <2>4, GoesChanges DEF bufferVars
  <2>5. QED BY <1>6, <2>1, <2>2, <2>3, <2>4
            DEF Read, readReady, waitReady, block, expireRead
<1>7. CASE UNCHANGED grabberVars BY <1>7 DEF grabberVars, readVars, bufferVars
<1>8. QED BY <1>1, <1>2, <1>3, <1>4, <1>5, <1>6, <1>7 DEF SGNext, SGSession

\* All variables keep their types.
THEOREM TypeCorrect == SGSpec => []SGTypeOK
BY TypedInit, TypedNext, PTL DEF SGSpec
-----------------------------------------------------------------------------
(***************************************************************************)
(* The lines of the readers.                                               *)
(***************************************************************************)
\* An asynchronous read does not wait; nobody waits beside a flag that is set; readers
\* that have all asked have something to come, or a sample of theirs was refused.
Lines ==
    /\ mode = "ASYNC" => \A r \in Readers : reader[r] \notin {"lock", "blocked"}
    /\ mReadyToRead => \A r \in Readers : reader[r] # "blocked"
    /\ mode = "PULL" /\ capturing /\ (\A r \in Readers : reader[r] # "out")
         => wanted > 0 \/ refused \/ mReadyToRead \/ \E r \in Readers : reader[r] = "copy"

LEMMA LinesNext == ASSUME SGTypeOK, Lines, [SGNext]_grabberVars PROVE Lines'
<1>. USE DEF SGTypeOK, Lines
<1>1. ASSUME NEW size \in 0 .. Capacity, writeData(size) PROVE Lines'
  <2>1. fill(size) /\ wake /\ UNCHANGED <<mode, taken, refused, capturing, shut>> BY <1>1 DEF writeData
  <2>2. \A r \in Readers : reader'[r] # "blocked" BY <2>1, WakeChanges
  <2>3. QED BY <2>1, <2>2, FillChanges, WakeChanges
<1>2. CASE startClock BY <1>2 DEF startClock, readVars, bufferVars
<1>3. CASE stopClock BY <1>3 DEF stopClock, readVars, bufferVars
<1>4. CASE Shutdown BY <1>4 DEF Shutdown, readVars, bufferVars
<1>5. CASE dropRequest \/ refuseSample BY <1>5 DEF dropRequest, refuseSample, readVars, bufferVars
<1>6. ASSUME NEW r \in Readers, Read(r) PROVE Lines'
  <2>1. CASE readData(r)
    <3>1. Goes(r, "test") /\ (mode = "PULL" => wanted' > 0) BY <2>1 DEF readData
    <3>2. QED BY <3>1, GoesChanges DEF bufferVars
  <2>2. CASE testReady(r)
    <3>1. PICK line \in {"out", "copy", "lock"} :
             /\ Goes(r, line) /\ (mReadyToRead => line = "copy")
             /\ mode = "ASYNC" => line # "lock"
          BY <2>2 DEF testReady
    <3>2. reader[r] = "test" /\ UNCHANGED <<wanted, refused>> BY <2>2 DEF testReady
    <3>3. QED BY <3>1, <3>2, GoesChanges DEF bufferVars
  <2>3. CASE Take(r) BY <2>3, TakeChanges
  <2>4. CASE block(r)
    <3>1. /\ Goes(r, "blocked") /\ UNCHANGED <<wanted, refused>>
          /\ reader[r] = "lock" /\ ~ mReadyToRead
          BY <2>4 DEF block
    <3>2. QED BY <3>1, GoesChanges DEF bufferVars
  <2>5. CASE Goes(r, "out") /\ UNCHANGED <<wanted, refused>>
        BY <2>5, GoesChanges DEF bufferVars
  <2>6. QED BY <1>6, <2>1, <2>2, <2>3, <2>4, <2>5
            DEF Read, readReady, waitReady, expireRead
<1>7. CASE UNCHANGED grabberVars BY <1>7 DEF grabberVars, readVars, bufferVars
<1>8. QED BY <1>1, <1>2, <1>3, <1>4, <1>5, <1>6, <1>7 DEF SGNext, SGSession

LEMMA LinesAlways == SGSpec => [](SGTypeOK /\ Lines)
<1>1. SGInit => Lines BY DEF SGInit, Lines
<1>2. QED BY TypedInit, TypedNext, <1>1, LinesNext, PTL DEF SGSpec

\* Nobody waits beside a sample that can be read.
THEOREM NoMissedWakeupCorrect == SGSpec => []NoMissedWakeup
<1>1. Lines => NoMissedWakeup BY DEF Lines, NoMissedWakeup, Blocked
<1>2. QED BY LinesAlways, <1>1, PTL

\* When all readers wait for a session that captures, a sample is on its way, unless one
\* was refused since the last of them began to read.
THEOREM SomeoneIsServedCorrect == SGSpec => []SomeoneIsServed
<1>1. SGTypeOK /\ Lines => SomeoneIsServed
      BY DEF SGTypeOK, Lines, SomeoneIsServed, Blocked
<1>2. QED BY LinesAlways, <1>1, PTL
-----------------------------------------------------------------------------
(***************************************************************************)
(* What the readers are given.                                             *)
(***************************************************************************)
\* The part of the buffer that counts is of the last sample.
Whole == \A b \in Bytes(Capacity) : b <= mImageByteSize => mData[b] = samples

\* What a reader has is of one sample.
Had == \A r \in Readers : \E n \in 0 .. samples :
          \A b \in Bytes(Capacity) : taken[r][b] \in {0, n}

\* Who may take the data has nothing of that sample yet.
Newer == \A r \in Readers : mReadyToRead \/ reader[r] = "copy" =>
            samples > 0 /\ \A b \in Bytes(Capacity) : taken[r][b] < samples

LEMMA WholeNext == ASSUME SGTypeOK, Whole, [SGNext]_grabberVars PROVE Whole'
<1>1. ASSUME NEW size \in 0 .. Capacity, writeData(size) PROVE Whole'
  <2>1. fill(size) BY <1>1 DEF writeData
  <2>2. QED BY <2>1, FillChanges DEF Whole
<1>2. ASSUME NEW r \in Readers, Read(r) PROVE UNCHANGED <<mData, mImageByteSize, samples>>
      BY <1>2 DEF Read, readData, testReady, readReady, waitReady, block, expireRead,
                  Goes, Take, bufferVars
<1>3. ASSUME startClock \/ stopClock \/ Shutdown \/ dropRequest \/ refuseSample \/ UNCHANGED grabberVars
      PROVE UNCHANGED <<mData, mImageByteSize, samples>>
      BY <1>3 DEF startClock, stopClock, Shutdown, dropRequest, refuseSample, grabberVars, bufferVars
<1>4. QED BY <1>1, <1>2, <1>3 DEF SGNext, SGSession, Whole

LEMMA HadNext == ASSUME SGTypeOK, Whole, Had, [SGNext]_grabberVars PROVE Had'
<1>. USE DEF SGTypeOK
<1>1. ASSUME NEW size \in 0 .. Capacity, writeData(size) PROVE Had'
  <2>1. fill(size) /\ taken' = taken BY <1>1 DEF writeData
  <2>2. samples' = samples + 1 BY <2>1, FillChanges
  <2>3. QED BY <2>1, <2>2 DEF Had
<1>2. ASSUME NEW r \in Readers, Take(r) PROVE Had'
  <2>1. \A b \in Bytes(Capacity) : taken'[r][b] \in {0, samples}
    <3>1. \A b \in Bytes(Capacity) :
             taken'[r][b] = IF b <= mImageByteSize THEN mData[b] ELSE 0
          BY <1>2, TakeChanges
    <3>2. \A b \in Bytes(Capacity) : b <= mImageByteSize => mData[b] = samples BY DEF Whole
    <3>3. QED BY <3>1, <3>2
  <2>2. samples' = samples BY <1>2, TakeChanges
  <2>3. \A q \in Readers \ {r} : taken'[q] = taken[q] BY <1>2, TakeChanges
  <2>4. samples \in 0 .. samples OBVIOUS
  <2>5. QED BY <2>1, <2>2, <2>3, <2>4 DEF Had
<1>3. ASSUME NEW r \in Readers, Read(r), ~ Take(r) PROVE UNCHANGED <<taken, samples>>
      BY <1>3 DEF Read, readData, testReady, readReady, waitReady, block, expireRead,
                  Goes, bufferVars
<1>4. ASSUME startClock \/ stopClock \/ Shutdown \/ dropRequest \/ refuseSample \/ UNCHANGED grabberVars
      PROVE UNCHANGED <<taken, samples>>
      BY <1>4 DEF startClock, stopClock, Shutdown, dropRequest, refuseSample, grabberVars, bufferVars,
                  readVars
<1>5. QED BY <1>1, <1>2, <1>3, <1>4 DEF SGNext, SGSession, Had

LEMMA NewerNext == ASSUME SGTypeOK, Had, Newer, [SGNext]_grabberVars PROVE Newer'
<1>. USE DEF SGTypeOK
<1>1. ASSUME NEW size \in 0 .. Capacity, writeData(size) PROVE Newer'
  <2>1. fill(size) /\ taken' = taken BY <1>1 DEF writeData
  <2>2. samples' = samples + 1 BY <2>1, FillChanges
  <2>3. \A r \in Readers : \A b \in Bytes(Capacity) : taken[r][b] <= samples BY DEF Had
  <2>4. QED BY <2>1, <2>2, <2>3 DEF Newer
<1>2. ASSUME NEW r \in Readers, Take(r) PROVE Newer'
  <2>1. /\ mReadyToRead' = FALSE /\ reader'[r] = "out" /\ samples' = samples
        /\ \A q \in Readers \ {r} :
              taken'[q] = taken[q] /\ (reader'[q] = "copy" => reader[q] = "copy")
        BY <1>2, TakeChanges
  <2>2. QED BY <2>1 DEF Newer
<1>3. ASSUME NEW r \in Readers, NEW line \in {"out", "test", "copy", "lock", "blocked"},
             Goes(r, line), line = "copy" => mReadyToRead
      PROVE  Newer'
  <2>1. \A q \in Readers \ {r} : reader'[q] = reader[q] BY <1>3, GoesChanges
  <2>2. reader'[r] = line /\ UNCHANGED <<taken, samples, mReadyToRead>>
        BY <1>3, GoesChanges DEF bufferVars
  <2>3. QED BY <1>3, <2>1, <2>2 DEF Newer
<1>4. ASSUME NEW r \in Readers, Read(r) PROVE Newer'
  <2>1. CASE testReady(r) BY <1>3, <2>1 DEF testReady
  <2>2. CASE readData(r) BY <1>3, <2>2 DEF readData
  <2>3. CASE block(r) BY <1>3, <2>3 DEF block
  <2>4. CASE Take(r) BY <1>2, <2>4
  <2>5. CASE Goes(r, "out") BY <1>3, <2>5
  <2>6. QED BY <1>4, <2>1, <2>2, <2>3, <2>4, <2>5
            DEF Read, readReady, waitReady, expireRead
<1>5. ASSUME startClock \/ stopClock \/ Shutdown \/ dropRequest \/ refuseSample \/ UNCHANGED grabberVars
      PROVE UNCHANGED <<taken, samples, reader, mReadyToRead>>
      BY <1>5 DEF startClock, stopClock, Shutdown, dropRequest, refuseSample, grabberVars, bufferVars,
                  readVars
<1>6. QED BY <1>1, <1>4, <1>5 DEF SGNext, SGSession, Newer

Given == SGTypeOK /\ Whole /\ Had /\ Newer

LEMMA GivenAlways == SGSpec => []Given
<1>1. SGInit => Given
  <2>. SUFFICES ASSUME SGInit PROVE Given OBVIOUS
  <2>1. Whole BY DEF SGInit, Whole
  <2>2. Had
    <3>1. 0 \in 0 .. samples BY DEF SGInit
    <3>2. QED BY <3>1 DEF SGInit, Had
  <2>3. Newer BY DEF SGInit, Newer
  <2>4. QED BY <2>1, <2>2, <2>3, TypedInit DEF Given
<1>2. Given /\ [SGNext]_grabberVars => Given'
      BY TypedNext, WholeNext, HadNext, NewerNext DEF Given
<1>3. QED BY <1>1, <1>2, PTL DEF SGSpec

\* All bytes that a read returns are of one sample, whatever the lengths of the samples.
THEOREM OneSampleCorrect == SGSpec => []OneSample
<1>1. ASSUME SGTypeOK, Had, NEW r \in Readers PROVE Cardinality(SampleOf(r)) <= 1
  <2>1. PICK n \in 0 .. samples : \A b \in Bytes(Capacity) : taken[r][b] \in {0, n}
        BY <1>1 DEF Had
  <2>2. SampleOf(r) \subseteq {n} BY <1>1, <2>1 DEF SampleOf, SGTypeOK
  <2>3. CASE SampleOf(r) = {} BY <2>3, FS_EmptySet
  <2>4. CASE SampleOf(r) = {n} BY <2>4, FS_Singleton
  <2>5. QED BY <2>2, <2>3, <2>4
<1>2. Given => OneSample BY <1>1 DEF Given, OneSample
<1>3. QED BY GivenAlways, <1>2, PTL

\* No reader is given a sample twice or an older one after a newer.
THEOREM NeverBackwardsCorrect == SGSpec => NeverBackwards
<1>1. ASSUME Given, [SGNext]_grabberVars, NEW r \in Readers, Takes(r),
             NEW old \in SampleOf(r), NEW new \in SampleOf(r)'
      PROVE  old < new
  <2>1. Take(r)
    <3>1. reader'[r] # reader[r] BY <1>1 DEF Takes
    <3>2. \A q \in Readers : Take(q) /\ q # r => Take(r)
          BY <1>1, <3>1, TakeChanges DEF Takes, Given
    <3>3. \A q \in Readers, line \in {"out", "test", "copy", "lock", "blocked"} :
             Goes(q, line) => q = r /\ line = "out"
          BY <1>1, <3>1, GoesChanges DEF Takes, Given
    <3>4. \A q \in Readers : Read(q) => Take(r)
          BY <1>1, <3>2, <3>3 DEF Takes, Read, readData, testReady, readReady, waitReady,
                                  block, expireRead
    <3>5. ASSUME NEW size \in 0 .. Capacity, writeData(size) PROVE FALSE
      <4>1. wake BY <3>5 DEF writeData
      <4>2. QED BY <1>1, <3>1, <4>1, WakeChanges DEF Takes, Given
    <3>6. ~ (startClock \/ stopClock \/ Shutdown \/ dropRequest \/ refuseSample \/ UNCHANGED grabberVars)
          BY <3>1 DEF startClock, stopClock, Shutdown, dropRequest, refuseSample, grabberVars, readVars
    <3>7. QED BY <1>1, <3>4, <3>5, <3>6 DEF SGNext, SGSession
  <2>2. mReadyToRead \/ reader[r] = "copy" BY <1>1 DEF Takes
  <2>8. DOMAIN taken[r] = Bytes(Capacity) /\ DOMAIN taken'[r] = Bytes(Capacity)
    <3>1. SGTypeOK /\ SGTypeOK' BY <1>1, TypedNext DEF Given
    <3>2. QED BY <3>1 DEF SGTypeOK
  <2>3. PICK b \in Bytes(Capacity) : old = taken[r][b]
    <3>1. old \in {taken[r][b] : b \in DOMAIN taken[r]} BY <1>1 DEF SampleOf
    <3>2. QED BY <2>8, <3>1
  <2>4. old < samples BY <1>1, <2>2, <2>3 DEF Given, Newer
  <2>5. PICK c \in Bytes(Capacity) : new = taken'[r][c] /\ new # 0
    <3>1. new \in {taken'[r][c] : c \in DOMAIN taken'[r]} /\ new # 0
          BY <1>1 DEF SampleOf
    <3>2. QED BY <2>8, <3>1
  <2>6. new = samples BY <1>1, <2>1, <2>5, TakeChanges DEF Given, Whole
  <2>7. QED BY <2>4, <2>6
<1>2. Given /\ [SGNext]_grabberVars =>
         [\A r \in Readers : Takes(r) =>
             \A old \in SampleOf(r), new \in SampleOf(r)' : old < new]_grabberVars
      BY <1>1
<1>3. QED BY GivenAlways, <1>2, PTL DEF SGSpec, NeverBackwards
=============================================================================
