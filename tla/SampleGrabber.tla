---------------------------- MODULE SampleGrabber ----------------------------
(***************************************************************************)
(* The buffer through which an application takes samples out of a session  *)
(* (ReadWriteBuffer, its synchronous and asynchronous variants, and the    *)
(* stream sink of the mode PULL that is a synchronous one).                *)
(*                                                                         *)
(* Readers look at mReadyToRead without the mutex, and take the data under *)
(* it.  What is copied, into the buffer or out of it, sets the size of the *)
(* buffer.  In the mode PULL each read asks for a sample first; the other  *)
(* modes sit behind the sample grabber of Media Foundation, which asks by  *)
(* itself.                                                                 *)
(*                                                                         *)
(* Samples are numbered in the order in which they are written.            *)
(***************************************************************************)
EXTENDS Integers, FiniteSets

CONSTANTS
    Readers,     \* threads of the application that read
    Capacity,    \* aSampleByteSize: the size of the buffer at first
    MaxSamples,  \* bound on the samples written
    MaxRequests  \* bound on the requests that have not been answered

ASSUME GrabberAssumption ==
    Readers # {} /\ Capacity \in Nat \ {0} /\ MaxSamples \in Nat /\ MaxRequests \in Nat

VARIABLES
    mode,            \* aReadMode, for good
    mData,           \* of each byte: the sample that it is of, 0 if none
    mImageByteSize,
    mReadyToRead,
    reader,          \* the line of readData: "out", "test" (before the flag is looked
                     \* at), "copy" (it was set), "lock" (it was not), or "blocked"
    taken,           \* what a reader's last successful read returned
    samples,         \* samples written
    wanted,          \* PULL: requests that have not been answered
    refused,         \* PULL, history: a sample was refused since a read last began
    capturing,
    shut             \* PULL: the event queue is gone

readVars    == <<reader, taken>>
bufferVars  == <<mData, mImageByteSize, mReadyToRead, samples>>
grabberVars == <<mode, readVars, bufferVars, wanted, refused, capturing, shut>>

Bytes(n) == 1 .. n

SGTypeOK ==
    /\ mode \in {"SYNC", "ASYNC", "PULL"}
    /\ mData \in [Bytes(Capacity) -> Nat] /\ mImageByteSize \in 0 .. Capacity
    /\ mReadyToRead \in BOOLEAN
    /\ reader \in [Readers -> {"out", "test", "copy", "lock", "blocked"}]
    /\ taken \in [Readers -> [Bytes(Capacity) -> Nat]]
    /\ samples \in Nat /\ wanted \in Nat /\ refused \in BOOLEAN
    /\ capturing \in BOOLEAN /\ shut \in BOOLEAN

SGInit ==
    /\ mode \in {"SYNC", "ASYNC", "PULL"}
    /\ mData = [b \in Bytes(Capacity) |-> 0] /\ mImageByteSize = Capacity
    /\ mReadyToRead = FALSE
    /\ reader = [r \in Readers |-> "out"]
    /\ taken = [r \in Readers |-> mData]
    /\ samples = 0 /\ wanted = 0 /\ refused = FALSE /\ capturing = FALSE /\ shut = FALSE
-----------------------------------------------------------------------------
(***************************************************************************)
(* The session and the thread that delivers samples.                       *)
(***************************************************************************)
Blocked == {r \in Readers : reader[r] = "blocked"}

\* A thread that waits looks at the flag again.
NotifyAll == reader' = [r \in Readers |-> IF r \in Blocked THEN "lock" ELSE reader[r]]

Smaller(a, b) == IF a < b THEN a ELSE b

\* Mutant of fill: the size of the buffer stays what it was.
fill_KeepsSize(size) ==
    /\ samples' = samples + 1
    /\ mData' = [b \in DOMAIN mData |-> IF b <= size THEN samples' ELSE mData[b]]
    /\ mReadyToRead' = TRUE
    /\ UNCHANGED mImageByteSize

\* A sample that is longer than the buffer is cut.
fill(size) ==
    /\ samples' = samples + 1
    /\ mImageByteSize' = Smaller(size, mImageByteSize)
    /\ mData' = [b \in DOMAIN mData |-> IF b <= mImageByteSize' THEN samples' ELSE mData[b]]
    /\ mReadyToRead' = TRUE

\* Mutant of wake: a sample does not wake anybody.
wake_Nobody == UNCHANGED reader

wake == IF mode = "ASYNC" THEN UNCHANGED reader ELSE NotifyAll

writeData(size) ==
    /\ capturing /\ samples < MaxSamples
    /\ mode = "PULL" => wanted > 0
    /\ wanted' = IF mode = "PULL" THEN wanted - 1 ELSE wanted
    /\ fill(size) /\ wake
    /\ UNCHANGED <<mode, taken, refused, capturing, shut>>

\* ProcessSample returns before writeData for a sample without a time or a duration, of
\* more buffers than one, or that cannot be locked: the request is used up, nobody is
\* woken and none is made anew.  A source that fails to deliver does the same.
refuseSample ==
    /\ capturing /\ mode = "PULL" /\ wanted > 0
    /\ wanted' = wanted - 1 /\ refused' = TRUE
    /\ UNCHANGED <<mode, readVars, bufferVars, capturing, shut>>

\* Mutant of startClock: the start is not announced.
startClock_Silent ==
    /\ ~ capturing /\ ~ shut /\ capturing' = TRUE
    /\ UNCHANGED <<mode, readVars, bufferVars, wanted, refused, shut>>

\* The pipeline takes MEStreamSinkStarted for a request; when it goes on after a pause
\* it asks the sources for one sample itself.
startClock ==
    /\ ~ capturing /\ ~ shut /\ capturing' = TRUE
    /\ wanted < MaxRequests /\ wanted' = IF mode = "PULL" THEN wanted + 1 ELSE wanted
    /\ UNCHANGED <<mode, readVars, bufferVars, refused, shut>>

stopClock ==
    /\ capturing /\ capturing' = FALSE
    /\ UNCHANGED <<mode, readVars, bufferVars, wanted, refused, shut>>

Shutdown ==
    /\ ~ capturing /\ ~ shut /\ shut' = TRUE
    /\ UNCHANGED <<mode, readVars, bufferVars, wanted, refused, capturing>>

\* A source that is not started drops a request, and the gate the sample that answers it,
\* while the session does not capture.
dropRequest ==
    /\ ~ capturing /\ wanted > 0 /\ wanted' = wanted - 1
    /\ UNCHANGED <<mode, readVars, bufferVars, refused, capturing, shut>>
-----------------------------------------------------------------------------
(***************************************************************************)
(* readData, by several threads of the application at a time.              *)
(***************************************************************************)
\* Mutant of copy: the flag stays set.
copy_KeepsFlag(r) ==
    /\ taken' = [taken EXCEPT ![r] = [b \in DOMAIN mData |->
                     IF b <= mImageByteSize THEN mData[b] ELSE 0]]
    /\ UNCHANGED mReadyToRead

\* The bytes that are beyond the size stay as the caller had them (0 here).
copy(r) ==
    /\ taken' = [taken EXCEPT ![r] = [b \in DOMAIN mData |->
                     IF b <= mImageByteSize THEN mData[b] ELSE 0]]
    /\ mReadyToRead' = FALSE

\* The synchronous copy out of the buffer notifies as well.
Take(r) ==
    /\ copy(r)
    /\ reader' = [q \in Readers |->
                    IF q = r THEN "out"
                    ELSE IF mode # "ASYNC" /\ q \in Blocked THEN "lock" ELSE reader[q]]
    /\ UNCHANGED <<mode, mData, mImageByteSize, samples, wanted, refused, capturing, shut>>

Goes(r, line) ==
    /\ reader' = [reader EXCEPT ![r] = line]
    /\ UNCHANGED <<mode, taken, bufferVars, capturing, shut>>

readData(r) ==
    /\ reader[r] = "out" /\ ~ (mode = "PULL" /\ shut)
    /\ wanted < MaxRequests /\ wanted' = IF mode = "PULL" THEN wanted + 1 ELSE wanted
    /\ refused' = FALSE /\ Goes(r, "test")

\* Without the mutex.  An asynchronous read that finds nothing returns.
testReady(r) ==
    /\ reader[r] = "test"
    /\ Goes(r, IF mReadyToRead THEN "copy" ELSE IF mode = "ASYNC" THEN "out" ELSE "lock")
    /\ UNCHANGED <<wanted, refused>>

\* The flag is not looked at again.
readReady(r) == reader[r] = "copy" /\ Take(r)

waitReady(r) == reader[r] = "lock" /\ mReadyToRead /\ Take(r)

block(r) ==
    /\ reader[r] = "lock" /\ ~ mReadyToRead
    /\ Goes(r, "blocked") /\ UNCHANGED <<wanted, refused>>

\* CONTEXT_E_SYNCH_TIMEOUT after a second, unless the flag is set at that moment.
expireRead(r) ==
    /\ reader[r] = "blocked"
    /\ IF mReadyToRead THEN Take(r) ELSE Goes(r, "out") /\ UNCHANGED <<wanted, refused>>

Read(r) ==
    \/ readData(r) \/ testReady(r) \/ readReady(r) \/ waitReady(r)
    \/ block(r) \/ expireRead(r)

SGSession ==
    startClock \/ stopClock \/ Shutdown \/ dropRequest \/ refuseSample
      \/ \E size \in 0 .. Capacity : writeData(size)

SGNext == SGSession \/ \E r \in Readers : Read(r)

SGSpec == SGInit /\ [][SGNext]_grabberVars
-----------------------------------------------------------------------------
(***************************************************************************)
(* Properties.                                                             *)
(***************************************************************************)
SampleOf(r) == {taken[r][b] : b \in DOMAIN taken[r]} \ {0}

\* What a reader gets is of one sample, though samples differ in length and are
\* written over the older ones.
OneSample == \A r \in Readers : Cardinality(SampleOf(r)) <= 1

Takes(r) ==
    /\ reader[r] \in {"copy", "lock", "blocked"} /\ reader'[r] = "out"
    /\ reader[r] = "copy" \/ mReadyToRead

\* No reader is given a sample a second time or one older than it had, in whichever
\* order readers and samples meet between the test of the flag and the copy.
NeverBackwards ==
    [][\A r \in Readers : Takes(r) =>
          \A old \in SampleOf(r), new \in SampleOf(r)' : old < new]_grabberVars

\* Nobody waits beside a sample that can be read.
NoMissedWakeup == mReadyToRead => Blocked = {}

\* When all readers wait for a session that captures, a sample is on its way, though
\* one reader may have taken the sample that another asked for, and though requests
\* made during a pause are lost; unless a sample was refused since the last of them
\* began to read, whom then only the end of a wait can help.
SomeoneIsServed ==
    mode = "PULL" /\ capturing /\ Blocked = Readers => wanted > 0 \/ refused
=============================================================================
