------------------------- MODULE AudioEndpointCapture -------------------------
(***************************************************************************)
(* A source of sound that a device plays (AudioEndpointCaptureProcessor),  *)
(* with the thread that calls it again and again (CaptureInvoker).         *)
(*                                                                         *)
(* The thread takes packets from the audio client into a buffer, queues    *)
(* the buffers that are full and wakes, once in a period, the thread that  *)
(* waits for a sample.  start, stop, pause and shutdown hold a mutex, and  *)
(* stop, pause and shutdown join the thread in it.  The thread reads       *)
(* mState without that mutex.  restart is start in a state that is paused. *)
(*                                                                         *)
(* CaptureSource, which makes all the calls, holds its own mMutex over     *)
(* each of them, and over getNewSample: a method begins when no thread is  *)
(* in getNewSample, and the other way round.                               *)
(*                                                                         *)
(* Each audio client has a number; a unit of sound is the number of the    *)
(* client that it came from.                                               *)
(***************************************************************************)
EXTENDS Naturals, Sequences

CONSTANTS
    BufferSize,  \* mExpectedBufferSize, in units
    QueueSize,   \* buffers that are kept: 5 in the code
    MaxClients,  \* bound on the audio clients
    MaxMethods   \* bound on the calls of start, stop, pause and shutdown

ASSUME EndpointAssumption ==
    /\ BufferSize \in Nat \ {0} /\ QueueSize \in Nat \ {0}
    /\ MaxClients \in Nat /\ MaxMethods \in Nat

VARIABLES
    mState,
    mAudioClient,           \* 0: none
    clients,                \* clients that there have been
    mCaptureInvokerState,   \* "Started" or "Stopped"
    thread,                 \* "none", "loop", "enter", "lock", "body", "packet", "leave",
                            \* or "done" and not joined
    mFirstInvoke, mReleaseAudioClientLock,
    mSilenceBlock, mIsSilenceBlock,
    mCurrentMediaBuffer, mBufferQueue,
    method, line,           \* of the thread that holds the mutex: "none"
    methods,
    getter,                 \* getNewSample: "out", "waiting", "woken", "check"
    wokenBy,                \* the client there was when it woke
    sample                  \* the buffer that it took

methodVars  == <<method, line, methods>>
clientVars  == <<mState, mAudioClient, clients>>
invokerVars == <<mCaptureInvokerState, thread, mFirstInvoke, mReleaseAudioClientLock>>
silenceVars == <<mSilenceBlock, mIsSilenceBlock>>
soundVars   == <<mCurrentMediaBuffer, mBufferQueue>>
getterVars  == <<getter, wokenBy, sample>>
endpointVars ==
    <<methodVars, clientVars, invokerVars, silenceVars, soundVars, getterVars>>

AEInit ==
    /\ mState = "Initialized" /\ mAudioClient = 0 /\ clients = 0
    /\ mCaptureInvokerState = "Stopped" /\ thread = "none"
    /\ mFirstInvoke = TRUE /\ mReleaseAudioClientLock = FALSE
    /\ mSilenceBlock = FALSE /\ mIsSilenceBlock = FALSE
    /\ mCurrentMediaBuffer = <<>> /\ mBufferQueue = <<>>
    /\ method = "none" /\ line = "none" /\ methods = 0
    /\ getter = "out" /\ wokenBy = 0 /\ sample = <<>>
-----------------------------------------------------------------------------
(***************************************************************************)
(* The thread of CaptureInvoker.                                           *)
(***************************************************************************)
loop ==
    /\ thread = "loop"
    /\ thread' = IF mCaptureInvokerState = "Started" THEN "enter" ELSE "done"
    /\ UNCHANGED <<methodVars, clientVars, mCaptureInvokerState, mFirstInvoke,
                   mReleaseAudioClientLock, silenceVars, soundVars, getterVars>>

enterInvoke ==
    /\ thread = "enter"
    /\ thread' = IF mState = "Started" THEN "lock" ELSE "leave"
    /\ UNCHANGED <<methodVars, clientVars, mCaptureInvokerState, mFirstInvoke,
                   mReleaseAudioClientLock, silenceVars, soundVars, getterVars>>

lockClient ==
    /\ thread = "lock" /\ thread' = "body"
    /\ mReleaseAudioClientLock' = TRUE
    /\ UNCHANGED <<methodVars, clientVars, mCaptureInvokerState, mFirstInvoke,
                   silenceVars, soundVars, getterVars>>

firstInvoke ==
    /\ thread = "body" /\ mFirstInvoke
    /\ thread' = "leave" /\ mFirstInvoke' = FALSE
    /\ UNCHANGED <<methodVars, clientVars, mCaptureInvokerState,
                   mReleaseAudioClientLock, silenceVars, soundVars, getterVars>>

\* Nothing is kept for a getter that does not wait at that moment.
newSample ==
    /\ mIsSilenceBlock' = mSilenceBlock /\ mSilenceBlock' = TRUE
    /\ IF getter = "waiting"
       THEN getter' = "woken" /\ wokenBy' = clients
       ELSE UNCHANGED <<getter, wokenBy>>

invokeBody ==
    /\ thread = "body" /\ ~ mFirstInvoke
    /\ thread' = "packet"
    /\ newSample \/ UNCHANGED <<silenceVars, getter, wokenBy>>
    /\ UNCHANGED <<methodVars, clientVars, mCaptureInvokerState, mFirstInvoke,
                   mReleaseAudioClientLock, soundVars, sample>>

Suffix(s, n) == SubSeq(s, Len(s) - n + 1, Len(s))

\* Buffers are queued one by one, the oldest giving way to a new one: the last ones
\* are kept.
pushMediaBuffer(buffers) ==
    LET all == mBufferQueue \o buffers
    IN  IF Len(all) <= QueueSize THEN all ELSE Suffix(all, QueueSize)

\* The units fill the buffer; a buffer that is full is queued, and a new one begun.
writeAudioBuffer(units) ==
    LET sound == mCurrentMediaBuffer \o [u \in 1 .. units |-> mAudioClient]
        full  == Len(sound) \div BufferSize
    IN  /\ mBufferQueue' = pushMediaBuffer(
               [i \in 1 .. full |-> SubSeq(sound, (i - 1) * BufferSize + 1, i * BufferSize)])
        /\ mCurrentMediaBuffer' = Suffix(sound, Len(sound) % BufferSize)

\* No packet, one that is marked silent, or one with sound.
readPacket ==
    /\ thread = "packet" /\ thread' = "leave"
    /\ \/ UNCHANGED <<silenceVars, soundVars>>
       \/ mSilenceBlock' = TRUE /\ UNCHANGED <<mIsSilenceBlock, soundVars>>
       \/ \E units \in 1 .. BufferSize + 1 :
            /\ writeAudioBuffer(units)
            /\ mSilenceBlock' = FALSE /\ UNCHANGED mIsSilenceBlock
    /\ UNCHANGED <<methodVars, clientVars, mCaptureInvokerState, mFirstInvoke,
                   mReleaseAudioClientLock, getterVars>>

\* Mutant of leaveInvoke: the flag stays set.
leaveInvoke_KeepsLock ==
    /\ thread = "leave" /\ thread' = "loop"
    /\ UNCHANGED <<methodVars, clientVars, mCaptureInvokerState, mFirstInvoke,
                   mReleaseAudioClientLock, silenceVars, soundVars, getterVars>>

leaveInvoke ==
    /\ thread = "leave" /\ thread' = "loop"
    /\ mReleaseAudioClientLock' = FALSE
    /\ UNCHANGED <<methodVars, clientVars, mCaptureInvokerState, mFirstInvoke,
                   silenceVars, soundVars, getterVars>>

Invoker ==
    \/ loop \/ enterInvoke \/ lockClient \/ firstInvoke \/ invokeBody
    \/ readPacket \/ leaveInvoke
-----------------------------------------------------------------------------
(***************************************************************************)
(* start.                                                                  *)
(***************************************************************************)
Enter(m, l) ==
    /\ method = "none" /\ getter = "out" /\ methods < MaxMethods
    /\ method' = m /\ line' = l /\ methods' = methods + 1

OnLine(m, l) == method = m /\ line = l
ToLine(l)  == line' = l /\ UNCHANGED <<method, methods>>
ReturnMethod   == method' = "none" /\ line' = "none" /\ UNCHANGED methods

\* A start that finds the source unusable, or started, changes nothing.
startEndpoint ==
    /\ mState \in {"Initialized", "Stopped", "Paused"}
    /\ Enter("start", IF mState = "Paused" THEN "invoker" ELSE "client")
    /\ mFirstInvoke' = TRUE /\ mBufferQueue' = <<>>
    /\ mState' = IF mState = "Paused" THEN "Started" ELSE mState
    /\ UNCHANGED <<mAudioClient, clients, mCaptureInvokerState, thread,
                   mReleaseAudioClientLock, silenceVars, mCurrentMediaBuffer, getterVars>>

\* The client that was there is overwritten.
initializeAudioClient ==
    /\ OnLine("start", "client") /\ clients < MaxClients
    /\ ToLine("allocate")
    /\ clients' = clients + 1 /\ mAudioClient' = clients'
    /\ UNCHANGED <<mState, invokerVars, silenceVars, soundVars, getterVars>>

initializeFails ==
    /\ OnLine("start", "client") /\ ReturnMethod
    /\ mState' = "Uninitialized"
    /\ UNCHANGED <<mAudioClient, clients, invokerVars, silenceVars, soundVars, getterVars>>

\* Mutant of allocateBuffer: the buffer goes on from where it was.
allocateBuffer_GoesOn ==
    /\ OnLine("start", "allocate") /\ ToLine("invoker")
    /\ UNCHANGED <<clientVars, invokerVars, silenceVars, soundVars, getterVars>>

allocateBuffer ==
    /\ OnLine("start", "allocate") /\ ToLine("invoker")
    /\ mCurrentMediaBuffer' = <<>>
    /\ UNCHANGED <<clientVars, invokerVars, silenceVars, mBufferQueue, getterVars>>

\* A service or the buffer is not to be had: the client is left.
allocateFails ==
    /\ OnLine("start", "allocate") /\ ReturnMethod
    /\ UNCHANGED <<clientVars, invokerVars, silenceVars, soundVars, getterVars>>

\* The result of CaptureInvoker::start is not looked at: there may be no thread.
startInvoker ==
    /\ OnLine("start", "invoker") /\ ToLine("started")
    /\ \/ mCaptureInvokerState' = "Started" /\ thread' = "loop"
       \/ UNCHANGED <<mCaptureInvokerState, thread>>
    /\ UNCHANGED <<clientVars, mFirstInvoke, mReleaseAudioClientLock, silenceVars,
                   soundVars, getterVars>>

\* The start of the client may fail, and the source is started none the less.
startClient ==
    /\ OnLine("start", "started") /\ ReturnMethod
    /\ mState' = "Started"
    /\ UNCHANGED <<mAudioClient, clients, invokerVars, silenceVars, soundVars, getterVars>>
-----------------------------------------------------------------------------
(***************************************************************************)
(* stop, pause and shutdown.                                               *)
(***************************************************************************)
\* Mutant of stopInvoker: the thread of a source that is paused goes on.
stopInvoker_NotPause(m) ==
    /\ Enter(m, IF m = "pause" THEN "joined" ELSE "join")
    /\ IF m = "pause" THEN UNCHANGED mCaptureInvokerState ELSE mCaptureInvokerState' = "Stopped"

\* A thread that is not started is not joined.
stopInvoker(m) ==
    /\ Enter(m, IF mCaptureInvokerState = "Started" THEN "join" ELSE "joined")
    /\ mCaptureInvokerState' = "Stopped"

Leaves ==
    /\ \/ stopInvoker("stop")
       \/ mState = "Started" /\ mAudioClient # 0 /\ stopInvoker("pause")
       \/ mState \notin {"Uninitialized", "Shutdown"} /\ stopInvoker("shutdown")
    /\ UNCHANGED <<clientVars, thread, mFirstInvoke, mReleaseAudioClientLock,
                   silenceVars, soundVars, getterVars>>

\* Mutant of join: the thread is not waited for.
join_NotWaited ==
    /\ line = "join" /\ ToLine("joined")
    /\ UNCHANGED <<clientVars, invokerVars, silenceVars, soundVars, getterVars>>

join ==
    /\ line = "join" /\ thread \in {"none", "done"}
    /\ thread' = "none" /\ ToLine("joined")
    /\ UNCHANGED <<clientVars, mCaptureInvokerState, mFirstInvoke,
                   mReleaseAudioClientLock, silenceVars, soundVars, getterVars>>

stopEndpoint ==
    /\ OnLine("stop", "joined")
    /\ IF mState \in {"Started", "Paused"} /\ mAudioClient # 0
       THEN mState' = "Stopped" /\ ToLine("release")
       ELSE UNCHANGED mState /\ ReturnMethod
    /\ UNCHANGED <<mAudioClient, clients, invokerVars, silenceVars, soundVars, getterVars>>

pauseEndpoint ==
    /\ OnLine("pause", "joined") /\ ReturnMethod
    /\ mState' = "Paused"
    /\ UNCHANGED <<mAudioClient, clients, invokerVars, silenceVars, soundVars, getterVars>>

shutdownEndpoint ==
    /\ OnLine("shutdown", "joined") /\ ToLine("release")
    /\ UNCHANGED <<clientVars, invokerVars, silenceVars, soundVars, getterVars>>

releaseAudioClient ==
    /\ line = "release" /\ ~ mReleaseAudioClientLock /\ ReturnMethod
    /\ mAudioClient' = 0
    /\ mState' = IF method = "shutdown" THEN "Shutdown" ELSE mState
    /\ UNCHANGED <<clients, invokerVars, silenceVars, soundVars, getterVars>>

Method ==
    \/ initializeAudioClient \/ initializeFails \/ allocateBuffer \/ allocateFails
    \/ startInvoker \/ startClient
    \/ join \/ stopEndpoint \/ pauseEndpoint \/ shutdownEndpoint \/ releaseAudioClient
-----------------------------------------------------------------------------
(***************************************************************************)
(* getNewSample, called by CaptureSource::requestSample while the source   *)
(* is started.                                                             *)
(***************************************************************************)
getNewSample ==
    /\ getter = "out" /\ method = "none" /\ mState = "Started"
    /\ getter' = "waiting"
    /\ UNCHANGED <<methodVars, clientVars, invokerVars, silenceVars, soundVars,
                   wokenBy, sample>>

\* The wait has no predicate: it may end though nobody has notified it.
wake_spuriously ==
    /\ getter = "waiting" /\ getter' = "woken" /\ wokenBy' = clients
    /\ UNCHANGED <<methodVars, clientVars, invokerVars, silenceVars, soundVars, sample>>

\* Four seconds have passed.
expireWait ==
    /\ getter = "waiting" /\ getter' = "out"
    /\ UNCHANGED <<methodVars, clientVars, invokerVars, silenceVars, soundVars,
                   wokenBy, sample>>

\* An empty queue gives a blank buffer; a buffer is blanked if the last period was
\* silent, however old the buffer is.
popMediaBuffer ==
    /\ getter = "woken" /\ getter' = "check"
    /\ IF mBufferQueue = <<>>
       THEN sample' = <<>> /\ UNCHANGED mBufferQueue
       ELSE /\ mBufferQueue' = Tail(mBufferQueue)
            /\ sample' = IF mIsSilenceBlock THEN <<>> ELSE Head(mBufferQueue)
    /\ UNCHANGED <<methodVars, clientVars, invokerVars, silenceVars,
                   mCurrentMediaBuffer, wokenBy>>

\* A source that has been stopped delivers nothing.
checkStopped ==
    /\ getter = "check" /\ getter' = "out"
    /\ sample' = IF mState = "Stopped" THEN <<>> ELSE sample
    /\ UNCHANGED <<methodVars, clientVars, invokerVars, silenceVars, soundVars, wokenBy>>

Getter == getNewSample \/ wake_spuriously \/ expireWait \/ popMediaBuffer \/ checkStopped

AENext == startEndpoint \/ Leaves \/ Method \/ Invoker \/ Getter

\* The thread of the source and the thread of a call run.
AEFairness == WF_endpointVars(Method) /\ WF_endpointVars(Invoker)

AESpec == AEInit /\ [][AENext]_endpointVars
-----------------------------------------------------------------------------
(***************************************************************************)
(* Properties.                                                             *)
(***************************************************************************)
AETypeOK ==
    /\ mState \in {"Uninitialized", "Initialized", "Started", "Paused", "Stopped", "Shutdown"}
    /\ mAudioClient \in 0 .. clients /\ clients \in Nat
    /\ mCaptureInvokerState \in {"Started", "Stopped"}
    /\ thread \in {"none", "loop", "enter", "lock", "body", "packet", "leave", "done"}
    /\ mFirstInvoke \in BOOLEAN /\ mReleaseAudioClientLock \in BOOLEAN
    /\ mSilenceBlock \in BOOLEAN /\ mIsSilenceBlock \in BOOLEAN
    /\ mCurrentMediaBuffer \in Seq(1 .. clients) /\ mBufferQueue \in Seq(Seq(1 .. clients))
    /\ method \in {"none", "start", "stop", "pause", "shutdown"}
    /\ line \in {"none", "client", "allocate", "invoker", "started", "join", "joined",
                 "release"}
    /\ getter \in {"out", "waiting", "woken", "check"}
    /\ wokenBy \in 0 .. clients /\ sample \in Seq(1 .. clients)

\* The client is there whenever the thread uses it.
ClientAlive == thread = "packet" => mAudioClient # 0

\* A thread is never replaced before it has been joined, which would end the program.
NeverTerminated == OnLine("start", "invoker") => thread = "none"

\* A getter that wakes while a new client is there, of itself or by the thread, is given
\* no sound of an earlier one, neither in a buffer of its own nor at the beginning of another.
NothingFromBefore == \A u \in 1 .. Len(sample) : getter = "check" => sample[u] >= wokenBy

\* Each call returns: the joins and the waits in it end.
MethodsReturn == (method # "none") ~> (method = "none")
=============================================================================
