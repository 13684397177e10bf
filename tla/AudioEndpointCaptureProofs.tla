---------------------- MODULE AudioEndpointCaptureProofs ----------------------
(***************************************************************************)
(* Proofs about AudioEndpointCapture, for buffers and queues of any length *)
(* and any number of clients and calls.                                    *)
(*                                                                         *)
(* A thread is there only while the invoker is Started or a method joins   *)
(* it (Joined), and an invoker is Started only from a start to the next    *)
(* stop, pause or shutdown (Stopped).  The client is let go after a join   *)
(* only, so that it is there for the thread (Held).                        *)
(*                                                                         *)
(* While a client is used, all sound that is kept is its own (Fresh): each *)
(* start empties the queue, and one that makes a client also the buffer,   *)
(* before there is a thread.  No method runs beside a getter (Undisturbed).*)
(***************************************************************************)
EXTENDS AudioEndpointCapture, SequenceTheorems, TLAPS

USE EndpointAssumption

Starts == {"client", "allocate", "invoker", "started"}
Ends   == {"join", "joined", "release"}

\* The lines that belong to a method.
Lines ==
    /\ clients \in Nat /\ mCaptureInvokerState \in {"Started", "Stopped"}
    /\ line \in {"none"} \cup Starts \cup Ends
    /\ line = "none" <=> method = "none"
    /\ line \in Starts <=> method = "start"
    /\ line = "release" => method = "shutdown" \/ (method = "stop" /\ mState = "Stopped")

Joined == mCaptureInvokerState = "Stopped" /\ line # "join" => thread = "none"

Stopped ==
    /\ line \in (Starts \ {"started"}) \cup Ends => mCaptureInvokerState = "Stopped"
    /\ line = "none" /\ mState # "Started" => mCaptureInvokerState = "Stopped"

Held ==
    /\ thread # "none" \/ mState \in {"Started", "Paused"} => mAudioClient # 0
    /\ line \in Starts \ {"client"} \/ method = "pause" => mAudioClient # 0

Safe == Lines /\ Joined /\ Stopped /\ Held

LEMMA SafeInit == AEInit => Safe
BY DEF AEInit, Safe, Lines, Joined, Stopped, Held, Starts, Ends

\* The thread leaves the methods, the client and the state of the invoker alone, and
\* is not there before it has been started.
LEMMA SafeInvoker == ASSUME Safe, Invoker PROVE Safe'
<1>1. thread # "none" /\ thread' # "none" /\ UNCHANGED <<methodVars, clientVars, mCaptureInvokerState>>
      BY DEF Invoker, loop, enterInvoke, lockClient, firstInvoke, invokeBody, readPacket,
             leaveInvoke
<1>2. QED BY <1>1 DEF Safe, Lines, Joined, Stopped, Held, methodVars, clientVars

LEMMA SafeGetter == ASSUME Safe, Getter PROVE Safe'
<1>1. UNCHANGED <<methodVars, clientVars, invokerVars>>
      BY DEF Getter, getNewSample, wake_spuriously, expireWait, popMediaBuffer, checkStopped
<1>2. QED BY <1>1 DEF Safe, Lines, Joined, Stopped, Held, methodVars, clientVars, invokerVars

LEMMA SafeStart ==
  ASSUME Safe,
         \/ startEndpoint \/ initializeAudioClient \/ initializeFails
         \/ allocateBuffer \/ allocateFails \/ startInvoker \/ startClient
  PROVE  Safe'
<1>. USE DEF Safe, Lines, Joined, Stopped, Held, Starts, Ends,
             OnLine, ToLine, ReturnMethod, clientVars, invokerVars
<1>1. CASE startEndpoint BY <1>1 DEF startEndpoint, Enter
<1>2. CASE initializeAudioClient BY <1>2 DEF initializeAudioClient
<1>3. CASE initializeFails BY <1>3 DEF initializeFails
<1>4. CASE allocateBuffer BY <1>4 DEF allocateBuffer
<1>5. CASE allocateFails BY <1>5 DEF allocateFails
<1>6. CASE startInvoker BY <1>6 DEF startInvoker
<1>7. CASE startClient BY <1>7 DEF startClient
<1>8. QED BY <1>1, <1>2, <1>3, <1>4, <1>5, <1>6, <1>7

LEMMA SafeEnd ==
  ASSUME Safe,
         \/ Leaves \/ join \/ stopEndpoint \/ pauseEndpoint
         \/ shutdownEndpoint \/ releaseAudioClient
  PROVE  Safe'
<1>. USE DEF Safe, Lines, Joined, Stopped, Held, Starts, Ends,
             OnLine, ToLine, ReturnMethod, clientVars, invokerVars
<1>1. CASE Leaves BY <1>1 DEF Leaves, stopInvoker, Enter
<1>2. CASE join BY <1>2 DEF join
<1>3. CASE stopEndpoint BY <1>3 DEF stopEndpoint
<1>4. CASE pauseEndpoint BY <1>4 DEF pauseEndpoint
<1>5. CASE shutdownEndpoint BY <1>5 DEF shutdownEndpoint
<1>6. CASE releaseAudioClient BY <1>6 DEF releaseAudioClient
<1>7. QED BY <1>1, <1>2, <1>3, <1>4, <1>5, <1>6

LEMMA SafeAlways == AESpec => []Safe
<1>1. ASSUME Safe, [AENext]_endpointVars PROVE Safe'
  <2>1. CASE UNCHANGED endpointVars
        BY <1>1, <2>1 DEF endpointVars, Safe, Lines, Joined, Stopped, Held,
                          methodVars, clientVars, invokerVars
  <2>2. CASE AENext
        BY <1>1, <2>2, SafeInvoker, SafeGetter, SafeStart, SafeEnd DEF AENext, Method
  <2>3. QED BY <1>1, <2>1, <2>2
<1>2. QED BY SafeInit, <1>1, PTL DEF AESpec

\* The audio client is there whenever the thread uses it, however starts that fail,
\* stops, pauses and shutdowns follow each other.
THEOREM ClientAliveCorrect == AESpec => []ClientAlive
<1>1. Safe => ClientAlive BY DEF Safe, Held, ClientAlive
<1>2. QED BY SafeAlways, <1>1, PTL

\* The thread of a start finds no thread of an earlier start that it would replace.
THEOREM NeverTerminatedCorrect == AESpec => []NeverTerminated
<1>1. Safe => NeverTerminated
      BY DEF Safe, Joined, Stopped, Starts, OnLine, NeverTerminated
<1>2. QED BY SafeAlways, <1>1, PTL
-----------------------------------------------------------------------------
(***************************************************************************)
(* The sound that is kept.                                                 *)
(***************************************************************************)
\* Sound of the present client only.
Own == Seq({clients})

\* The present client is in use, or about to be.
InUse == thread # "none" \/ mState \in {"Started", "Paused"} \/ line \in {"invoker", "started"}

Fresh ==
    /\ mAudioClient \in {0, clients}
    /\ InUse => mCurrentMediaBuffer \in Own /\ mBufferQueue \in Seq(Own)
    /\ line \in {"client", "allocate"} =>
         mBufferQueue = <<>> /\ mState \in {"Initialized", "Stopped"}
    /\ method = "pause" => mState = "Started"

\* A getter that is on its way finds the source as it has found it.
Undisturbed ==
    /\ getter \in {"out", "waiting", "woken", "check"}
    /\ getter # "out" => method = "none" /\ mState = "Started"
    /\ getter \in {"woken", "check"} => wokenBy = clients
    /\ getter = "check" => sample \in Own

Sound == Safe /\ Fresh /\ Undisturbed

\* What is cut out of a sequence has elements of that sequence.
LEMMA SubSeqType ==
  ASSUME NEW S, NEW s \in Seq(S), NEW m \in Nat \ {0}, NEW n \in 0 .. Len(s)
  PROVE  SubSeq(s, m, n) \in Seq(S)
BY SubSeqProperties

LEMMA SuffixType ==
  ASSUME NEW S, NEW s \in Seq(S), NEW n \in 0 .. Len(s) PROVE Suffix(s, n) \in Seq(S)
<1>1. Len(s) \in Nat /\ Len(s) - n + 1 \in Nat \ {0} BY LenProperties
<1>2. QED BY <1>1, SubSeqType DEF Suffix

\* The last buffers of two sequences of buffers.
LEMMA PushType ==
  ASSUME NEW S, mBufferQueue \in Seq(S), NEW buffers \in Seq(S)
  PROVE  pushMediaBuffer(buffers) \in Seq(S)
<1>. DEFINE all == mBufferQueue \o buffers
<1>1. all \in Seq(S) /\ Len(all) \in Nat BY ConcatProperties, LenProperties
<1>. HIDE DEF all
<1>2. ASSUME Len(all) > QueueSize PROVE Suffix(all, QueueSize) \in Seq(S)
  <2>1. QueueSize \in 0 .. Len(all) BY <1>1, <1>2
  <2>2. QED BY <1>1, <2>1, SuffixType
<1>3. QED BY <1>1, <1>2 DEF pushMediaBuffer, all

\* Division, as far as it is needed here.
LEMMA Division ==
  ASSUME NEW n \in Nat, NEW b \in Nat \ {0}
  PROVE  n \div b \in Nat /\ (n \div b) * b <= n /\ n % b \in 0 .. n
<1>1. n \div b \in Nat OBVIOUS
<1>2. (n \div b) * b <= n BY <1>1
<1>3. n % b \in 0 .. n OBVIOUS
<1>4. QED BY <1>1, <1>2, <1>3

\* The pieces of b elements begin and end within the whole.
LEMMA Pieces ==
  ASSUME NEW n \in Nat, NEW b \in Nat \ {0}, NEW whole \in Nat, n * b <= whole,
         NEW i \in 1 .. n
  PROVE  i * b \in 0 .. whole /\ (i - 1) * b + 1 \in Nat \ {0}
<1>1. i * b \in Nat /\ n * b \in Nat OBVIOUS
<1>2. (i - 1) * b + 1 \in Nat \ {0} OBVIOUS
<1>3. i * b <= n * b OBVIOUS
<1>4. QED BY <1>1, <1>2, <1>3

\* Sound of one client that is added to sound of the same client stays that: in the
\* buffers that are full, and in the one begun.
LEMMA WriteKeeps ==
  ASSUME NEW S, NEW units \in Nat, mAudioClient \in S, writeAudioBuffer(units),
         mCurrentMediaBuffer \in Seq(S), mBufferQueue \in Seq(Seq(S))
  PROVE  mCurrentMediaBuffer' \in Seq(S) /\ mBufferQueue' \in Seq(Seq(S))
<1>. DEFINE packet == [u \in 1 .. units |-> mAudioClient]
            sound  == mCurrentMediaBuffer \o packet
            full   == Len(sound) \div BufferSize
            buffer(i) == SubSeq(sound, (i - 1) * BufferSize + 1, i * BufferSize)
            buffers == [i \in 1 .. full |-> buffer(i)]
<1>1. sound \in Seq(S) /\ Len(sound) \in Nat
  <2>1. packet \in Seq(S) BY IsASeq
  <2>. HIDE DEF packet
  <2>2. QED BY <2>1, ConcatProperties, LenProperties
<1>2. mBufferQueue' = pushMediaBuffer(buffers)
      /\ mCurrentMediaBuffer' = Suffix(sound, Len(sound) % BufferSize)
      BY DEF writeAudioBuffer
<1>. HIDE DEF sound
<1>3. /\ full \in Nat /\ full * BufferSize <= Len(sound)
      /\ Len(sound) % BufferSize \in 0 .. Len(sound)
  <2>1. BufferSize \in Nat \ {0} OBVIOUS
  <2>2. QED BY <1>1, <2>1, Division, Zenon
<1>. HIDE DEF full
<1>4. ASSUME NEW i \in 1 .. full PROVE buffer(i) \in Seq(S)
  <2>1. BufferSize \in Nat \ {0} OBVIOUS
  <2>2. i * BufferSize \in 0 .. Len(sound) /\ (i - 1) * BufferSize + 1 \in Nat \ {0}
        BY <1>1, <1>3, <2>1, Pieces, Zenon
  <2>3. QED BY <1>1, <2>2, SubSeqType
<1>. HIDE DEF buffer
<1>5. buffers \in Seq(Seq(S)) BY <1>3, <1>4, IsASeq
<1>6. QED BY <1>1, <1>2, <1>3, <1>5, PushType, SuffixType

LEMMA SoundInit == AEInit => Sound
BY SafeInit DEF AEInit, Sound, Fresh, InUse, Undisturbed

LEMMA SoundInvoker == ASSUME Sound, Invoker PROVE Fresh' /\ Undisturbed'
<1>1. thread # "none" /\ UNCHANGED <<methodVars, clientVars, sample>>
      BY DEF Invoker, loop, enterInvoke, lockClient, firstInvoke, invokeBody, readPacket,
             leaveInvoke, getterVars
<1>2. mAudioClient = clients /\ clients \in Nat BY <1>1 DEF Sound, Safe, Lines, Held, Fresh
<1>3. mCurrentMediaBuffer \in Own /\ mBufferQueue \in Seq(Own)
      BY <1>1 DEF Sound, Fresh, InUse
<1>4. mCurrentMediaBuffer' \in Own /\ mBufferQueue' \in Seq(Own)
  <2>1. CASE UNCHANGED soundVars BY <1>3, <2>1 DEF soundVars
  <2>2. ASSUME NEW units \in 1 .. BufferSize + 1, writeAudioBuffer(units)
        PROVE  mCurrentMediaBuffer' \in Own /\ mBufferQueue' \in Seq(Own)
    <3>1. units \in Nat /\ mAudioClient \in {clients} BY <1>2
    <3>2. QED BY <1>3, <2>2, <3>1, WriteKeeps DEF Own
  <2>3. QED BY <2>1, <2>2
        DEF Invoker, loop, enterInvoke, lockClient, firstInvoke, invokeBody, readPacket,
            leaveInvoke, soundVars
<1>5. line \notin {"client", "allocate"}
      BY <1>1 DEF Sound, Safe, Lines, Joined, Stopped, Starts
<1>6. Fresh'
  <2>1. method = "pause" => mState = "Started" BY DEF Sound, Fresh
  <2>2. QED BY <1>1, <1>2, <1>4, <1>5, <2>1 DEF Fresh, Own, methodVars, clientVars
<1>7. \/ UNCHANGED <<getter, wokenBy>>
      \/ getter = "waiting" /\ getter' = "woken" /\ wokenBy' = clients
      BY DEF Invoker, loop, enterInvoke, lockClient, firstInvoke, invokeBody, readPacket,
             leaveInvoke, newSample, getterVars
<1>8. Undisturbed' BY <1>1, <1>7 DEF Sound, Undisturbed, Own, methodVars, clientVars
<1>9. QED BY <1>6, <1>8

LEMMA SoundGetter == ASSUME Sound, Getter PROVE Fresh' /\ Undisturbed'
<1>0. CASE wake_spuriously
  <2>1. UNCHANGED soundVars BY <1>0 DEF wake_spuriously
  <2>2. Fresh' BY <1>0, <2>1
        DEF wake_spuriously, Sound, Fresh, InUse, Own, methodVars, clientVars, invokerVars,
            soundVars
  <2>3. Undisturbed' BY <1>0
        DEF wake_spuriously, Sound, Undisturbed, Own, methodVars, clientVars
  <2>4. QED BY <2>2, <2>3
<1>. SUFFICES ASSUME ~ wake_spuriously PROVE Fresh' /\ Undisturbed' BY <1>0
<1>1. UNCHANGED <<methodVars, clientVars, invokerVars, mCurrentMediaBuffer, wokenBy>>
      BY DEF Getter, getNewSample, expireWait, popMediaBuffer, checkStopped, soundVars
<1>2. CASE popMediaBuffer
  <2>1. mBufferQueue \in Seq(Own) BY <1>2 DEF popMediaBuffer, Sound, Fresh, InUse, Undisturbed
  <2>2. mBufferQueue' \in Seq(Own) /\ sample' \in Own
    <3>1. CASE mBufferQueue = <<>>
          BY <1>2, <2>1, <3>1 DEF popMediaBuffer, Own
    <3>2. CASE mBufferQueue # <<>>
      <4>1. Tail(mBufferQueue) \in Seq(Own) /\ Head(mBufferQueue) \in Own
            BY <2>1, <3>2, HeadTailProperties
      <4>2. <<>> \in Own BY DEF Own
      <4>3. QED BY <1>2, <3>2, <4>1, <4>2 DEF popMediaBuffer
    <3>3. QED BY <3>1, <3>2
  <2>3. Fresh'
    <3>1. line \notin {"client", "allocate"}
          BY <1>2 DEF popMediaBuffer, Sound, Safe, Lines, Undisturbed
    <3>2. QED BY <1>1, <2>2, <3>1
          DEF Sound, Fresh, InUse, Own, methodVars, clientVars, invokerVars
  <2>4. QED BY <1>1, <1>2, <2>2, <2>3
        DEF popMediaBuffer, Sound, Undisturbed, Own, methodVars, clientVars
<1>3. CASE getNewSample \/ expireWait \/ checkStopped
  <2>1. UNCHANGED soundVars
        BY <1>3 DEF getNewSample, expireWait, checkStopped
  <2>2. Fresh' BY <1>1, <2>1
        DEF Sound, Fresh, InUse, Own, methodVars, clientVars, invokerVars, soundVars
  <2>3. Undisturbed' BY <1>1, <1>3
        DEF getNewSample, expireWait, checkStopped, Sound, Undisturbed, Own, methodVars,
            clientVars
  <2>4. QED BY <2>2, <2>3
<1>4. QED BY <1>2, <1>3 DEF Getter

\* A method runs while no getter is on its way.
LEMMA UndisturbedMethod ==
  ASSUME Undisturbed, startEndpoint \/ Leaves \/ (Method /\ method # "none")
  PROVE  Undisturbed'
<1>1. getter = "out" BY DEF Undisturbed, startEndpoint, Leaves, stopInvoker, Enter
<1>2. UNCHANGED getter
      BY DEF startEndpoint, Leaves, Method, initializeAudioClient, initializeFails,
             allocateBuffer, allocateFails, startInvoker, startClient, join, stopEndpoint,
             pauseEndpoint, shutdownEndpoint, releaseAudioClient, getterVars
<1>3. QED BY <1>1, <1>2 DEF Undisturbed

LEMMA SoundMethod ==
  ASSUME Sound, startEndpoint \/ Leaves \/ Method PROVE Fresh' /\ Undisturbed'
<1>1. Undisturbed'
  <2>1. Method => method # "none"
        BY DEF Sound, Safe, Lines, Method, initializeAudioClient, initializeFails,
               allocateBuffer, allocateFails, startInvoker, startClient, join, stopEndpoint,
               pauseEndpoint, shutdownEndpoint, releaseAudioClient, OnLine
  <2>2. QED BY <2>1, UndisturbedMethod DEF Sound
<1>2. Fresh'
  <2>. USE DEF Sound, Safe, Lines, Joined, Stopped, Held, Starts, Ends, Fresh, InUse, Own,
               OnLine, ToLine, ReturnMethod, clientVars, invokerVars, soundVars
  <2>1. CASE startEndpoint BY <2>1 DEF startEndpoint, Enter
  <2>2. CASE initializeAudioClient BY <2>2 DEF initializeAudioClient
  <2>3. CASE initializeFails BY <2>3 DEF initializeFails
  <2>4. CASE allocateBuffer BY <2>4 DEF allocateBuffer
  <2>5. CASE allocateFails BY <2>5 DEF allocateFails
  <2>6. CASE startInvoker BY <2>6 DEF startInvoker
  <2>7. CASE startClient BY <2>7 DEF startClient
  <2>8. CASE Leaves BY <2>8 DEF Leaves, stopInvoker, Enter
  <2>9. CASE join BY <2>9 DEF join
  <2>10. CASE stopEndpoint
    <3>1. thread = "none" BY <2>10 DEF stopEndpoint
    <3>2. UNCHANGED <<mAudioClient, clients, thread, soundVars>> BY <2>10 DEF stopEndpoint
    <3>3. InUse' => InUse BY <2>10, <3>2 DEF stopEndpoint
    <3>4. line' \notin {"client", "allocate"} /\ method' # "pause"
          BY <2>10 DEF stopEndpoint
    <3>. HIDE DEF InUse, Own, Safe
    <3>5. QED BY <3>2, <3>3, <3>4 DEF Own
  <2>11. CASE pauseEndpoint
    <3>1. UNCHANGED <<mAudioClient, clients, thread, soundVars>> BY <2>11 DEF pauseEndpoint
    <3>2. InUse BY <2>11 DEF pauseEndpoint
    <3>3. line' \notin {"client", "allocate"} BY <2>11 DEF pauseEndpoint
    <3>4. method' = "none" BY <2>11 DEF pauseEndpoint
    <3>. HIDE DEF InUse, Own, Safe
    <3>5. QED BY <3>1, <3>2, <3>3, <3>4 DEF Own
  <2>12. CASE shutdownEndpoint BY <2>12 DEF shutdownEndpoint
  <2>13. CASE releaseAudioClient BY <2>13 DEF releaseAudioClient
  <2>14. QED BY <2>1, <2>2, <2>3, <2>4, <2>5, <2>6, <2>7, <2>8, <2>9, <2>10, <2>11,
                <2>12, <2>13 DEF Method
<1>3. QED BY <1>1, <1>2

LEMMA SoundAlways == AESpec => []Sound
<1>1. ASSUME Sound, [AENext]_endpointVars, Safe' PROVE Sound'
  <2>1. CASE UNCHANGED endpointVars
        BY <1>1, <2>1 DEF endpointVars, Sound, Fresh, InUse, Undisturbed, Own, methodVars,
                          clientVars, invokerVars, soundVars, getterVars
  <2>2. CASE AENext
        BY <1>1, <2>2, SoundInvoker, SoundGetter, SoundMethod DEF AENext, Sound
  <2>3. QED BY <1>1, <2>1, <2>2
<1>2. QED BY SoundInit, SafeAlways, <1>1, PTL DEF AESpec

\* A getter that wakes while a client is there is given sound of that client only,
\* whatever an earlier client has left in the buffer or in the queue.
THEOREM NothingFromBeforeCorrect == AESpec => []NothingFromBefore
<1>1. ASSUME Sound PROVE NothingFromBefore
  <2>1. SUFFICES ASSUME getter = "check", NEW u \in 1 .. Len(sample)
                 PROVE  sample[u] >= wokenBy
        BY DEF NothingFromBefore
  <2>2. sample \in Seq({clients}) /\ wokenBy = clients /\ clients \in Nat
        BY <1>1, <2>1 DEF Sound, Undisturbed, Own, Safe, Lines
  <2>3. sample[u] = clients BY <2>1, <2>2, ElementOfSeq
  <2>4. QED BY <2>2, <2>3
<1>2. QED BY SoundAlways, <1>1, PTL
=============================================================================
