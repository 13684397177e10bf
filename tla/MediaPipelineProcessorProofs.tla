--------------------- MODULE MediaPipelineProcessorProofs ---------------------
(***************************************************************************)
(* The handshake is exact for any number of sources and sinks, as long as  *)
(* no source fails, none answers later than the wait for it and none is    *)
(* asked for a sample while it is paused.  The last part holds whatever    *)
(* the sources do.                                                         *)
(***************************************************************************)
EXTENDS MediaPipelineProcessor, FiniteSetTheorems, TLAPS

Prompt == FaultySources = {} /\ SlowSources = FALSE /\ HastySources = {}

\* Nothing of a handshake is under way at source s.
Rest(s) == operations[s] = << >> /\ streamEvents[s] = << >>

\* Source s has been asked for op and is somewhere on its way to target, which
\* it acknowledges with ack.
Asked(s, op, ack, target) ==
    \/ operations[s] = <<op>> /\ streamEvents[s] = << >>
    \/ operations[s] = << >> /\ streamEvents[s] = <<ack>> /\ device[s] = target
    \/ Rest(s) /\ device[s] = target

AllAt(target) == \A s \in Sources : Rest(s) /\ device[s] = target

Starting == pc \in {"starting", "startWait"}
Pausing  == pc \in {"pausing", "pauseReset", "pauseWait"}
Stopping == pc \in {"stopping", "stopWait"}

InvPhase ==
    /\ pc \notin {"startFailed", "closed"}
    /\ Starting \/ Stopping => lresult = "S_OK"
    /\ pc \notin {"starting", "pausing", "stopping"} => todo = {}
    /\ pc \in {"pausing", "pauseReset", "pauseWait", "clockPause", "sinkPauseWait"}
         => sessionState = "Paused"
    /\ pc \in {"stopping", "stopWait", "clockStop", "sinkStopWait"}
         => sessionState = "Stopped"

\* A stream is active exactly while its source is Started or Paused.
InvActive == \A s \in Sources : active[s] <=> device[s] \in {"Started", "Paused"}

\* A stream that is not listened to yet has been announced if it is active.
InvListen ==
    /\ sessionState # "None" => mediaStreams = Sources
    /\ \A s \in Sources \ mediaStreams :
         /\ s \in sourceArmed
         /\ sourceEvents[s] = IF active[s] THEN <<"MENewStream">> ELSE << >>

InvRest ==
    /\ ~ (Starting \/ Pausing \/ Stopping) =>
         \A s \in Sources : Rest(s) /\ (sessionState # "None" => device[s] = sessionState)
    /\ ~ Starting /\ sessionState = "None" =>
         \A s \in Sources : device[s] = "Uninitialized"

InvStart ==
    Starting => \A s \in Sources :
      /\ s \in todo => Rest(s)
      /\ s \notin todo => /\ Asked(s, "Start", "MEStreamStarted", "Started")
                          /\ device[s] # "Uninitialized"
                          /\ Rest(s) => s \in mediaStreams
      /\ sessionState = "None" /\ (s \in todo \/ operations[s] # << >>)
           => device[s] \in {"Uninitialized", "Initialized"}

InvPause ==
    Pausing => \A s \in Sources :
      /\ s \in todo => Rest(s) /\ device[s] = "Started"
      /\ s \notin todo => /\ Asked(s, "Pause", "MEStreamPaused", "Paused")
                          /\ operations[s] # << >> => device[s] = "Started"

InvStop ==
    Stopping => \A s \in Sources :
      /\ s \in todo => Rest(s)
      /\ s \notin todo => Asked(s, "Stop", "MEStreamStopped", "Stopped")
      /\ s \in todo \/ operations[s] # << >> => device[s] \in {"Started", "Paused"}

InvSources == InvActive /\ InvListen /\ InvRest /\ InvStart /\ InvPause /\ InvStop

InvCounters ==
    /\ Starting \/ Stopping => mSourceStreamCount = Cardinality(Outstanding)
    /\ ~ (Starting \/ Stopping) => mSourceStreamCount = Cardinality(mediaStreams)
    /\ pc = "pauseWait" => mSourceStreamPausingCount >= Cardinality(Outstanding)
    /\ pc \notin {"sinkPauseWait", "sinkStopWait"} => mStreamSinkCount = SinkCount
    /\ pc # "sinkStopWait" => \A k \in Sinks : sinkEvents[k] = 0
    /\ pc = "sinkStopWait" =>
         /\ \A k \in Sinks : sinkEvents[k] \in {0, 1}
         /\ mStreamSinkCount = Cardinality({k \in Sinks : sinkEvents[k] = 1})

InvPrompt == \A s \in Sources : postponed[s] = FALSE

IInv == TypeOK /\ InvPhase /\ InvSources /\ InvCounters /\ InvPrompt
-----------------------------------------------------------------------------
(***************************************************************************)
(* Counting.                                                               *)
(***************************************************************************)
LEMMA SubsetCardinality ==
  ASSUME NEW S, IsFiniteSet(S), NEW T \in SUBSET S
  PROVE  /\ IsFiniteSet(T)
         /\ Cardinality(T) \in Nat
         /\ Cardinality(T) = 0 <=> T = {}
         /\ \A x \in T : Cardinality(T \ {x}) = Cardinality(T) - 1
<1>1. IsFiniteSet(T)  BY FS_Subset
<1>2. Cardinality(T) \in Nat  BY <1>1, FS_CardinalityType
<1>3. Cardinality(T) = 0 <=> T = {}  BY <1>1, FS_EmptySet
<1>4. ASSUME NEW x \in T
      PROVE  Cardinality(T \ {x}) = Cardinality(T) - 1
  BY <1>1, <1>4, FS_RemoveElement
<1> QED  BY <1>1, <1>2, <1>3, <1>4

LEMMA OutstandingCardinality ==
  ASSUME TypeOK
  PROVE
  /\ Outstanding \subseteq Sources
  /\ SourceCount \in Nat /\ SinkCount \in Nat
  /\ Cardinality(mediaStreams) \in Nat
  /\ Cardinality(Outstanding) \in Nat
  /\ Cardinality(Outstanding) = 0 <=> Outstanding = {}
  BY PipelineAssumption, SubsetCardinality
     DEF TypeOK, Outstanding, SourceCount, SinkCount
-----------------------------------------------------------------------------
(***************************************************************************)
(* The invariant is inductive.                                             *)
(***************************************************************************)
\* TypeOK, in the parts that the actions change.
TypeControl ==
    /\ pc \in Location /\ todo \subseteq Sources
    /\ lresult \in {"S_OK", "E_FAIL", "MF_E_HW_MFT_FAILED_START_STREAMING",
                    "CONTEXT_E_SYNCH_TIMEOUT"}
    /\ sessionState \in {"None", "Started", "Paused", "Stopped"}
    /\ calls \in 0..MaxCalls
    /\ mCurrentState \in {"None", "Started", "Paused", "Stopped"}
TypeGate == m_processSampleAccess \in BOOLEAN
TypeCounters ==
    mSourceStreamCount \in Int /\ mSourceStreamPausingCount \in Int /\ mStreamSinkCount \in Int
TypeListen == mediaStreams \subseteq Sources /\ sourceArmed \subseteq Sources
TypeDevice ==
    /\ device \in [Sources -> {"Uninitialized", "Initialized", "Started", "Paused", "Stopped"}]
    /\ active \in [Sources -> BOOLEAN]
    /\ streamState \in [Sources -> {"Started", "Paused", "Stopped"}]
    /\ postponed \in [Sources -> BOOLEAN]
TypeQueues ==
    /\ operations \in [Sources -> Seq(Operation)]
    /\ sourceEvents \in [Sources -> Seq(SourceEvent)]
    /\ streamEvents \in [Sources -> Seq(StreamEvent)]
    /\ sinkEvents \in [Sinks -> Nat]

LEMMA TypeParts ==
  /\ TypeOK <=> /\ TypeControl /\ TypeGate /\ TypeCounters
                /\ TypeListen /\ TypeDevice /\ TypeQueues
  /\ TypeOK' <=> /\ TypeControl' /\ TypeGate' /\ TypeCounters'
                 /\ TypeListen' /\ TypeDevice' /\ TypeQueues'
  BY DEF TypeOK, TypeControl, TypeGate, TypeCounters, TypeListen, TypeDevice, TypeQueues

LEMMA InitIInv == Init => IInv
<1> SUFFICES ASSUME Init PROVE IInv  OBVIOUS
<1> USE DEF Init
<1>1. TypeOK
  <2>1. TypeControl  BY PipelineAssumption DEF TypeControl, Location
  <2>2. TypeCounters  BY PipelineAssumption, FS_CardinalityType DEF TypeCounters, SinkCount
  <2>3. TypeListen  BY DEF TypeListen
  <2>4. TypeDevice  BY DEF TypeDevice
  <2>5. TypeQueues  BY DEF TypeQueues
  <2>6. TypeGate  BY Zenon DEF TypeGate
  <2> QED  BY <2>1, <2>2, <2>3, <2>4, <2>5, <2>6, TypeParts
<1>2. InvPhase
  BY DEF InvPhase, Starting, Stopping
<1>3. InvSources
  BY DEF InvSources, InvActive, InvListen, InvRest, InvStart, InvPause, InvStop,
         Starting, Stopping, Pausing, Rest
<1>4. InvCounters
  BY FS_EmptySet DEF InvCounters, Starting, Stopping
<1>5. InvPrompt
  BY Zenon DEF InvPrompt
<1> QED  BY <1>1, <1>2, <1>3, <1>4, <1>5 DEF IInv

LEMMA QueueTypes ==
  ASSUME NEW S, NEW q \in Seq(S)
  PROVE  /\ \A e \in S : Append(q, e) \in Seq(S)
         /\ q # << >> => Head(q) \in S /\ Tail(q) \in Seq(S)
  OBVIOUS

LEMMA TailOfOne == ASSUME NEW e PROVE Tail(<<e>>) = << >>
  OBVIOUS

LEMMA NextTypeOK ==
  ASSUME TypeOK, Next PROVE TypeOK'
<1>0. /\ SourceCount \in Int /\ SinkCount \in Int
      /\ Cardinality(mediaStreams) \in Int
  BY OutstandingCardinality
<1>a. /\ \A s \in Sources, op \in Operation : Append(operations[s], op) \in Seq(Operation)
      /\ \A s \in Sources, e \in SourceEvent : Append(sourceEvents[s], e) \in Seq(SourceEvent)
      /\ \A s \in Sources, e \in StreamEvent : Append(streamEvents[s], e) \in Seq(StreamEvent)
  BY QueueTypes DEF TypeOK
<1>b. \A s \in Sources :
        /\ operations[s] # << >> => Tail(operations[s]) \in Seq(Operation)
        /\ sourceEvents[s] # << >> => Tail(sourceEvents[s]) \in Seq(SourceEvent)
        /\ streamEvents[s] # << >> => Tail(streamEvents[s]) \in Seq(StreamEvent)
  BY QueueTypes DEF TypeOK
<1> USE PipelineAssumption, <1>0
    DEF TypeOK, Location, controlVars, counterVars, sourceVars, streamVars, listenVars
<1>1. CASE StartSources
  BY <1>1 DEF StartSources, Call
<1>2. CASE StartLoopEnds
  BY <1>2 DEF StartLoopEnds
<1>3. CASE StartWaitSucceeds
  BY <1>3 DEF StartWaitSucceeds
<1>4. CASE StartWaitExpires
  BY <1>4 DEF StartWaitExpires
<1>5. CASE PauseSources
  <2>1. TypeControl'  BY <1>5 DEF TypeControl, PauseSources, Call
  <2>2. TypeCounters'  BY <1>5 DEF TypeCounters, PauseSources, Call
  <2>3. TypeListen'  BY <1>5 DEF TypeListen, PauseSources, Call
  <2>4. TypeDevice'  BY <1>5 DEF TypeDevice, PauseSources, Call
  <2>5. TypeQueues'  BY <1>5 DEF TypeQueues, PauseSources, Call
  <2>6. TypeGate'  BY Zenon, <1>5 DEF TypeGate, PauseSources, Call
  <2> HIDE DEF TypeOK
  <2> QED  BY <2>1, <2>2, <2>3, <2>4, <2>5, <2>6, TypeParts
<1>6. CASE PauseCounterReset
  BY <1>6 DEF PauseCounterReset
<1>7. CASE PauseWaitSucceeds
  BY <1>7 DEF PauseWaitSucceeds
<1>8. CASE PauseWaitExpires
  BY <1>8 DEF PauseWaitExpires
<1>9. CASE ClockPause
  <2>1. TypeControl'  BY <1>9 DEF TypeControl, ClockPause
  <2>2. TypeCounters'  BY <1>9 DEF TypeCounters, ClockPause
  <2>3. TypeListen'  BY <1>9 DEF TypeListen, ClockPause
  <2>4. TypeDevice'  BY <1>9 DEF TypeDevice, ClockPause
  <2>5. TypeQueues'  BY <1>9 DEF TypeQueues, ClockPause
  <2>6. TypeGate'  BY Zenon, <1>9 DEF TypeGate, ClockPause
  <2> HIDE DEF TypeOK
  <2> QED  BY <2>1, <2>2, <2>3, <2>4, <2>5, <2>6, TypeParts
<1>10. CASE SinkPauseWaitEnds
  BY <1>10 DEF SinkPauseWaitEnds
<1>11. CASE StopSources
  <2>1. TypeControl'  BY <1>11 DEF TypeControl, StopSources, Call, EnterStop
  <2>2. TypeCounters'  BY <1>11 DEF TypeCounters, StopSources, Call, EnterStop
  <2>3. TypeListen'  BY <1>11 DEF TypeListen, StopSources, Call, EnterStop
  <2>4. TypeDevice'  BY <1>11 DEF TypeDevice, StopSources, Call, EnterStop
  <2>5. TypeQueues'  BY <1>11 DEF TypeQueues, StopSources, Call, EnterStop
  <2>6. TypeGate'  BY Zenon, <1>11 DEF TypeGate, StopSources, Call, EnterStop
  <2> HIDE DEF TypeOK
  <2> QED  BY <2>1, <2>2, <2>3, <2>4, <2>5, <2>6, TypeParts
<1>12. CASE StopAfterFailure
  BY <1>12 DEF StopAfterFailure, EnterStop
<1>13. CASE StopWaitEnds
  BY <1>13 DEF StopWaitEnds
<1>14. CASE ClockStop
  BY <1>14 DEF ClockStop
<1>15. CASE SinkStopWaitEnds
  BY <1>15 DEF SinkStopWaitEnds
<1>16. ASSUME NEW s \in Sources, StartSource(s) PROVE TypeOK'
  <2> HIDE DEF TypeOK
  <2>0. /\ TypeControl /\ TypeGate /\ TypeCounters
        /\ TypeListen /\ TypeDevice /\ TypeQueues
    BY TypeParts
  <2>1. TypeControl'  BY <2>0, <1>16 DEF TypeControl, StartSource, NextSource, Put
  <2>2. TypeCounters'  BY <2>0, <1>16 DEF TypeCounters, StartSource, NextSource, Put
  <2>3. TypeListen'  BY <2>0, <1>16 DEF TypeListen, StartSource, NextSource, Put
  <2>4. TypeDevice'  BY <2>0, <1>16 DEF TypeDevice, StartSource, NextSource, Put
  <2>5. TypeQueues'
    <3>1. operations' \in [Sources -> Seq(Operation)]
      BY <2>0, <1>16, <1>a DEF TypeQueues, StartSource, Put, Operation
    <3>2. UNCHANGED <<sourceEvents, streamEvents, sinkEvents>>  BY <1>16 DEF StartSource
    <3> QED  BY <2>0, <3>1, <3>2 DEF TypeQueues
  <2>6. TypeGate'  BY Zenon, <2>0, <1>16 DEF TypeGate, StartSource
  <2> QED  BY <2>1, <2>2, <2>3, <2>4, <2>5, <2>6, TypeParts
<1>17. ASSUME NEW s \in Sources, PauseSource(s) PROVE TypeOK'
  <2> HIDE DEF TypeOK
  <2>0. /\ TypeControl /\ TypeGate /\ TypeCounters
        /\ TypeListen /\ TypeDevice /\ TypeQueues
    BY TypeParts
  <2>1. TypeControl'  BY <2>0, <1>17 DEF TypeControl, PauseSource, NextSource, Put
  <2>2. TypeCounters'  BY <2>0, <1>17 DEF TypeCounters, PauseSource, NextSource, Put
  <2>3. TypeListen'  BY <2>0, <1>17 DEF TypeListen, PauseSource, NextSource, Put
  <2>4. TypeDevice'  BY <2>0, <1>17 DEF TypeDevice, PauseSource, NextSource, Put
  <2>5. TypeQueues'
    <3>1. operations' \in [Sources -> Seq(Operation)]
      BY <2>0, <1>17, <1>a DEF TypeQueues, PauseSource, Put, Operation
    <3>2. UNCHANGED <<sourceEvents, streamEvents, sinkEvents>>  BY <1>17 DEF PauseSource
    <3> QED  BY <2>0, <3>1, <3>2 DEF TypeQueues
  <2>6. TypeGate'  BY Zenon, <2>0, <1>17 DEF TypeGate, PauseSource
  <2> QED  BY <2>1, <2>2, <2>3, <2>4, <2>5, <2>6, TypeParts
<1>18. ASSUME NEW s \in Sources, StopSource(s) PROVE TypeOK'
  <2> HIDE DEF TypeOK
  <2>0. /\ TypeControl /\ TypeGate /\ TypeCounters
        /\ TypeListen /\ TypeDevice /\ TypeQueues
    BY TypeParts
  <2>1. TypeControl'  BY <2>0, <1>18 DEF TypeControl, StopSource, NextSource, Put
  <2>2. TypeCounters'  BY <2>0, <1>18 DEF TypeCounters, StopSource, NextSource, Put
  <2>3. TypeListen'  BY <2>0, <1>18 DEF TypeListen, StopSource, NextSource, Put
  <2>4. TypeDevice'  BY <2>0, <1>18 DEF TypeDevice, StopSource, NextSource, Put
  <2>5. TypeQueues'
    <3>1. operations' \in [Sources -> Seq(Operation)]
      BY <2>0, <1>18, <1>a DEF TypeQueues, StopSource, Put, Operation
    <3>2. UNCHANGED <<sourceEvents, streamEvents, sinkEvents>>  BY <1>18 DEF StopSource
    <3> QED  BY <2>0, <3>1, <3>2 DEF TypeQueues
  <2>6. TypeGate'  BY Zenon, <2>0, <1>18 DEF TypeGate, StopSource
  <2> QED  BY <2>1, <2>2, <2>3, <2>4, <2>5, <2>6, TypeParts
<1>19. ASSUME NEW s \in Sources, SourceInvoke(s) PROVE TypeOK'
  <2>1. TypeControl'  BY <1>19, <1>a, <1>b DEF TypeControl, SourceInvoke, SourceStart, SourcePause, SourceStop, SourceEvent, StreamEvent
  <2>2. TypeCounters'  BY <1>19, <1>a, <1>b DEF TypeCounters, SourceInvoke, SourceStart, SourcePause, SourceStop, SourceEvent, StreamEvent
  <2>3. TypeListen'  BY <1>19, <1>a, <1>b DEF TypeListen, SourceInvoke, SourceStart, SourcePause, SourceStop, SourceEvent, StreamEvent
  <2>4. TypeDevice'
    <3> HIDE DEF TypeOK
    <3>0. TypeDevice  BY TypeParts
    <3>1. SourceStart(s) \/ SourcePause(s) \/ SourceStop(s)  BY <1>19 DEF SourceInvoke
    <3>2. device' \in [Sources -> {"Uninitialized", "Initialized", "Started", "Paused", "Stopped"}]
      BY <3>0, <3>1 DEF TypeDevice, SourceStart, SourcePause, SourceStop
    <3>3. active' \in [Sources -> BOOLEAN]
      BY <3>0, <3>1, Zenon DEF TypeDevice, SourceStart, SourcePause, SourceStop
    <3>4. streamState' \in [Sources -> {"Started", "Paused", "Stopped"}]
      BY <3>0, <3>1 DEF TypeDevice, SourceStart, SourcePause, SourceStop
    <3>5. postponed' \in [Sources -> BOOLEAN]  BY <1>19, <3>0 DEF TypeDevice, SourceInvoke
    <3> QED  BY <3>2, <3>3, <3>4, <3>5 DEF TypeDevice
  <2>5. TypeQueues'
    <3>1. operations' \in [Sources -> Seq(Operation)]  BY <1>19, <1>b DEF SourceInvoke
    <3>2. sinkEvents' \in [Sinks -> Nat]  BY <1>19 DEF SourceInvoke
    <3>3. CASE SourceStart(s)
      <4> HIDE DEF TypeOK
      <4>0. TypeQueues  BY TypeParts
      <4>1. CASE UNCHANGED <<sourceEvents, streamEvents>>
        BY <3>1, <3>2, <4>0, <4>1 DEF TypeQueues
      <4>2. CASE sourceEvents' = [sourceEvents EXCEPT ![s] = Append(@, "MEUpdatedStream")]
                 /\ streamEvents' = [streamEvents EXCEPT ![s] = Append(@, "MEStreamStarted")]
        <5>1. sourceEvents' \in [Sources -> Seq(SourceEvent)]
          BY <1>a, <4>0, <4>2 DEF TypeQueues, SourceEvent
        <5>2. streamEvents' \in [Sources -> Seq(StreamEvent)]
          BY <1>a, <4>0, <4>2 DEF TypeQueues, StreamEvent
        <5> QED  BY <3>1, <3>2, <5>1, <5>2 DEF TypeQueues
      <4>3. CASE sourceEvents' = [sourceEvents EXCEPT ![s] = Append(@, "MENewStream")]
                 /\ streamEvents' = [streamEvents EXCEPT ![s] = Append(@, "MEStreamStarted")]
        <5>1. sourceEvents' \in [Sources -> Seq(SourceEvent)]
          BY <1>a, <4>0, <4>3 DEF TypeQueues, SourceEvent
        <5>2. streamEvents' \in [Sources -> Seq(StreamEvent)]
          BY <1>a, <4>0, <4>3 DEF TypeQueues, StreamEvent
        <5> QED  BY <3>1, <3>2, <5>1, <5>2 DEF TypeQueues
      <4> QED  BY <3>3, <4>1, <4>2, <4>3 DEF SourceStart
    <3>4. CASE SourcePause(s)
      <4> HIDE DEF TypeOK
      <4>1. TypeQueues  BY TypeParts
      <4>2. streamEvents' \in [Sources -> Seq(StreamEvent)]
        BY <1>a, <3>4, <4>1 DEF TypeQueues, SourcePause, StreamEvent
      <4> QED  BY <3>1, <3>2, <3>4, <4>1, <4>2 DEF TypeQueues, SourcePause
    <3>5. CASE SourceStop(s)
      <4> HIDE DEF TypeOK
      <4>1. TypeQueues  BY TypeParts
      <4>2. sourceEvents' \in [Sources -> Seq(SourceEvent)]
        BY <1>a, <3>5, <4>1 DEF TypeQueues, SourceStop, SourceEvent
      <4>3. streamEvents' \in [Sources -> Seq(StreamEvent)]
        BY <1>a, <3>5, <4>1 DEF TypeQueues, SourceStop, StreamEvent
      <4> QED  BY <3>1, <3>2, <4>2, <4>3 DEF TypeQueues
    <3> QED  BY <1>19, <3>3, <3>4, <3>5 DEF SourceInvoke
  <2>6. TypeGate'  BY Zenon, <1>19, <1>a, <1>b DEF TypeGate, SourceInvoke, SourceStart, SourcePause, SourceStop, SourceEvent, StreamEvent
  <2> HIDE DEF TypeOK
  <2> QED  BY <2>1, <2>2, <2>3, <2>4, <2>5, <2>6, TypeParts
<1>20. ASSUME NEW s \in Sources, HandleSourceEvent(s) PROVE TypeOK'
  <2> HIDE DEF TypeOK
  <2>0. /\ TypeControl /\ TypeGate /\ TypeCounters
        /\ TypeListen /\ TypeDevice /\ TypeQueues
    BY TypeParts
  <2>1. TypeControl' /\ TypeCounters' /\ TypeDevice'
    BY <2>0, <1>20 DEF TypeControl, TypeCounters, TypeDevice, HandleSourceEvent
  <2>2. TypeListen'  BY <2>0, <1>20 DEF TypeListen, HandleSourceEvent
  <2>3. TypeQueues'  BY <2>0, <1>20, <1>b DEF TypeQueues, HandleSourceEvent
  <2>4. TypeGate'  BY Zenon, <2>0, <1>20 DEF TypeGate, HandleSourceEvent
  <2> QED  BY <2>1, <2>2, <2>3, <2>4, TypeParts
<1>21. ASSUME NEW s \in Sources, HandleStreamEvent(s) PROVE TypeOK'
  <2> HIDE DEF TypeOK
  <2>0. /\ TypeControl /\ TypeGate /\ TypeCounters
        /\ TypeListen /\ TypeDevice /\ TypeQueues
    BY TypeParts
  <2>1. TypeControl'  BY <2>0, <1>21, <1>b DEF TypeControl, HandleStreamEvent
  <2>2. TypeCounters'  BY <2>0, <1>21, <1>b DEF TypeCounters, HandleStreamEvent
  <2>3. TypeListen'  BY <2>0, <1>21, <1>b DEF TypeListen, HandleStreamEvent
  <2>4. TypeDevice'  BY <2>0, <1>21, <1>b DEF TypeDevice, HandleStreamEvent
  <2>5. TypeQueues'  BY <2>0, <1>21, <1>b DEF TypeQueues, HandleStreamEvent
  <2>6. TypeGate'  BY Zenon, <2>0, <1>21, <1>b DEF TypeGate, HandleStreamEvent
  <2> QED  BY <2>1, <2>2, <2>3, <2>4, <2>5, <2>6, TypeParts
<1>22. ASSUME NEW k \in Sinks, HandleSinkEvent(k) PROVE TypeOK'
  BY <1>22 DEF HandleSinkEvent
<1>23. ASSUME NEW s \in Sources, RequestWhilePaused(s) PROVE TypeOK'
  BY <1>23 DEF RequestWhilePaused
<1> QED
  BY <1>1, <1>2, <1>3, <1>4, <1>5, <1>6, <1>7, <1>8, <1>9, <1>10, <1>11, <1>12, <1>13, <1>14, <1>15, <1>16, <1>17, <1>18, <1>19, <1>20, <1>21, <1>22, <1>23 DEF Next, Request, Continue, Callback

\* A step that leaves the queues and the loop alone leaves Outstanding alone.
LEMMA OutstandingUnchanged ==
  ASSUME UNCHANGED <<todo, operations, streamEvents>>
  PROVE  Outstanding' = Outstanding
  BY DEF Outstanding

\* When no acknowledgement is outstanding, or nothing at all is under way,
\* every source is at rest.
LEMMA OutstandingRest ==
  ASSUME IInv, Outstanding = {}
  PROVE  todo = {} /\ \A s \in Sources : Rest(s)
  BY DEF IInv, TypeOK, Outstanding, Rest

LEMMA QuietRest ==
  ASSUME IInv, Quiet, sessionState # "None"
  PROVE  \A s \in Sources : Rest(s)
  BY DEF IInv, InvSources, InvListen, Quiet, Rest

LEMMA StartSourcesInv ==
  ASSUME IInv, StartSources PROVE InvPhase' /\ InvSources' /\ InvCounters'
<1> USE DEF IInv, StartSources
<1>1. InvPhase'
  BY DEF InvPhase, Starting, Stopping
<1>2. \A s \in Sources : Rest(s) /\ Rest(s)'
  BY DEF InvSources, InvRest, Starting, Stopping, Pausing, Rest, sourceVars, streamVars
<1>3. InvActive' /\ InvListen'
  BY DEF InvSources, InvActive, InvListen, sourceVars, streamVars, listenVars
<1>4. InvRest' /\ InvPause' /\ InvStop'
  BY DEF InvSources, InvRest, InvPause, InvStop, Starting, Stopping, Pausing
<1>5. InvStart'
  BY <1>2 DEF InvSources, InvRest, InvStart, Starting, Pausing, Stopping, sourceVars, streamVars
<1>6. Outstanding' = Sources
  BY <1>2 DEF Outstanding, Rest
<1>7. InvCounters'
  BY <1>6 DEF InvCounters, Starting, Stopping, SourceCount
<1> QED  BY <1>1, <1>3, <1>4, <1>5, <1>7 DEF InvSources

LEMMA StartSourceInv ==
  ASSUME Prompt, IInv, NEW s \in Sources, StartSource(s)
  PROVE  InvPhase' /\ InvSources' /\ InvCounters'
<1>0. /\ pc = "starting" /\ pc' = "starting" /\ s \in todo /\ todo' = todo \ {s}
      /\ Put("Start", s) /\ lresult' = "S_OK"
      /\ device' = IF device[s] = "Uninitialized"
                   THEN [device EXCEPT ![s] = "Initialized"] ELSE device
      /\ UNCHANGED <<sessionState, counterVars, listenVars, streamVars, sourceEvents,
                     streamEvents, sinkEvents>>
  BY DEF StartSource, Prompt, NextSource
<1>1. InvPhase'
  BY <1>0 DEF IInv, InvPhase, Starting, Stopping
<1>a. Rest(s)
  BY <1>0 DEF IInv, InvSources, InvStart, Starting
<1>b. operations'[s] = Append(operations[s], "Start")
  BY <1>0 DEF IInv, TypeOK, Put
<1>2. Rest(s) /\ operations'[s] = <<"Start">>
  BY <1>a, <1>b DEF Rest
<1>3. \A t \in Sources \ {s} : operations'[t] = operations[t] /\ device'[t] = device[t]
  BY <1>0 DEF IInv, TypeOK, Put
<1>4. /\ device'[s] \in {device[s], "Initialized"} /\ device'[s] # "Uninitialized"
      /\ device[s] \in {"Started", "Paused"} <=> device'[s] \in {"Started", "Paused"}
      /\ sessionState = "None" => device'[s] = "Initialized"
  BY <1>0 DEF IInv, TypeOK, InvSources, InvStart, Starting
<1>5. InvActive'
  BY <1>0, <1>3, <1>4 DEF IInv, streamVars, InvSources, InvActive
<1>6. InvListen' /\ InvRest' /\ InvPause' /\ InvStop'
  BY <1>0 DEF IInv, streamVars, InvSources, InvListen, InvRest, InvPause, InvStop,
              Starting, Pausing, Stopping, listenVars
<1>7. InvStart'
  BY <1>0, <1>2, <1>3, <1>4
     DEF IInv, InvSources, InvStart, Starting, Asked, Rest, listenVars
<1>8. Outstanding' = Outstanding
  BY <1>0, <1>2, <1>3 DEF Outstanding
<1>9. InvCounters'
  BY <1>0, <1>8 DEF IInv, InvCounters, Starting, Stopping, counterVars
<1> QED  BY <1>1, <1>5, <1>6, <1>7, <1>9 DEF InvSources

LEMMA StartLoopEndsInv ==
  ASSUME IInv, StartLoopEnds PROVE InvPhase' /\ InvSources' /\ InvCounters'
<1> USE DEF IInv, StartLoopEnds
<1>1. pc' = "startWait"
  BY DEF InvPhase, Starting
<1>2. InvPhase'
  BY <1>1 DEF InvPhase, Starting, Stopping
<1>3. InvActive' /\ InvListen' /\ InvRest' /\ InvPause' /\ InvStop'
  BY <1>1 DEF InvSources, InvActive, InvListen, InvRest, InvPause, InvStop,
              Starting, Pausing, Stopping, sourceVars, streamVars, listenVars
<1>4. InvStart'
  BY <1>1 DEF InvSources, InvStart, Starting, Asked, Rest, sourceVars, streamVars, listenVars
<1>5. InvCounters'
  BY <1>1, OutstandingUnchanged
     DEF InvCounters, Starting, Stopping, counterVars, sourceVars, streamVars
<1> QED  BY <1>2, <1>3, <1>4, <1>5 DEF InvSources

LEMMA StartWaitSucceedsInv ==
  ASSUME IInv, StartWaitSucceeds PROVE InvPhase' /\ InvSources' /\ InvCounters'
<1> USE DEF IInv, StartWaitSucceeds
<1>1. Outstanding = {}
  BY OutstandingCardinality DEF InvCounters, Starting
<1>2. \A s \in Sources : Rest(s) /\ device[s] = "Started" /\ s \in mediaStreams
  BY <1>1, OutstandingRest DEF InvSources, InvStart, Starting, Asked, Rest
<1>3. mediaStreams = Sources
  BY <1>2 DEF TypeOK
<1>4. InvPhase'
  BY DEF InvPhase, Starting, Stopping
<1>5. InvActive' /\ InvListen' /\ InvStart' /\ InvPause' /\ InvStop'
  BY <1>3 DEF InvSources, InvActive, InvListen, InvStart, InvPause, InvStop,
              Starting, Pausing, Stopping, sourceVars, streamVars, listenVars
<1>6. InvRest'
  BY <1>2 DEF InvRest, Starting, Pausing, Stopping, Rest, sourceVars, streamVars
<1>7. InvCounters'
  BY DEF InvCounters, Starting, Stopping, listenVars
<1> QED  BY <1>4, <1>5, <1>6, <1>7 DEF InvSources

\* The wait of a start does not expire: a quiet pipeline has counted all.
LEMMA StartWaitExpiresNever ==
  ASSUME Prompt, IInv PROVE ~ StartWaitExpires
<1> SUFFICES ASSUME StartWaitExpires PROVE FALSE  OBVIOUS
<1>1. Quiet /\ todo = {}
  BY DEF Prompt, StartWaitExpires, MayExpire, IInv, InvPhase
<1>2. PICK s \in Sources : operations[s] # << >> \/ streamEvents[s] # << >>
  BY <1>1, OutstandingCardinality
     DEF StartWaitExpires, IInv, InvCounters, Starting, Outstanding
<1>3. s \notin mediaStreams /\ device[s] = "Started"
  BY <1>1, <1>2 DEF Quiet, StartWaitExpires, IInv, InvSources, InvStart, Starting, Asked, Rest
<1> QED  BY <1>1, <1>3 DEF Quiet, IInv, InvSources, InvActive, InvListen

LEMMA PauseSourcesInv ==
  ASSUME IInv, PauseSources PROVE InvPhase' /\ InvSources' /\ InvCounters'
<1> USE DEF IInv, PauseSources
<1>1. InvPhase'
  BY DEF InvPhase, Starting, Stopping
<1>2. \A s \in Sources : Rest(s) /\ Rest(s)' /\ device[s] = "Started"
  BY DEF InvSources, InvRest, Starting, Stopping, Pausing, Rest, sourceVars, streamVars
<1>3. InvActive' /\ InvListen'
  BY DEF InvSources, InvActive, InvListen, sourceVars, streamVars, listenVars
<1>4. InvRest' /\ InvStart' /\ InvStop'
  BY DEF InvSources, InvRest, InvStart, InvStop, Starting, Stopping, Pausing
<1>5. InvPause'
  BY <1>2 DEF InvPause, sourceVars, streamVars
<1>6. InvCounters'
  BY DEF InvCounters, Starting, Stopping, listenVars
<1> QED  BY <1>1, <1>3, <1>4, <1>5, <1>6 DEF InvSources

LEMMA PauseSourceInv ==
  ASSUME IInv, NEW s \in Sources, PauseSource(s)
  PROVE  InvPhase' /\ InvSources' /\ InvCounters'
<1>0. /\ pc = "pausing" /\ pc' \in {"pausing", "pauseReset"}
      /\ s \in todo /\ todo' = todo \ {s}
      /\ pc' # "pausing" => todo' = {}
      /\ UNCHANGED <<lresult, sessionState, counterVars, listenVars, device, streamVars,
                     sourceEvents, streamEvents, sinkEvents>>
  BY DEF PauseSource, NextSource
<1>a. Rest(s) /\ device[s] = "Started"
  BY <1>0 DEF IInv, InvSources, InvPause, Pausing
<1>b. operations' = [operations EXCEPT ![s] = Append(@, "Pause")]
  BY <1>a DEF PauseSource, Put
<1>c. operations'[s] = Append(operations[s], "Pause")
  BY <1>b DEF IInv, TypeOK
<1>2. operations'[s] = <<"Pause">>
  BY <1>a, <1>c DEF Rest
<1>3. \A t \in Sources \ {s} : operations'[t] = operations[t]
  BY <1>b DEF IInv, TypeOK
<1>1. InvPhase'
  BY <1>0 DEF IInv, InvPhase, Starting, Stopping
<1>5. InvActive' /\ InvListen' /\ InvRest' /\ InvStart' /\ InvStop'
  BY <1>0 DEF IInv, streamVars, InvSources, InvActive, InvListen, InvRest, InvStart, InvStop,
              Starting, Pausing, Stopping, listenVars
<1>7. InvPause'
  BY <1>0, <1>a, <1>2, <1>3 DEF IInv, InvSources, InvPause, Pausing, Asked, Rest
<1>9. InvCounters'
  BY <1>0 DEF IInv, InvCounters, Starting, Stopping, counterVars, listenVars
<1> QED  BY <1>1, <1>5, <1>7, <1>9 DEF InvSources

LEMMA PauseCounterResetInv ==
  ASSUME IInv, PauseCounterReset PROVE InvPhase' /\ InvSources' /\ InvCounters'
<1> USE DEF IInv, PauseCounterReset
<1>1. InvPhase'
  BY DEF InvPhase, Starting, Stopping
<1>2. InvSources'
  BY DEF InvSources, InvActive, InvListen, InvRest, InvStart, InvPause, InvStop,
         Starting, Stopping, Pausing, Rest, Asked, sourceVars, streamVars, listenVars
<1>3. Outstanding' = Outstanding
  BY OutstandingUnchanged DEF sourceVars, streamVars
<1>4. SourceCount >= Cardinality(Outstanding)
  BY OutstandingCardinality, PipelineAssumption, FS_Subset DEF SourceCount
<1>5. InvCounters'
  BY <1>3, <1>4 DEF InvCounters, Starting, Stopping, listenVars
<1> QED  BY <1>1, <1>2, <1>5

\* The wait of a pause may expire, but then too all sources have paused.
LEMMA PauseWaitEndsInv ==
  ASSUME Prompt, IInv, PauseWaitSucceeds \/ PauseWaitExpires
  PROVE  InvPhase' /\ InvSources' /\ InvCounters'
<1>0. /\ pc = "pauseWait" /\ pc' = "clockPause"
      /\ mSourceStreamPausingCount = 0 \/ Quiet
      /\ UNCHANGED <<todo, sessionState, counterVars, listenVars, sourceVars, sinkEvents>>
  BY DEF PauseWaitSucceeds, PauseWaitExpires, Prompt, MayExpire
<1>1. sessionState = "Paused" /\ todo = {}
  BY <1>0 DEF IInv, InvPhase
<1>2. \A s \in Sources : Rest(s)
  <2>1. CASE mSourceStreamPausingCount = 0
    <3>1. Outstanding = {}
      BY <1>0, <2>1, OutstandingCardinality DEF IInv, InvCounters
    <3> QED  BY <3>1, OutstandingRest
  <2>2. CASE Quiet
    BY <1>1, <2>2, QuietRest
  <2> QED  BY <1>0, <2>1, <2>2
<1>3. InvPhase'
  BY <1>0, <1>1 DEF IInv, InvPhase, Starting, Stopping
<1>4. InvActive' /\ InvListen' /\ InvStart' /\ InvPause' /\ InvStop'
  BY <1>0 DEF IInv, InvSources, InvActive, InvListen, InvStart, InvPause, InvStop,
              Starting, Pausing, Stopping, sourceVars, streamVars, listenVars
<1>5. \A s \in Sources : device[s] = "Paused"
  BY <1>0, <1>1, <1>2 DEF IInv, InvSources, InvPause, Pausing, Asked, Rest
<1>6. InvRest'
  BY <1>0, <1>1, <1>2, <1>5 DEF InvRest, Starting, Stopping, Pausing, Rest, sourceVars, streamVars
<1>7. InvCounters'
  BY <1>0 DEF IInv, InvCounters, Starting, Stopping, counterVars, listenVars
<1> QED  BY <1>3, <1>4, <1>6, <1>7 DEF InvSources

LEMMA ClockPauseInv ==
  ASSUME IInv, ClockPause \/ SinkPauseWaitEnds
  PROVE  InvPhase' /\ InvSources' /\ InvCounters'
<1>0. /\ \/ pc = "clockPause" /\ pc' = "sinkPauseWait"
         \/ pc = "sinkPauseWait" /\ pc' = "idle" /\ mStreamSinkCount' = SinkCount
      /\ UNCHANGED <<todo, sessionState, mSourceStreamCount, mSourceStreamPausingCount,
                     listenVars, sourceVars, sinkEvents>>
  BY DEF ClockPause, SinkPauseWaitEnds
<1>1. InvPhase'
  BY <1>0 DEF IInv, InvPhase, Starting, Stopping
<1>2. InvSources'
  BY <1>0 DEF IInv, InvSources, InvActive, InvListen, InvRest, InvStart, InvPause, InvStop,
              Starting, Stopping, Pausing, Rest, sourceVars, streamVars, listenVars
<1>3. InvCounters'
  BY <1>0 DEF IInv, InvCounters, Starting, Stopping, listenVars
<1> QED  BY <1>1, <1>2, <1>3

LEMMA StopSourcesInv ==
  ASSUME IInv, StopSources PROVE InvPhase' /\ InvSources' /\ InvCounters'
<1> USE DEF IInv, StopSources, EnterStop
<1>1. InvPhase'
  BY DEF InvPhase, Starting, Stopping
<1>2. \A s \in Sources : Rest(s) /\ Rest(s)' /\ device[s] \in {"Started", "Paused"}
  BY DEF InvSources, InvRest, Starting, Stopping, Pausing, Rest, sourceVars, streamVars
<1>3. InvActive' /\ InvListen'
  BY DEF InvSources, InvActive, InvListen, sourceVars, streamVars, listenVars
<1>4. InvRest' /\ InvStart' /\ InvPause'
  BY DEF InvSources, InvRest, InvStart, InvPause, Starting, Stopping, Pausing
<1>5. InvStop'
  BY <1>2 DEF InvStop, sourceVars, streamVars
<1>6. Outstanding' = Sources /\ mediaStreams = Sources
  BY <1>2 DEF Outstanding, Rest, InvSources, InvListen
<1>7. InvCounters'
  BY <1>6 DEF InvCounters, Starting, Stopping, listenVars
<1> QED  BY <1>1, <1>3, <1>4, <1>5, <1>7 DEF InvSources

LEMMA StopSourceInv ==
  ASSUME IInv, NEW s \in Sources, StopSource(s)
  PROVE  InvPhase' /\ InvSources' /\ InvCounters'
<1>a. pc = "stopping" /\ s \in todo
  BY DEF StopSource, NextSource
<1>b. Rest(s) /\ device[s] \in {"Started", "Paused"}
  BY <1>a DEF IInv, InvSources, InvStop, Stopping
<1>0. /\ pc' \in {"stopping", "stopWait"}
      /\ todo' = todo \ {s}
      /\ pc' # "stopping" => todo' = {}
      /\ operations' = [operations EXCEPT ![s] = Append(@, "Stop")]
      /\ UNCHANGED <<lresult, sessionState, counterVars, listenVars, device, streamVars,
                     sourceEvents, streamEvents, sinkEvents>>
  BY <1>a, <1>b DEF StopSource, NextSource, Put
<1>c. operations'[s] = Append(operations[s], "Stop")
  BY <1>0 DEF IInv, TypeOK
<1>2. operations'[s] = <<"Stop">>
  BY <1>b, <1>c DEF Rest
<1>3. \A t \in Sources \ {s} : operations'[t] = operations[t]
  BY <1>0 DEF IInv, TypeOK
<1>4. InvPhase'
  BY <1>a, <1>0 DEF IInv, InvPhase, Starting, Stopping
<1>5. InvActive' /\ InvListen' /\ InvRest' /\ InvStart' /\ InvPause'
  BY <1>a, <1>0 DEF IInv, streamVars, InvSources, InvActive, InvListen, InvRest, InvStart, InvPause,
              Starting, Pausing, Stopping, listenVars
<1>6. InvStop'
  BY <1>a, <1>0, <1>b, <1>2, <1>3 DEF IInv, InvSources, InvStop, Stopping, Asked, Rest
<1>7. Outstanding' = Outstanding
  BY <1>a, <1>0, <1>2, <1>3 DEF Outstanding
<1>8. InvCounters'
  BY <1>a, <1>0, <1>7 DEF IInv, InvCounters, Starting, Stopping, counterVars, listenVars
<1> QED  BY <1>4, <1>5, <1>6, <1>8 DEF InvSources

LEMMA StopWaitEndsInv ==
  ASSUME Prompt, IInv, StopWaitEnds PROVE InvPhase' /\ InvSources' /\ InvCounters'
<1> USE DEF IInv, StopWaitEnds
<1>0. /\ pc' = "clockStop" /\ sessionState = "Stopped" /\ todo = {}
      /\ mSourceStreamCount = 0 \/ Quiet
  BY DEF InvPhase, Starting, Stopping, Prompt, MayExpire
<1>1. \A s \in Sources : Rest(s)
  <2>1. CASE mSourceStreamCount = 0
    <3>1. Outstanding = {}
      BY <2>1, OutstandingCardinality DEF InvCounters, Stopping
    <3> QED  BY <3>1, OutstandingRest
  <2>2. CASE Quiet
    BY <1>0, <2>2, QuietRest
  <2> QED  BY <1>0, <2>1, <2>2
<1>2. \A s \in Sources : device[s] = "Stopped"
  BY <1>0, <1>1 DEF InvSources, InvStop, Stopping, Asked, Rest
<1>3. InvPhase'
  BY <1>0 DEF InvPhase, Starting, Stopping
<1>4. InvActive' /\ InvListen' /\ InvStart' /\ InvPause' /\ InvStop'
  BY <1>0 DEF InvSources, InvActive, InvListen, InvStart, InvPause, InvStop,
              Starting, Pausing, Stopping, sourceVars, streamVars, listenVars
<1>5. InvRest'
  BY <1>0, <1>1, <1>2 DEF InvRest, Starting, Stopping, Pausing, Rest, sourceVars, streamVars
<1>6. InvCounters'
  BY <1>0 DEF InvCounters, Starting, Stopping, listenVars
<1> QED  BY <1>3, <1>4, <1>5, <1>6 DEF InvSources

LEMMA ClockStopInv ==
  ASSUME IInv, ClockStop PROVE InvPhase' /\ InvSources' /\ InvCounters'
<1> USE DEF IInv, ClockStop
<1>1. InvPhase'
  BY DEF InvPhase, Starting, Stopping
<1>2. InvSources'
  BY DEF InvSources, InvActive, InvListen, InvRest, InvStart, InvPause, InvStop,
         Starting, Stopping, Pausing, Rest, sourceVars, streamVars, listenVars
<1>3. \A k \in Sinks : sinkEvents'[k] = 1
  BY DEF InvCounters
<1>4. {k \in Sinks : sinkEvents'[k] = 1} = Sinks
  BY <1>3
<1>5. InvCounters'
  BY <1>3, <1>4 DEF InvCounters, Starting, Stopping, counterVars, listenVars, SinkCount
<1> QED  BY <1>1, <1>2, <1>5

LEMMA SinkStopWaitEndsInv ==
  ASSUME Prompt, IInv, SinkStopWaitEnds PROVE InvPhase' /\ InvSources' /\ InvCounters'
<1> USE DEF IInv, SinkStopWaitEnds
<1>1. InvPhase'
  BY DEF InvPhase, Starting, Stopping
<1>2. InvSources'
  BY DEF InvSources, InvActive, InvListen, InvRest, InvStart, InvPause, InvStop,
         Starting, Stopping, Pausing, Rest, sourceVars, streamVars, listenVars
<1>3. \A k \in Sinks : sinkEvents[k] = 0
  <2>1. CASE Quiet
    BY <2>1 DEF Quiet
  <2>2. CASE mStreamSinkCount = 0
    <3> DEFINE Waited == {k \in Sinks : sinkEvents[k] = 1}
    <3>1. Waited = {}
      BY <2>2, SubsetCardinality, PipelineAssumption DEF InvCounters
    <3> QED  BY <3>1 DEF InvCounters
  <2> QED  BY <2>1, <2>2 DEF Prompt, MayExpire
<1>4. InvCounters'
  BY <1>3 DEF InvCounters, Starting, Stopping, listenVars
<1> QED  BY <1>1, <1>2, <1>4

\* An operation that a source executes is the one it has been asked for.
LEMMA SourceInvokeInv ==
  ASSUME IInv, Prompt, NEW s \in Sources, SourceInvoke(s)
  PROVE  InvPhase' /\ InvSources' /\ InvCounters'
<1> DEFINE op     == Head(operations[s])
           target == CASE op = "Start" -> "Started" [] op = "Pause" -> "Paused"
                       [] OTHER -> "Stopped"
           ack    == CASE op = "Start" -> "MEStreamStarted" [] op = "Pause" -> "MEStreamPaused"
                       [] OTHER -> "MEStreamStopped"
<1>0. /\ operations[s] # << >>
      /\ operations' = [operations EXCEPT ![s] = Tail(@)]
      /\ UNCHANGED <<controlVars, counterVars, listenVars, sinkEvents>>
  BY DEF SourceInvoke
<1>1. /\ operations[s] = <<op>> /\ streamEvents[s] = << >>
      /\ s \notin todo
      /\ \/ Starting /\ op = "Start"
         \/ Pausing /\ op = "Pause"
         \/ Stopping /\ op = "Stop"
  <2>1. CASE Starting
    BY <1>0, <2>1 DEF IInv, InvSources, InvStart, Asked, Rest
  <2>2. CASE Pausing
    BY <1>0, <2>2 DEF IInv, InvSources, InvPause, Asked, Rest
  <2>3. CASE Stopping
    BY <1>0, <2>3 DEF IInv, InvSources, InvStop, Asked, Rest
  <2>4. CASE ~ (Starting \/ Pausing \/ Stopping)
    BY <1>0, <2>4 DEF IInv, InvSources, InvRest, Rest
  <2> QED  BY <2>1, <2>2, <2>3, <2>4
<1>a. operations'[s] = Tail(operations[s])
  BY <1>0 DEF IInv, TypeOK
<1>2. operations'[s] = << >>
  BY <1>1, <1>a, TailOfOne, Zenon
<1>3. /\ device' = [device EXCEPT ![s] = target]
      /\ streamEvents' = [streamEvents EXCEPT ![s] = Append(@, ack)]
  BY <1>1 DEF SourceInvoke, SourceStart, SourcePause, SourceStop, Prompt, IInv, InvPrompt,
              InvSources, InvActive, InvPause, InvStop, Starting, Pausing, Stopping
<1>4. streamEvents'[s] = Append(streamEvents[s], ack)
  BY <1>3 DEF IInv, TypeOK
<1>5. streamEvents'[s] = <<ack>> /\ device'[s] = target
  BY <1>1, <1>3, <1>4 DEF IInv, TypeOK
<1>6. \A t \in Sources \ {s} : /\ operations'[t] = operations[t]
                               /\ streamEvents'[t] = streamEvents[t]
                               /\ device'[t] = device[t]
  BY <1>0, <1>3 DEF IInv, TypeOK
<1>7. InvPhase'
  BY <1>0 DEF IInv, InvPhase, Starting, Stopping, controlVars
<1>8. InvStart'
  BY <1>0, <1>1, <1>2, <1>5, <1>6
     DEF IInv, InvSources, InvStart, Starting, Pausing, Stopping, Asked, Rest,
         controlVars, listenVars
<1>9. InvPause'
  BY <1>0, <1>1, <1>2, <1>5, <1>6
     DEF IInv, InvSources, InvPause, Starting, Pausing, Stopping, Asked, Rest, controlVars
<1>10. InvStop'
  BY <1>0, <1>1, <1>2, <1>5, <1>6
     DEF IInv, InvSources, InvStop, Starting, Pausing, Stopping, Asked, Rest, controlVars
<1>11. InvRest'
  BY <1>0, <1>1, <1>6
     DEF IInv, InvSources, InvRest, InvPhase, Starting, Pausing, Stopping, Rest, controlVars
<1>b. \A t \in Sources \ {s} : active'[t] = active[t] /\ sourceEvents'[t] = sourceEvents[t]
  BY <1>1 DEF SourceInvoke, SourceStart, SourcePause, SourceStop, IInv, TypeOK
<1>12. InvActive' /\ InvListen'
  <2>1. CASE Starting
    <3>1. active'[s] = TRUE
      BY <1>1, <2>1 DEF SourceInvoke, SourceStart, Prompt, Starting, Pausing, Stopping, IInv, TypeOK
    <3>2. InvActive'
      BY <1>1, <1>5, <1>6, <1>b, <2>1, <3>1
         DEF Starting, Pausing, Stopping, IInv, InvSources, InvActive
    <3>3. ASSUME s \notin mediaStreams PROVE sourceEvents'[s] = <<"MENewStream">>
      <4>1. ~ active[s]
        BY <1>0, <2>1, <3>3 DEF IInv, InvSources, InvActive, InvListen, InvStart, TypeOK
      <4>2. sourceEvents[s] = << >>
        BY <3>3, <4>1 DEF IInv, InvSources, InvListen
      <4>3. sourceEvents'[s] = Append(sourceEvents[s], "MENewStream")
        BY <1>1, <2>1, <4>1 DEF SourceInvoke, SourceStart, Prompt, Starting, Pausing, Stopping, IInv, TypeOK
      <4> QED  BY <4>2, <4>3
    <3> QED  BY <1>0, <1>b, <3>1, <3>2, <3>3 DEF IInv, InvSources, InvListen, controlVars, listenVars
  <2>2. CASE Pausing \/ Stopping
    <3>1. active'[s] <=> op = "Pause"
      BY <1>1, <2>2 DEF SourceInvoke, SourcePause, SourceStop, Starting, Pausing, Stopping,
                        IInv, TypeOK, InvSources, InvActive, InvPause
    <3>2. InvActive'
      BY <1>1, <1>5, <1>6, <1>b, <2>2, <3>1
         DEF Starting, Pausing, Stopping, IInv, InvSources, InvActive
    <3>3. mediaStreams' = Sources
      BY <1>0, <2>2 DEF Pausing, Stopping, IInv, InvPhase, InvSources, InvListen, listenVars
    <3> QED  BY <3>2, <3>3 DEF InvListen
  <2> QED  BY <1>1, <2>1, <2>2
<1>13. Outstanding' = Outstanding
  BY <1>0, <1>1, <1>2, <1>5, <1>6 DEF Outstanding, controlVars
<1>14. InvCounters'
  BY <1>0, <1>13
     DEF IInv, InvCounters, Starting, Stopping, controlVars, counterVars, listenVars
<1> QED  BY <1>7, <1>8, <1>9, <1>10, <1>11, <1>12, <1>14 DEF InvSources

LEMMA HandleSourceEventInv ==
  ASSUME IInv, NEW s \in Sources, HandleSourceEvent(s)
  PROVE  InvPhase' /\ InvSources' /\ InvCounters'
<1>0. /\ s \in sourceArmed /\ sourceEvents[s] # << >>
      /\ UNCHANGED <<controlVars, counterVars, device, streamVars, operations,
                     streamEvents, sinkEvents>>
      /\ mediaStreams' \in {mediaStreams, mediaStreams \cup {s}}
      /\ \A t \in Sources \ {s} : /\ t \in sourceArmed => t \in sourceArmed'
                                  /\ sourceEvents'[t] = sourceEvents[t]
  BY DEF HandleSourceEvent, IInv, TypeOK
<1>1. s \in mediaStreams'
  <2>1. CASE s \in mediaStreams
    BY <1>0, <2>1
  <2>2. CASE s \notin mediaStreams
    <3>1. sourceEvents[s] = <<"MENewStream">>
      BY <1>0, <2>2 DEF IInv, InvSources, InvListen
    <3>2. Head(sourceEvents[s]) = "MENewStream"
      BY <3>1
    <3> QED  BY <2>2, <3>2 DEF HandleSourceEvent
  <2> QED  BY <2>1, <2>2
<1>2. mediaStreams' = mediaStreams \/ Starting
  <2> SUFFICES ASSUME s \notin mediaStreams PROVE Starting
    BY <1>0
  <2>1. active[s] /\ sessionState = "None"
    BY <1>0 DEF IInv, InvSources, InvListen
  <2> QED  BY <2>1 DEF IInv, InvSources, InvActive, InvRest
<1>3. InvPhase'
  BY <1>0 DEF IInv, InvPhase, Starting, Stopping, controlVars
<1>4. InvActive' /\ InvRest' /\ InvPause' /\ InvStop'
  BY <1>0 DEF IInv, streamVars, InvSources, InvActive, InvRest, InvPause, InvStop,
              Starting, Pausing, Stopping, Rest, Asked, controlVars
<1>5. InvStart'
  BY <1>0 DEF IInv, InvSources, InvStart, Starting, Rest, Asked, controlVars
<1>6. InvListen'
  <2>1. InvListen /\ mediaStreams \subseteq Sources  BY DEF IInv, InvSources, TypeOK
  <2>2. UNCHANGED <<active, sessionState>>  BY <1>0 DEF streamVars, controlVars
  <2>3. sessionState # "None" => mediaStreams' = Sources
    BY <1>0, <2>1 DEF InvListen
  <2>4. ASSUME NEW t \in Sources \ mediaStreams'
        PROVE  /\ t \in sourceArmed'
               /\ sourceEvents'[t] = IF active[t] THEN <<"MENewStream">> ELSE << >>
    BY <1>0, <1>1, <2>1 DEF InvListen
  <2> QED  BY <2>2, <2>3, <2>4 DEF InvListen
<1>7. Outstanding' = Outstanding
  BY <1>0, OutstandingUnchanged DEF controlVars
<1>8. InvCounters'
  BY <1>0, <1>2, <1>7 DEF IInv, InvCounters, Starting, Stopping, controlVars, counterVars
<1> QED  BY <1>3, <1>4, <1>5, <1>6, <1>8 DEF InvSources

\* An acknowledgement is handled once, while the request it answers is made.
LEMMA HandleStreamEventInv ==
  ASSUME IInv, NEW s \in Sources, HandleStreamEvent(s)
  PROVE  InvPhase' /\ InvSources' /\ InvCounters'
<1> DEFINE ack == Head(streamEvents[s])
<1>0. /\ s \in mediaStreams /\ streamEvents[s] # << >>
      /\ streamEvents' = [streamEvents EXCEPT ![s] = Tail(@)]
      /\ UNCHANGED <<controlVars, mStreamSinkCount, listenVars,
                     device, streamVars, operations, sourceEvents, sinkEvents>>
  BY DEF HandleStreamEvent
<1>1. /\ operations[s] = << >> /\ streamEvents[s] = <<ack>> /\ s \notin todo
      /\ \/ Starting /\ ack = "MEStreamStarted"
         \/ Pausing /\ ack = "MEStreamPaused"
         \/ Stopping /\ ack = "MEStreamStopped"
  <2>1. CASE Starting
    BY <1>0, <2>1 DEF IInv, InvSources, InvStart, Asked, Rest
  <2>2. CASE Pausing
    BY <1>0, <2>2 DEF IInv, InvSources, InvPause, Asked, Rest
  <2>3. CASE Stopping
    BY <1>0, <2>3 DEF IInv, InvSources, InvStop, Asked, Rest
  <2>4. CASE ~ (Starting \/ Pausing \/ Stopping)
    BY <1>0, <2>4 DEF IInv, InvSources, InvRest, Rest
  <2> QED  BY <2>1, <2>2, <2>3, <2>4
<1>a. streamEvents'[s] = Tail(streamEvents[s])
  BY <1>0 DEF IInv, TypeOK
<1>2. streamEvents'[s] = << >>
  BY <1>1, <1>a, TailOfOne, Zenon
<1>3. \A t \in Sources \ {s} : streamEvents'[t] = streamEvents[t]
  BY <1>0 DEF IInv, TypeOK
<1>4. InvPhase'
  BY <1>0 DEF IInv, InvPhase, Starting, Stopping, controlVars
<1>5. InvActive' /\ InvListen'
  BY <1>0 DEF IInv, streamVars, InvSources, InvActive, InvListen, controlVars, listenVars
<1>6. InvStart'
  BY <1>0, <1>1, <1>2, <1>3
     DEF IInv, InvSources, InvStart, Starting, Pausing, Stopping, Asked, Rest,
         controlVars, listenVars
<1>7. InvPause'
  BY <1>0, <1>1, <1>2, <1>3
     DEF IInv, InvSources, InvPause, Starting, Pausing, Stopping, Asked, Rest, controlVars
<1>8. InvStop'
  BY <1>0, <1>1, <1>2, <1>3
     DEF IInv, InvSources, InvStop, Starting, Pausing, Stopping, Asked, Rest, controlVars
<1>9. InvRest'
  BY <1>0, <1>1
     DEF IInv, InvSources, InvRest, InvPhase, Starting, Pausing, Stopping, Rest, controlVars
<1>10. s \in Outstanding /\ Outstanding' = Outstanding \ {s}
  BY <1>0, <1>1, <1>2, <1>3 DEF Outstanding, controlVars
<1>11. Cardinality(Outstanding') = Cardinality(Outstanding) - 1
  BY <1>10, SubsetCardinality, OutstandingCardinality, PipelineAssumption DEF IInv
<1>12. InvCounters'
  <2>1. CASE Starting \/ Stopping
    <3>1. mSourceStreamCount' = mSourceStreamCount - 1
      BY <1>1, <2>1 DEF HandleStreamEvent, Starting, Pausing, Stopping
    <3> QED
      BY <1>0, <1>11, <2>1, <3>1
         DEF IInv, InvCounters, Starting, Stopping, controlVars, listenVars
  <2>2. CASE Pausing
    <3>1. /\ mSourceStreamPausingCount' = mSourceStreamPausingCount - 1
          /\ mSourceStreamCount' = mSourceStreamCount
      BY <1>1, <2>2 DEF HandleStreamEvent, Starting, Pausing, Stopping
    <3>2. mSourceStreamPausingCount \in Int /\ Cardinality(Outstanding) \in Nat
      BY OutstandingCardinality DEF IInv, TypeOK
    <3> QED
      BY <1>0, <1>11, <2>2, <3>1, <3>2
         DEF IInv, InvCounters, Starting, Stopping, Pausing, controlVars, listenVars
  <2> QED  BY <1>1, <2>1, <2>2
<1> QED  BY <1>4, <1>5, <1>6, <1>7, <1>8, <1>9, <1>12 DEF InvSources

LEMMA HandleSinkEventInv ==
  ASSUME IInv, NEW k \in Sinks, HandleSinkEvent(k)
  PROVE  InvPhase' /\ InvSources' /\ InvCounters'
<1> USE DEF HandleSinkEvent
<1> DEFINE Waited == {j \in Sinks : sinkEvents[j] = 1}
<1>1. pc = "sinkStopWait" /\ pc' = pc /\ sinkEvents[k] = 1
  BY DEF IInv, InvCounters, controlVars
<1>2. /\ sinkEvents'[k] = 0
      /\ \A j \in Sinks \ {k} : sinkEvents'[j] = sinkEvents[j]
  BY <1>1 DEF IInv, TypeOK
<1>3. InvPhase'
  BY DEF IInv, InvPhase, Starting, Stopping, controlVars
<1>4. InvSources'
  BY <1>1 DEF IInv, InvSources, InvActive, InvListen, InvRest, InvStart, InvPause, InvStop,
         Starting, Stopping, Pausing, Rest, sourceVars, streamVars, listenVars, controlVars
<1>5. Waited' = Waited \ {k} /\ k \in Waited /\ Waited \subseteq Sinks
  BY <1>1, <1>2
<1>6. Cardinality(Waited') = Cardinality(Waited) - 1
  BY <1>5, SubsetCardinality, PipelineAssumption
<1>7. InvCounters'
  BY <1>1, <1>2, <1>6 DEF IInv, InvCounters, Starting, Stopping, listenVars
<1> QED  BY <1>3, <1>4, <1>7

\* No request is postponed when none is made of a paused source.
LEMMA NextPrompt ==
  ASSUME Prompt, InvPrompt, [Next]_vars PROVE InvPrompt' /\ \A s \in Sources : ~ RequestWhilePaused(s)
<1>1. \A s \in Sources : ~ RequestWhilePaused(s)
  BY DEF Prompt, RequestWhilePaused
<1>2. postponed' = postponed
  BY <1>1 DEF Next, Request, Continue, Callback, StartSources, StartSource, StartLoopEnds,
       StartWaitSucceeds, StartWaitExpires, PauseSources, PauseSource, PauseCounterReset,
       PauseWaitSucceeds, PauseWaitExpires, ClockPause, SinkPauseWaitEnds, StopSources,
       StopAfterFailure, EnterStop, StopSource, StopWaitEnds, ClockStop, SinkStopWaitEnds,
       SourceInvoke, HandleSourceEvent, HandleStreamEvent, HandleSinkEvent,
       vars, sourceVars, streamVars
<1> QED  BY <1>1, <1>2 DEF InvPrompt

LEMMA NextIInv ==
  ASSUME Prompt, IInv, [Next]_vars PROVE IInv'
<1>1. CASE Next
  <2>1. TypeOK'
    BY <1>1, NextTypeOK DEF IInv
  <2>2. InvPhase' /\ InvSources' /\ InvCounters'
    <3>1. CASE Request
      BY <3>1, StartSourcesInv, PauseSourcesInv, StopSourcesInv DEF Request
    <3>2. CASE Continue
      <4>1. ~ StopAfterFailure
        BY DEF StopAfterFailure, IInv, InvPhase
      <4> QED
        BY <3>2, <4>1, StartLoopEndsInv, StartWaitSucceedsInv, StartWaitExpiresNever,
           PauseCounterResetInv, PauseWaitEndsInv, ClockPauseInv, StopWaitEndsInv,
           ClockStopInv, SinkStopWaitEndsInv, StartSourceInv, PauseSourceInv, StopSourceInv
           DEF Continue
    <3>3. CASE Callback
      BY <3>3, SourceInvokeInv, HandleSourceEventInv, HandleStreamEventInv, HandleSinkEventInv,
         NextPrompt DEF Callback, IInv
    <3> QED  BY <1>1, <3>1, <3>2, <3>3 DEF Next
  <2> QED  BY <2>1, <2>2, NextPrompt DEF IInv
<1>2. CASE UNCHANGED vars
  BY <1>2, NextPrompt DEF vars, controlVars, counterVars, sourceVars, streamVars, listenVars, IInv, TypeOK,
       InvPhase, InvSources, InvActive, InvListen, InvRest, InvStart, InvPause, InvStop,
       InvCounters, Starting, Pausing, Stopping, Rest, Asked, Outstanding
<1> QED  BY <1>1, <1>2
-----------------------------------------------------------------------------
(***************************************************************************)
(* Theorems.                                                               *)
(***************************************************************************)
\* Type correctness, also when sources fail or answer too late.
THEOREM TypeCorrect == Spec => []TypeOK
<1>1. Init => TypeOK
  BY InitIInv DEF IInv
<1>2. TypeOK /\ [Next]_vars => TypeOK'
  <2>1. ASSUME TypeOK, UNCHANGED vars PROVE TypeOK'
    BY <2>1 DEF vars, controlVars, counterVars, sourceVars, streamVars, listenVars, TypeOK
  <2> QED  BY <2>1, NextTypeOK
<1> QED  BY <1>1, <1>2, PTL DEF Spec

THEOREM Inductive == ASSUME Prompt PROVE Spec => []IInv
<1>1. IInv /\ [Next]_vars => IInv'
  BY NextIInv
<1> QED  BY <1>1, InitIInv, PTL DEF Spec

\* For any number of sources: while the session starts or stops the sources,
\* mSourceStreamCount is exactly the number of acknowledgements still to come.
THEOREM CounterCorrect == ASSUME Prompt PROVE Spec => []CounterIsOutstanding
<1>1. IInv => CounterIsOutstanding
  BY DEF IInv, InvCounters, CounterIsOutstanding, Starting, Stopping
<1> QED  BY <1>1, Inductive, PTL

\* For any number of sources and sinks: a call returns only when every source is
\* where the session says and no acknowledgement is left over.
THEOREM SettledCorrect == ASSUME Prompt PROVE Spec => []IdleSettled
<1>1. IInv => IdleSettled
  <2> SUFFICES ASSUME IInv, pc = "idle"
               PROVE  /\ Outstanding = {}
                      /\ \A k \in Sinks : sinkEvents[k] = 0
                      /\ sessionState # "None" => \A s \in Sources : device[s] = sessionState
    BY DEF IdleSettled
  <2>1. todo = {} /\ \A s \in Sources : Rest(s) /\ (sessionState # "None" => device[s] = sessionState)
    BY DEF IInv, InvPhase, InvSources, InvRest, Starting, Pausing, Stopping
  <2>2. Outstanding = {}
    BY <2>1 DEF Outstanding, Rest
  <2>3. \A k \in Sinks : sinkEvents[k] = 0
    BY DEF IInv, InvCounters
  <2> QED  BY <2>1, <2>2, <2>3
<1> QED  BY <1>1, Inductive, PTL
-----------------------------------------------------------------------------
(***************************************************************************)
(* The pipeline implements CaptureControl.                                 *)
(***************************************************************************)
LEMMA InitImplements == Init => Control!Init
<1> SUFFICES ASSUME Init PROVE Control!Init  OBVIOUS
<1>1. Requested = "none"  BY DEF Init, Requested
<1>2. Reported = [s \in Sources |-> "None"]  BY DEF Init, Reported
<1> QED  BY <1>1, <1>2 DEF Control!Init

\* A step that keeps pc and the devices changes nothing of what is reported.
LEMMA StepKeeps ==
  ASSUME device' = device PROVE Reported' = Reported
  BY DEF Reported

LEMMA ReportedAt ==
  ASSUME TypeOK, NEW st \in {"Started", "Paused", "Stopped"}, NEW s \in Sources, device[s] = st
  PROVE  Reported[s] = st
  BY DEF Reported

\* Between two calls the sources agree, so each new request is one Ask.
LEMMA RequestImplements ==
  ASSUME IInv, Request PROVE Control!Next
<1>1. /\ pc = "idle" /\ Reported' = Reported /\ Requested = "none"
      /\ \E target \in {"Started", "Paused", "Stopped"} :
           /\ Requested' = target
           /\ target = "Paused" => sessionState = "Started"
           /\ target = "Stopped" => sessionState \in {"Started", "Paused"}
  BY StepKeeps DEF Request, StartSources, PauseSources, StopSources, EnterStop,
                   sourceVars, streamVars, Requested
<1>2. \A s \in Sources : Reported[s] = sessionState
  <2>1. CASE sessionState = "None"
    BY <1>1, <2>1 DEF IInv, InvSources, InvRest, Starting, Reported
  <2>2. CASE sessionState # "None"
    BY <1>1, <2>2, ReportedAt
       DEF IInv, TypeOK, InvSources, InvRest, Starting, Pausing, Stopping
  <2> QED  BY <2>1, <2>2
<1>3. sessionState \in {"None", "Started", "Paused", "Stopped"}
  BY DEF IInv, TypeOK
<1> QED  BY <1>1, <1>2, <1>3 DEF Control!Next, Control!Ask, Control!Legal

\* A source that changes state complies with the request being made.
LEMMA SourceInvokeImplements ==
  ASSUME Prompt, IInv, NEW s \in Sources, SourceInvoke(s)
  PROVE  Control!Next \/ UNCHANGED Control!vars
<1>1. pc' = pc /\ operations[s] # << >>
  BY DEF SourceInvoke, controlVars
<1>2. \E target \in {"Started", "Paused", "Stopped"} :
        /\ Requested = target /\ Requested' = target
        /\ device' = [device EXCEPT ![s] = target]
  <2>1. CASE Starting
    <3>1. Head(operations[s]) = "Start"
      BY <1>1, <2>1 DEF IInv, InvSources, InvStart, Asked, Rest
    <3> QED  BY <1>1, <2>1, <3>1 DEF SourceInvoke, SourceStart, Prompt, IInv, InvPrompt, Starting, Requested
  <2>2. CASE Pausing
    <3>1. Head(operations[s]) = "Pause"
      BY <1>1, <2>2 DEF IInv, InvSources, InvPause, Asked, Rest
    <3> QED  BY <1>1, <2>2, <3>1 DEF SourceInvoke, SourcePause, Pausing, Requested
  <2>3. CASE Stopping
    <3>1. Head(operations[s]) = "Stop"
      BY <1>1, <2>3 DEF IInv, InvSources, InvStop, Asked, Rest
    <3> QED  BY <1>1, <2>3, <3>1 DEF SourceInvoke, SourceStop, Stopping, Requested
  <2>4. CASE ~ (Starting \/ Pausing \/ Stopping)
    BY <1>1, <2>4 DEF IInv, InvSources, InvRest, Rest
  <2> QED  BY <2>1, <2>2, <2>3, <2>4
<1>3. Reported' = [Reported EXCEPT ![s] = Requested]
  BY <1>2 DEF IInv, TypeOK, Reported
<1>4. Reported \in [Sources -> {"None", "Started", "Paused", "Stopped"}]
  BY DEF IInv, TypeOK, Reported
<1>5. CASE Reported[s] = Requested
  <2>1. Reported' = Reported
    BY <1>3, <1>4, <1>5
  <2> QED  BY <1>2, <2>1 DEF Control!vars
<1>6. CASE Reported[s] # Requested
  BY <1>2, <1>3, <1>6 DEF Control!Next, Control!Comply
<1> QED  BY <1>5, <1>6

\* A call that returns grants its request; its other steps change nothing that
\* CaptureControl speaks of.
LEMMA ContinueImplements ==
  ASSUME Prompt, IInv, Continue PROVE Control!Next \/ UNCHANGED Control!vars
<1>1. CASE StartWaitSucceeds \/ SinkPauseWaitEnds \/ SinkStopWaitEnds
  <2>1. /\ pc \in {"startWait", "sinkPauseWait", "sinkStopWait"} /\ pc' = "idle"
        /\ Reported' = Reported
    BY <1>1, StepKeeps DEF StartWaitSucceeds, SinkPauseWaitEnds, SinkStopWaitEnds, sourceVars, streamVars
  <2>2. \A s \in Sources : device[s] = Requested
    <3>1. CASE StartWaitSucceeds
      <4>1. Outstanding = {}
        BY <3>1, OutstandingCardinality DEF IInv, StartWaitSucceeds, InvCounters, Starting
      <4>2. \A s \in Sources : Rest(s) /\ device[s] = "Started"
        BY <3>1, <4>1, OutstandingRest
           DEF StartWaitSucceeds, IInv, InvSources, InvStart, Starting, Asked, Rest
      <4> QED  BY <3>1, <4>2 DEF StartWaitSucceeds, Requested
    <3>2. CASE pc \in {"sinkPauseWait", "sinkStopWait"}
      BY <3>2 DEF IInv, InvPhase, InvSources, InvRest, Starting, Pausing, Stopping, Requested
    <3> QED  BY <1>1, <3>1, <3>2 DEF SinkPauseWaitEnds, SinkStopWaitEnds
  <2>3. /\ Requested \in {"Started", "Paused", "Stopped"} /\ Requested' = "none"
        /\ \A s \in Sources : Reported[s] = Requested
    BY <2>1, <2>2, ReportedAt DEF IInv, Requested
  <2> QED  BY <2>1, <2>3 DEF Control!Next, Control!Grant
<1>2. CASE \E s \in Sources : StartSource(s)
  <2>1. Reported' = Reported
    BY <1>2 DEF StartSource, Prompt, IInv, TypeOK, Reported
  <2>2. Requested' = Requested
    BY <1>2 DEF StartSource, Requested
  <2> QED  BY <2>1, <2>2 DEF Control!vars
<1>3. CASE \E s \in Sources : PauseSource(s) \/ StopSource(s)
  <2>1. device' = device
    BY <1>3 DEF PauseSource, StopSource
  <2>2. Requested' = Requested
    BY <1>3 DEF PauseSource, StopSource, Requested, IInv, InvSources, InvStop, Stopping
  <2> QED  BY <2>1, <2>2, StepKeeps DEF Control!vars
<1>4. CASE \/ StartLoopEnds \/ PauseCounterReset \/ PauseWaitSucceeds \/ PauseWaitExpires
           \/ ClockPause \/ StopWaitEnds \/ ClockStop
  <2>1. device' = device
    BY <1>4 DEF StartLoopEnds, PauseCounterReset, PauseWaitSucceeds, PauseWaitExpires,
                ClockPause, StopWaitEnds, ClockStop, sourceVars, streamVars
  <2>2. Requested' = Requested
    BY <1>4 DEF StartLoopEnds, PauseCounterReset, PauseWaitSucceeds, PauseWaitExpires,
                ClockPause, StopWaitEnds, ClockStop, Requested,
                IInv, InvPhase, Starting, Stopping
  <2> QED  BY <2>1, <2>2, StepKeeps DEF Control!vars
<1>5. ~ StartWaitExpires /\ ~ StopAfterFailure
  BY StartWaitExpiresNever DEF StopAfterFailure, IInv, InvPhase
<1> QED  BY <1>1, <1>2, <1>3, <1>4, <1>5 DEF Continue

\* For any number of sources and sinks: the handshake of counters and condition
\* variables implements one request at a time over all the sources together.
THEOREM Refinement == ASSUME Prompt PROVE Spec => Control!Spec
<1>1. IInv /\ [Next]_vars => [Control!Next]_(Control!vars)
  <2> SUFFICES ASSUME IInv, [Next]_vars
               PROVE  Control!Next \/ UNCHANGED Control!vars
    OBVIOUS
  <2>1. CASE Request
    BY <2>1, RequestImplements
  <2>2. CASE Continue
    BY <2>2, ContinueImplements
  <2>3. CASE Callback
    <3>1. CASE \E s \in Sources : SourceInvoke(s)
      BY <3>1, SourceInvokeImplements
    <3>2. CASE \/ \E s \in Sources : HandleSourceEvent(s) \/ HandleStreamEvent(s)
               \/ \E k \in Sinks : HandleSinkEvent(k)
      <4>1. UNCHANGED <<pc, device>>
        BY <3>2 DEF HandleSourceEvent, HandleStreamEvent, HandleSinkEvent,
                    controlVars, sourceVars, streamVars
      <4> QED  BY <4>1, StepKeeps DEF Control!vars, Requested
    <3> QED  BY <2>3, <3>1, <3>2, NextPrompt DEF Callback, IInv
  <2>4. CASE UNCHANGED vars
    BY <2>4, StepKeeps DEF vars, controlVars, sourceVars, streamVars, Control!vars, Requested
  <2> QED  BY <2>1, <2>2, <2>3, <2>4 DEF Next
<1> QED  BY <1>1, InitImplements, Inductive, PTL DEF Spec, Control!Spec
-----------------------------------------------------------------------------
(***************************************************************************)
(* What holds of the pipeline whatever its sources do: also when they      *)
(* fail, answer too late, or are asked for samples while they are paused.  *)
(* First, the gate of the samples.                                         *)
(***************************************************************************)
Starts == {"starting", "startWait"}
Pauses == {"pausing", "pauseReset", "pauseWait", "clockPause", "sinkPauseWait"}
Stops  == {"stopping", "stopWait", "clockStop", "sinkStopWait"}

\* The gate, the state reported and the failure of a start go together all the
\* way through a call: a stop that ends with a failure closes the session, and
\* only one that ends without comes back to it.
GateInv ==
    /\ GateFollowsSession
    /\ pc \in Starts => m_processSampleAccess
    /\ pc = "startFailed" => lresult # "S_OK"
    /\ pc \in Pauses => ~ m_processSampleAccess /\ sessionState = "Paused"
    /\ pc \in Stops => ~ m_processSampleAccess
    /\ pc \in {"stopping", "stopWait"} => lresult # "S_OK" \/ sessionState = "Stopped"
    /\ pc \in {"clockStop", "sinkStopWait"} => sessionState = "Stopped"

LEMMA RequestGate == ASSUME GateInv, Request PROVE GateInv'
  BY DEF Request, StartSources, PauseSources, StopSources, EnterStop,
         GateInv, GateFollowsSession, Starts, Pauses, Stops

LEMMA ContinueGate == ASSUME GateInv, Continue PROVE GateInv'
<1> USE DEF GateInv, GateFollowsSession, Starts, Pauses, Stops
<1>1. CASE StartLoopEnds \/ StartWaitSucceeds \/ StartWaitExpires
  BY <1>1 DEF StartLoopEnds, StartWaitSucceeds, StartWaitExpires
<1>2. CASE PauseCounterReset \/ PauseWaitSucceeds \/ PauseWaitExpires
  BY <1>2 DEF PauseCounterReset, PauseWaitSucceeds, PauseWaitExpires
<1>3. CASE ClockPause \/ SinkPauseWaitEnds
  BY <1>3 DEF ClockPause, SinkPauseWaitEnds
<1>4. CASE StopAfterFailure \/ StopWaitEnds
  BY <1>4 DEF StopAfterFailure, EnterStop, StopWaitEnds
<1>5. CASE ClockStop \/ SinkStopWaitEnds
  BY <1>5 DEF ClockStop, SinkStopWaitEnds
<1>6. ASSUME NEW s \in Sources, StartSource(s) PROVE GateInv'
  BY <1>6 DEF StartSource
<1>7. ASSUME NEW s \in Sources, PauseSource(s) PROVE GateInv'
  BY <1>7 DEF PauseSource
<1>8. ASSUME NEW s \in Sources, StopSource(s) PROVE GateInv'
  BY <1>8 DEF StopSource
<1> QED
  BY <1>1, <1>2, <1>3, <1>4, <1>5, <1>6, <1>7, <1>8 DEF Continue

LEMMA CallbackGate == ASSUME GateInv, Callback PROVE GateInv'
<1>1. UNCHANGED <<pc, lresult, sessionState, m_processSampleAccess>>
  BY DEF Callback, SourceInvoke, RequestWhilePaused, HandleSourceEvent, HandleStreamEvent,
         HandleSinkEvent, controlVars
<1> QED
  BY <1>1 DEF GateInv, GateFollowsSession

LEMMA StutterGate == ASSUME GateInv, UNCHANGED vars PROVE GateInv'
  BY DEF vars, controlVars, GateInv, GateFollowsSession

\* However a call ends, by success, failure or expiry, and however late sources
\* answer: a call that has returned leaves the gate open exactly when the
\* session is Started.
THEOREM GateCorrect == Spec => []GateFollowsSession
<1>1. Init => GateInv
  BY DEF Init, GateInv, GateFollowsSession, Starts, Pauses, Stops
<1>2. GateInv /\ [Next]_vars => GateInv'
  BY RequestGate, ContinueGate, CallbackGate, StutterGate DEF Next
<1>3. GateInv => GateFollowsSession
  BY DEF GateInv
<1> QED
  BY <1>1, <1>2, <1>3, PTL DEF Spec
-----------------------------------------------------------------------------
(***************************************************************************)
(* The announcement of the streams.                                        *)
(***************************************************************************)
\* Between two announcements in q the source is stopped.  Position 0 stands for
\* an announcement that was handled, the last one for that of the next start.
Once(q, listened, running) ==
    \A i \in 0..Len(q), j \in 1..(Len(q) + 1) :
        /\ i < j
        /\ IF i = 0 THEN listened ELSE q[i] = "MENewStream"
        /\ IF j = Len(q) + 1 THEN ~ running ELSE q[j] = "MENewStream"
        => \E k \in 1..Len(q) : i < k /\ k < j /\ q[k] = "MESourceStopped"

AnnounceInv ==
    \A s \in sourceArmed : Once(sourceEvents[s], s \in mediaStreams, active[s])

LEMMA AppendNew ==
  ASSUME NEW q \in Seq(SourceEvent), NEW l \in BOOLEAN, Once(q, l, FALSE)
  PROVE  Once(Append(q, "MENewStream"), l, TRUE)
  BY DEF Once, SourceEvent

LEMMA AppendUpdated ==
  ASSUME NEW q \in Seq(SourceEvent), NEW l \in BOOLEAN, Once(q, l, TRUE)
  PROVE  Once(Append(q, "MEUpdatedStream"), l, TRUE)
  BY DEF Once, SourceEvent

LEMMA AppendStopped ==
  ASSUME NEW q \in Seq(SourceEvent), NEW l \in BOOLEAN, NEW r \in BOOLEAN, Once(q, l, r)
  PROVE  Once(Append(q, "MESourceStopped"), l, FALSE)
  BY DEF Once, SourceEvent

\* What is taken from the head of q, but for a stop, becomes position 0.
LEMMA TailOnce ==
  ASSUME NEW q \in Seq(SourceEvent), NEW l \in BOOLEAN, NEW r \in BOOLEAN, Once(q, l, r),
         q # << >>, Head(q) # "MESourceStopped"
  PROVE  Once(Tail(q), l \/ Head(q) = "MENewStream", r)
<1> DEFINE t == Tail(q)
<1>1. /\ t \in Seq(SourceEvent) /\ Len(t) = Len(q) - 1 /\ Len(q) \in Nat \ {0}
      /\ \A n \in 1..Len(t) : t[n] = q[n + 1]
      /\ Head(q) = q[1]
  OBVIOUS
<1> HIDE DEF t
<1> SUFFICES ASSUME NEW i \in 0..Len(t), NEW j \in 1..(Len(t) + 1), i < j,
                    IF i = 0 THEN l \/ Head(q) = "MENewStream" ELSE t[i] = "MENewStream",
                    IF j = Len(t) + 1 THEN ~ r ELSE t[j] = "MENewStream"
             PROVE  \E n \in 1..Len(t) : i < n /\ n < j /\ t[n] = "MESourceStopped"
  BY DEF Once, t
<1>2. IF j + 1 = Len(q) + 1 THEN ~ r ELSE q[j + 1] = "MENewStream"
  <2>1. CASE j = Len(t) + 1  BY <1>1, <2>1
  <2>2. CASE j # Len(t) + 1
    <3>1. j \in 1..Len(t) /\ t[j] = "MENewStream"  BY <1>1, <2>2
    <3>2. t[j] = q[j + 1]  BY <1>1, <3>1
    <3> QED  BY <1>1, <2>2, <3>1, <3>2
  <2> QED  BY <2>1, <2>2
<1>3. \E h \in {0, i + 1} :
         /\ h = 0 => i = 0
         /\ IF h = 0 THEN l ELSE q[h] = "MENewStream"
  <2>1. CASE i = 0 /\ l  BY <2>1
  <2>2. CASE i = 0 /\ ~ l
    <3>1. q[1] = "MENewStream"  BY <1>1, <2>2
    <3> QED  BY <2>2, <3>1
  <2>3. CASE i # 0
    <3>1. i \in 1..Len(t) /\ t[i] = "MENewStream"  BY <2>3
    <3>2. t[i] = q[i + 1]  BY <1>1, <3>1
    <3>3. i + 1 # 0  BY <3>1
    <3> WITNESS i + 1 \in {0, i + 1}
    <3> QED  BY <3>1, <3>2, <3>3, Zenon
  <2> QED  BY <2>1, <2>2, <2>3
<1>4. PICK h \in {0, i + 1} :
         /\ h = 0 => i = 0
         /\ IF h = 0 THEN l ELSE q[h] = "MENewStream"
  BY <1>3, Zenon
<1>5. PICK k \in 1..Len(q) : h < k /\ k < j + 1 /\ q[k] = "MESourceStopped"
  <2>1. h \in 0..Len(q) /\ j + 1 \in 1..(Len(q) + 1) /\ h < j + 1  BY <1>1
  <2> QED  BY <1>2, <1>4, <2>1, Zenon DEF Once
<1>6. k # 1 /\ k - 1 \in 1..Len(t) /\ t[k - 1] = "MESourceStopped"
  BY <1>1, <1>5
<1>7. i < k - 1 /\ k - 1 < j
  BY <1>1, <1>4, <1>5, <1>6
<1> QED
  BY <1>6, <1>7

LEMMA OnceUnread ==
  ASSUME NEW s \in Sources, TypeOK, AnnounceInv, s \in sourceArmed \cap mediaStreams,
         sourceEvents[s] # << >>
  PROVE  Head(sourceEvents[s]) # "MENewStream"
<1> DEFINE q == sourceEvents[s]
<1>1. q \in Seq(SourceEvent) /\ Len(q) \in Nat \ {0} /\ Head(q) = q[1]
  BY DEF TypeOK
<1>2. Once(q, TRUE, active[s])
  BY DEF AnnounceInv
<1> HIDE DEF q
<1> SUFFICES ASSUME Head(q) = "MENewStream" PROVE FALSE
  BY DEF q
<1>3. \E k \in 1..Len(q) : 0 < k /\ k < 1 /\ q[k] = "MESourceStopped"
  BY <1>1, <1>2 DEF Once
<1> QED
  BY <1>1, <1>3

LEMMA SourceInvokeAnnounce ==
  ASSUME TypeOK, AnnounceInv, NEW s \in Sources, SourceInvoke(s) PROVE AnnounceInv'
<1>1. UNCHANGED listenVars
  BY DEF SourceInvoke
<1> SUFFICES ASSUME NEW z \in sourceArmed
             PROVE  Once(sourceEvents[z]', z \in mediaStreams, active[z]')
  BY <1>1 DEF AnnounceInv, listenVars
<1>2. /\ z \in Sources /\ sourceEvents[z] \in Seq(SourceEvent) /\ active[z] \in BOOLEAN
      /\ Once(sourceEvents[z], z \in mediaStreams, active[z])
  BY DEF TypeOK, AnnounceInv
<1>3. CASE z # s \/ UNCHANGED <<active, sourceEvents>>
  <2>1. sourceEvents'[z] = sourceEvents[z] /\ active'[z] = active[z]
    BY <1>2, <1>3 DEF SourceInvoke, SourceStart, SourcePause, SourceStop, TypeOK
  <2> QED
    BY <1>2, <2>1
<1>4. CASE z = s /\ SourceStart(s) /\ ~ UNCHANGED <<active, sourceEvents>>
  <2>1. /\ active'[s] = TRUE
        /\ sourceEvents'[s] = Append(sourceEvents[s],
               IF active[s] THEN "MEUpdatedStream" ELSE "MENewStream")
    BY <1>4 DEF SourceStart, TypeOK
  <2>2. (z \in mediaStreams) \in BOOLEAN
    OBVIOUS
  <2>3. CASE active[s] = TRUE
    <3>1. Once(Append(sourceEvents[s], "MEUpdatedStream"), s \in mediaStreams, TRUE)
      BY <1>2, <1>4, <2>2, <2>3, AppendUpdated, Zenon
    <3> QED
      BY <1>4, <2>1, <2>3, <3>1, Zenon
  <2>4. CASE active[s] = FALSE
    <3>1. Once(Append(sourceEvents[s], "MENewStream"), s \in mediaStreams, TRUE)
      BY <1>2, <1>4, <2>2, <2>4, AppendNew, Zenon
    <3> QED
      BY <1>4, <2>1, <2>4, <3>1, Zenon
  <2> QED
    BY <1>2, <1>4, <2>3, <2>4
<1>5. CASE z = s /\ SourceStop(s)
  <2>1. active'[s] = FALSE /\ sourceEvents'[s] = Append(sourceEvents[s], "MESourceStopped")
    BY <1>5 DEF SourceStop, TypeOK
  <2>2. (z \in mediaStreams) \in BOOLEAN
    OBVIOUS
  <2>3. Once(Append(sourceEvents[s], "MESourceStopped"), s \in mediaStreams, FALSE)
    BY <1>2, <1>5, <2>2, AppendStopped, Zenon
  <2> QED
    BY <1>5, <2>1, <2>3, Zenon
<1> QED
  BY <1>3, <1>4, <1>5 DEF SourceInvoke, SourcePause

LEMMA HandleSourceEventAnnounce ==
  ASSUME TypeOK, AnnounceInv, NEW s \in Sources, HandleSourceEvent(s) PROVE AnnounceInv'
<1> SUFFICES ASSUME NEW z \in sourceArmed'
             PROVE  Once(sourceEvents[z]', (z \in mediaStreams)', active[z]')
  BY Zenon DEF AnnounceInv
<1>1. sourceArmed' \subseteq sourceArmed /\ active' = active
  BY DEF HandleSourceEvent, streamVars
<1>2. /\ z \in Sources /\ sourceEvents[z] \in Seq(SourceEvent) /\ active[z] \in BOOLEAN
      /\ Once(sourceEvents[z], z \in mediaStreams, active[z])
  BY <1>1 DEF TypeOK, AnnounceInv
<1>3. CASE z # s
  <2>1. sourceEvents'[z] = sourceEvents[z] /\ (z \in mediaStreams' <=> z \in mediaStreams)
    BY <1>2, <1>3 DEF HandleSourceEvent, TypeOK
  <2> QED
    BY <1>1, <1>2, <2>1
<1>4. CASE z = s
  <2> DEFINE q == sourceEvents[s]
  <2>1. q # << >> /\ sourceEvents'[s] = Tail(q)
    BY DEF HandleSourceEvent, TypeOK
  <2>2. Head(q) # "MESourceStopped"
    BY <1>4 DEF HandleSourceEvent
  <2>3. s \in mediaStreams' <=> s \in mediaStreams \/ Head(q) = "MENewStream"
    BY <1>4 DEF HandleSourceEvent
  <2> HIDE DEF q
  <2>4. Once(Tail(q), s \in mediaStreams \/ Head(q) = "MENewStream", active[s])
    <3>1. q \in Seq(SourceEvent) /\ (s \in mediaStreams) \in BOOLEAN
      BY <1>2, <1>4 DEF q
    <3> QED
      BY <1>2, <1>4, <2>1, <2>2, <3>1, TailOnce, Zenon DEF q
  <2> QED
    BY <1>1, <1>4, <2>1, <2>3, <2>4
<1> QED
  BY <1>3, <1>4

LEMMA NextAnnounce == ASSUME TypeOK, AnnounceInv, [Next]_vars PROVE AnnounceInv'
<1>1. CASE UNCHANGED <<listenVars, sourceEvents, active>>
  BY <1>1 DEF AnnounceInv, listenVars
<1>2. CASE Request \/ Continue
  <2>1. UNCHANGED <<listenVars, sourceEvents, active>>
    BY <1>2 DEF Request, Continue, StartSources, StartSource, StartLoopEnds,
         StartWaitSucceeds, StartWaitExpires, PauseSources, PauseSource, PauseCounterReset,
         PauseWaitSucceeds, PauseWaitExpires, ClockPause, SinkPauseWaitEnds, StopSources,
         StopAfterFailure, EnterStop, StopSource, StopWaitEnds, ClockStop, SinkStopWaitEnds,
         sourceVars, streamVars
  <2> QED
    BY <1>1, <2>1
<1>3. CASE Callback
  <2>1. ASSUME NEW s \in Sources, RequestWhilePaused(s) \/ HandleStreamEvent(s) PROVE AnnounceInv'
    BY <1>1, <2>1 DEF RequestWhilePaused, HandleStreamEvent, streamVars
  <2>2. ASSUME NEW k \in Sinks, HandleSinkEvent(k) PROVE AnnounceInv'
    BY <1>1, <2>2 DEF HandleSinkEvent, sourceVars, streamVars
  <2> QED
    BY <1>3, <2>1, <2>2, SourceInvokeAnnounce, HandleSourceEventAnnounce DEF Callback
<1>4. CASE UNCHANGED vars
  BY <1>1, <1>4 DEF vars, sourceVars, streamVars
<1> QED
  BY <1>2, <1>3, <1>4 DEF Next

\* However often a source is stopped, started and started again, and however its
\* events are delayed: the pipeline never takes a second announcement of a stream
\* while it still listens to the source.
THEOREM AnnouncedOnce == Spec => []StreamAnnouncedOnce
<1>1. Init => AnnounceInv
  BY DEF Init, AnnounceInv, Once
<1>2. TypeOK /\ AnnounceInv /\ [Next]_vars => AnnounceInv'
  BY NextAnnounce
<1>3. TypeOK /\ AnnounceInv => StreamAnnouncedOnce
  BY OnceUnread DEF StreamAnnouncedOnce, TypeOK
<1> QED
  BY <1>1, <1>2, <1>3, TypeCorrect, PTL DEF Spec
=============================================================================
