# Verification of CaptureManager

TLA+ models of the capture engine in `src/CaptureManagerSource` (Windows, Media
Foundation), model-checked with TLC and, for what matters most, proved with TLAPS.
`PROJECT.json` lists the components, runs, hazards, findings and theorems, and maps each
definition to the lines it translates.

## 1. The system

An application asks `SessionProcessorManager` (through the COM server) for a session,
and starts, pauses, stops and closes it. Below that:

| Component | State it keeps | Operations |
|---|---|---|
| `SessionProcessor` | `mIsStarted`, one mutex and one condition variable for the calls | setTopology, startCapture, pauseCapture, stopCapture, close; `Invoke` for session events |
| `CustomisedMediaSession` | `mMediaSessionSate`, event queue, init barrier, list of pipelines | SetTopology, Start, Pause, Stop, Close, Shutdown, pause/resume/attach/detach of switchers |
| `CustomisedMediaPipelineProcessor` | three counters with condition variables, `m_processSampleAccess`, sample times, serial work queue | startSources, pauseSources, stopSources; callbacks for source, stream and sink events; pull and push of samples |
| `CaptureSource`, `CaptureStream` | `mState`, `mIsActive`, postponed token, work queue, event queues | Start, Pause, Stop, RequestSample |
| `CustomisedTeeNode` | `mIsReady` | registerOutputNodeRequest, processInput, reset |
| `Switcher` | the sample held, pause flag, pause offset, last stamp | ProcessInput, ProcessOutput, pause, resume, reset |
| `CustomisedPresentationClock` | map of clock state sinks | start, stop, pause |
| `EVRMultiSink` (stream sinks of several videos) | stream state, the early sample (`mNewSample`, `mTimeStamp`), the timer (`ScheduleWorkImpl`: `mStopFlag`, `mCancelKey`) | OnClock..., ProcessSample, update; start, stop and the work item of the timer |
| `SampleGrabberCall` (SYNC, ASYNC, PULL) | one buffer with its size and `mReadyToRead`; in PULL a stream sink | writeData, readData, OnClock... |
| `AudioEndpointCapture` | audio client, half-full buffer, queue of buffers, silence flags, `mState` | start, stop, pause, shutdown, getNewSample, invoke |
| `ScreenCaptureProcessor` | container of one image or a sample, resources, `mState` | setCurrentMediaType, start, stop, pause, shutdown, getNewSample, invoke |
| `CaptureInvoker` | a thread and `mCaptureInvokerState` | start, stop (joins), invoke |
| `SampleAccumulator`, `CustomisedMixerNode` | queues of samples, last samples | ProcessInput, ProcessOutput |

Calls go down this list synchronously; answers come up as Media Foundation events, each
handled by a callback on a thread of Media Foundation. What is hard about it:

- **Waits for events that may be somebody else's.** Both `SessionProcessor` and the pipeline
  block on condition variables with a time limit. The events they wait for come early,
  late, or belong to the call before. Those of `SessionProcessor`, of the timer, of the sources of sound and (twice) of images have no predicate
  either, so that they may also end without a cause.
- **Counters shared by calls.** `stopSources` waits on a counter that the last start has
  left behind; `finishSourceStreamPausing` sets its counter a second time.
- **Requests that keep the session alive.** Samples flow only while requests go round; each
  queue, switcher, gate or barrier on the way may drop one.
- **Gates read without a lock**, by the thread of the work queue, while a call shuts them.
- **A closing session**, whose events are discarded while calls still wait for them.
- **Samples that are changed in place** while several branches hold them.
- **A barrier** that counts streams under one mutex and is set up again under another, or none.
- **Timers and threads that outlive a stop**: a work item that schedules itself again while stop
  cancels the item before, a thread that tests `mState` and then uses what a stop releases.
- **Flags read without the mutex** that protects the data behind them (`mReadyToRead`, `IsBufferReady`, `mNewSample`).
- **Stamps kept over calls**: sample times, pause offsets and half-full buffers that a stop resets, or does not.

What each component promises is stated as properties in its module; the hazards are
listed at their lines in `PROJECT.json`.

## 2. Modules

| Module | Models | Extends / uses |
|---|---|---|
| `CaptureControl` | abstract: one request at a time changes all sources together | |
| `MediaPipelineProcessor` | start/pause/stop handshake of session, pipeline, sources and stream sinks | instance of `CaptureControl` |
| `SessionProcessor` | the synchronous calls on top of the asynchronous session | |
| `SampleFlow` | requests and samples between source, tee, switchers and sinks | |
| `Switcher` | stamps and pause offsets of the branches of a tee | |
| `InitBarrier` | the barrier at which the streams of a session wait for each other's first sample | |
| `SampleTimes` | the stamps of one stream across pauses and stops, with a switcher behind it | |
| `Ticker` | abstract: what a sink expects of its timer | |
| `ScheduleWork` | the timer of a video sink, its work items and their cancellation | instance of `Ticker` |
| `EVRStreamSink` | the stream sink of several videos, early and due samples | extends `ScheduleWork` |
| `SampleGrabber` | the buffer between a session and the readers of an application | |
| `AudioEndpointCapture` | a source of sound, with the thread of `CaptureInvoker` | |
| `ScreenCaptureProcessor` | a source of images behind its `CaptureSource`, with the thread of `CaptureInvoker` | |
| `MediaPipelineProcessorProofs`, `SessionProcessorProofs`, `SampleFlowProofs`, `SwitcherProofs`, `SampleGrabberProofs`, `AudioEndpointCaptureProofs` | the theorems of section 5 | the module of that name |
| `EVRStreamSinkProofs` | the theorems about the sink and its timer | `EVRStreamSink` (and with it `ScheduleWork`) |
| `StreamProofs` | the theorems about the barrier, the stamps and the images | `InitBarrier`, `SampleTimes`, `ScreenCaptureProcessor` |
| `MC...` | the instances for TLC, with a `.cfg` for each run | |

### MediaPipelineProcessor

`pc` is the line of the control thread (a call of `CustomisedMediaSession`, which holds
`mAccesseMutex` all the while); the loop over the sources takes one step per source, because
sources answer while it is still going on. `operations[s]` is the work queue of source `s`,
`sourceEvents` and `streamEvents` are its Media Foundation event queues, `sourceArmed` and
`mediaStreams` say for which of them a `BeginGetEvent` is outstanding. The counters have the names
of the code. `Continue` is what the call does by itself, `Request` is a new call, `Callback`
the events and work items that other threads handle.

- Media Foundation's queues keep their order and deliver one event per subscription.
- A wait may expire when nothing is under way any more (`Quiet`) or, with `SlowSources`, at
  any time.
- `FaultySources` fail in `Start`, or at the device so that no event ever comes.
- `HastySources` are asked for a sample while they are paused (by a sink's own timer, or
  by a request that was on its way when the pause began).
- Stream sinks answer `MEStreamSinkStopped` to a stop; nothing pauses them, since the clock's
  pause reaches only the pipelines.

### Histories

The code does not exclude what breaks some of its promises: an answer that comes after its wait has ended, a callback that overtakes another, a
start of what is started already. No constant excludes these either. Such a module lets them happen and has a history variable that records
them, and a promise is stated until then:

| Module | History | Recorded |
|---|---|---|
| `SessionProcessor` | `fresh` | an event of an earlier call was left when the wait began |
| `InitBarrier` | `early`, `overlapped` | the application called before every stream had begun; a check met the lines with which Start sets the barrier up |
| `SampleTimes` | `overtaken` | a callback was overtaken by another, or by the end of a call |
| `ScheduleWork` | `expired` | stops whose wait has ended with an item left, counted |
| `SampleGrabber` | `refused` | a sample was refused since a read last began |
| `ScreenCaptureProcessor` | `misused` | a processor that is Started was configured anew or shut down |

### SessionProcessor

The client thread makes one call at a time under `mMutex` and waits; `Invoke` takes one
event, posts the application's callback, works on it and notifies (`phase` separates these, as
the client may run in between). The waits have no predicate (lines 81, 130, 179, 225, 280, 319, 377): `WaitEnds` lets each end at any time, with success or with a timeout,
whether it was notified by its own event, by another one, or by nobody. A call that has returned early leaves its event to the next.
The session below is reduced to its state, its event queue and
whether that queue is still open: `Shutdown` discards what is in it. `finalized` records whether the
files were finalized before the sinks were shut down (the order only: `MediaSinkFinalizeProcessor` itself gives each file two seconds, in a wait without a predicate too). `relock` is the second lock of
`mMutex` by the thread that holds it, which C++ leaves undefined. Devices may be removed, preempted
or fail (`Disturbances`).

### SampleFlow

One source stream, a tee when there are several sinks, switchers in front of some. Requests
travel as sink events, `Pull` items of the serial work queue, operations of the source's queue, and come back
as sample events and `Push` items. The thread of the work queue handles one item at a time, but
`ProcessInput`, `ProcessOutput` and `ProcessSample` of one item are separate steps, with calls of the
application in between. Left out: encoders (each sample gives one sample), the contents of samples,
sources that answer without a sample, and sources that do not answer in time (see
`MediaPipelineProcessor`). `MaxRequests` bounds how far a sink's event handler lags behind.

### Switcher

`NewSample` is the stamping in `handleSourceStreamRequest`; the branches are then served in the
order of the tee by the single thread of the work queue, two calls each. `sample` is the one object
that all branches get. `output` and `passed` observe what went on to the sinks. `ProcessOutput` of a
paused switcher drops the sample; what this does to the request is the subject of `SampleFlow`.
Only the time between two stops is modelled.

### InitBarrier

`check`, `decrement` and `push` are the lines of `checkInitBarier`, which one stream at a time runs under
`mInitBarierMutex`; `sessionCall` is the line of Start, Pause or Stop, which hold `mAccesseMutex` and not that mutex:
`sizeOfList`, `setCount` and `clearList` are the three lines of Start that set the barrier up again. A sample may be checked between them (`overlapped`),
and the application may act before every stream has been counted (`early`). Pauses and stops are taken to return after the last sample of the sources they stop.

### SampleTimes

The line of each callback of one stream (`handler`): it takes an event (and by that asks for the next), reads the
two stamps, writes them back one after the other and puts the sample into the work queue. `Threads` are the callbacks that may run at a time.
A pause asks the stream, sets its count of answers again (`countAgain`, lines 1904-1913: an answer handled before that is lost) and waits. When the wait expires, line 1508 leaves
`pauseSources` before 1510, `mCurrentState` stays Started although the session is Paused (it does not look at the result), and the next `startSources` keeps `mPrevSampleTimes`: the pause becomes
the duration of a sample. `gap` is the time of such a pause, and counts as captured from the next start on. A stop resets the stamps when its waits have ended, in whichever way. Starts are taken to succeed, and a start of
a started session is not refused. `lastEnd`, `captured`, `base`, `output` and `passed` are
accounts of what was delivered and passed on, independent of the stamps.

### ScheduleWork, EVRStreamSink

A chain is a work item together with those it schedules in turn. `stop` sets the flag, cancels the key it
knows, and waits 100 ms without a condition (line 131): it ends when an item answers, in time, or without a cause, and `expired` counts the stops that ended so with an item left.
A work item is taken to succeed in scheduling itself again. The sink calls the timer from `OnClockStart`, `OnClockStop` and `OnClockPause`; `update` runs in the item, with no
lock of the sink, between the lines of `ProcessSample`. `requests` are the requests outside the sink, `InSink` those it
holds in the form of a sample, a flag or a work item. Failures of the mixer and of the query of the clock are left out. `lose` is a request whose sample the gate or a barrier drops. `InitialStates` are the values that `mStreamState`, which no constructor sets, may have; `Ready` and
`Stoped` are treated by every method like `Uninitialized`, so that the instance has three of the five.

### SampleGrabber

`mData` says of each byte which sample it is of. `testReady` reads `mReadyToRead` without the mutex, `readReady` copies without looking again, `block`
and `expireRead` are the wait of a second. `wanted` counts the requests of the stream sink of PULL that have not been answered. `refuseSample` stands for the paths of `ProcessSample` that leave
before line 334 (a sample with another number of buffers than one, without a time or a duration, or with a buffer that cannot be locked): the request is used up, and nobody is woken.
`dropRequest` is a sample that the gate keeps back.

### AudioEndpointCapture, ScreenCaptureProcessor

`thread` (`grabber`) is the line of the thread of `CaptureInvoker`, `method` and `line` (`operation`) those of the call that
holds the mutex, `getter` that of `getNewSample`. `CaptureSource` holds its `mMutex` over `Invoke`, by which it reaches each of these, and over `Shutdown`:
a call and `getNewSample` exclude each other, while the thread runs beside both. The waits of both `getNewSample` have no predicate and may end of themselves (`wake_spuriously`): a source of sound then gives what is in its queue, a source of images what is in the
container (`E_FAIL` if there is nothing), and with Direct3D 11 the sample kept, be it from before a stop, or else it follows a null pointer (`takeNothing`).
A source of images that is Started accepts a Start: the processor is configured anew under its thread, and `CaptureInvoker::start` replaces a thread that nobody has joined, which ends the program (`terminated`); so does the end of a processor that was shut down while Started (`releaseProcessor`). A unit of sound is the number of its audio client, an image the
number of its grab. Times, formats and the drawing itself are left out, as is the error that a lost screen gives (`mCurrentGrabResult` keeps it for good, and drops samples from then on).

## 3. Runs

| Run | Bounds | Shows |
|---|---|---|
| `pipeline_prompt` | 2 sources, 2 sinks, 5 calls; 8 004 states | With prompt sources the counters are exact in every interleaving, each call leaves everything settled, and the pipeline implements `CaptureControl`, liveness included. |
| `pipeline_slow` | 2 faulty, slow, hasty sources, 3 calls; 127 102 states | Each call returns, the gate of the samples follows the session, and no stream is announced twice. |
| `pipeline_hasty` | 2 hasty sources, 4 calls | *Violated*: a started session whose source stays paused. |
| `session` | 4 calls, 1 disturbance; 223 991 states | Whatever ends the waits: a wait that began with nothing left of earlier calls is notified by its own event, then files are finalized in time and `close` does not lock twice; `mIsStarted` is right, calls end, and nothing follows the closing event. |
| `flow_tee` | 2 sinks, 3 calls; 9.0 million states | Restarts always put requests back into the loop; the tee lets one of them through. |
| `flow_audio` | 1 switched sink, 3 calls, 2 switches; 73 811 states | Samples go on for ever after any pause and resume; at most one passes a shut gate. |
| `flow_direct` | 1 switched video sink, 1 call, 6 switches | *Violated*: three pauses at the wrong moment end the capture. |
| `switcher_one` | 1 branch, durations 1 and 2, stamps up to 7; 2 221 states | A paused and resumed recording has neither gaps nor overlaps. |
| `switcher_two` | 2 branches, the same | *Violated*: pausing one branch moves the times of the other. |
| `streams` | 3 streams and 5 calls (barrier); 2 callbacks, device clock up to 4, 5 calls, 1 switch (times); 5 images, 5 operations (screen); 922 669 states | The barrier opens, for all streams together; recordings begin at zero, are seamless and no longer than what was captured; images are given once and in order, and grabbed with what is there: each until its history says otherwise. |
| `ends` | 3 chains, 6 calls (timer); the same with 4 calls, 4 requests (renderer); 2 readers, 2 bytes, 4 samples, 3 requests (grabber); 2 clients, 5 calls, buffers and queue of 2 (sound); 608 646 states | The timer of a renderer ticks from start to stop and, until a stop leaves an item, never after; stops leave no more chains than one each; requests of a renderer neither die nor, with one chain, multiply; readers get whole samples in order and are woken; a source of sound never uses a client or a thread that has ended, and gives no sound from before a stop. |

`streams` and `ends` hold several parts that do not act on each other. The variable `part` says which one is at
work; the others stay in one initial state, so that the states of the parts add up. Fairness is stated for all and is empty for parts that are not at work.
Two constraints stop TLC at behaviours of which nothing more is said, or that would not end: `MCStreams!Followed` at a callback that was overtaken; `MCEnds!Followed` at a renderer whose requests have
multiplied after a stop that left an item, or that has made four calls (three after such a stop). Neither is about the timer by itself, which is followed through six calls. The theorems know of no such bound.

**Why the bounds are enough.** Two sources are needed for an acknowledgement to come while the loop
still asks, and for one to fail after another; a third adds no new order of two.
Three calls reach start, pause and restart or start, stop and restart; five reach a stop after a restart
after a pause, which is the longest way a counter is passed on from call to call (start sets it
for stop, a pause and a start come between). Four client calls of a session are enough for
topology, start, pause or stop, close, where any of them may return early and leave its event to the next. Durations 1 and 2 make an offset that is counted twice,
lost, or taken from the wrong sample visible; stamps up to 7 admit a pause before, within and
after a resumed part, twice. Three streams are needed for a barrier that is too low by one or by two. Two chains are what a
stop leaves that expires; the third shows one that is left by a mistake beside it. Two callbacks of a stream can overtake each other. Two readers can take each other's sample; two bytes make a short sample leave
half of an older one. A second audio client after the first, with buffers of two units, shows sound carried over in a queue or in half a buffer.
Five images admit one kept over a stop or a pause while others come. `flow_tee` has no switcher: a tee with a switched
video branch was too large to check. `flow_direct` needs the three requests of a stream without a tee (one
from its announcement, one from the restart, one from the sink) lost one after the other.

No run checks deadlock: every model ends when its bound on calls is used up or the session is closed,
and these are legal ends. That a call does not block is stated as a liveness property instead
(`CallsReturn`, `CallsEnd`).

**Fairness.** All of it is weak fairness. `Continue` and `Client`: the caller's thread runs, and each of its waits is
a timed `wait_for`, so it ends with or without an event. `SourceInvoke`, `Work`, `Invoke`, `CheckInitBarier`, the chains of the timer and the
event handlers: they are work items of Media Foundation's queues, which run every item put into
them. `AEFairness`: the thread of `CaptureInvoker` runs, and so does the thread that holds the mutex. `getNewSample` gets none. New calls and switches are the application's choice and get no fairness; neither do failures,
expiries that compete with an event under way, or device events.

## 4. Properties

- `CounterIsOutstanding` relates the counter of the running wait to the queues it stands for; `IdleSettled`
  says that nothing is left over for the next call. Both need prompt sources, and are
  really broken without: an acknowledgement that comes after its wait has expired is counted for the next call.
- `ImplementsControl` says that despite counters and queues there is one request at a time, made
  only when all sources agree, and that it is granted. Its mapping takes the request from `pc` and the states from the devices.
- `GateFollowsSession` holds whatever fails: samples pass to sinks after a call has returned exactly
  when the session reports Started.
- `StreamAnnouncedOnce` protects `mSampleTimes[lMediaStreamIndex]`: the node's `MediaStreamID` is set to
  `mMediaStreams.size()` before `BeginGetEvent` may refuse the stream.
- `AnsweredByOwnEvent`, `FinalizedBeforeShutdown`, `NeverRelocks`: what a wait without a predicate can rely on when nothing was left of earlier calls (`fresh`), and no longer.
  `StartedFlagAgrees` holds between calls whichever of them returned before their event, once all events are handled.
- `FlowAlive`, `Flowing`, `RequestsBounded`, `AtMostOneLate`: the loop of requests neither dies nor multiplies,
  and a shut gate lets at most one sample through.
- `Contiguous`, `NeverRefused`: the arithmetic of a switcher against an independent account of what it has passed on.
- `CanOpen`, `OpensTogether`, `Opens`: the barrier asks for no more streams than can still be counted, whatever happens; it lets samples pass only when each stream
  has one, unless `early` or `overlapped`; and it opens, unless both.
- `SampleTimes!Contiguous`, `RecordsCapture`, `SeamlessRun`, `BeginsAtZero`: stamps against the accounts of what was captured, across pauses, stops, expired waits and switchers, until a callback is `overtaken`.
  `BeginsAtZero` is about a switcher that was never paused, see section 6.
- `ImplementsTicker`, `OneChain`: the callback comes for ever while the timer is started and, until a stop has left an item, never after stop has returned; a stop that leaves an item leaves one chain, and no other stop leaves any.
- `NotMultiplied`, `RequestsGoOn`, `ShowsOn`: what `update` and `ProcessSample` do to a request between their lines.
- `OneSample`, `NeverBackwards`, `NoMissedWakeup`, `SomeoneIsServed`: what is promised to several readers of one buffer.
- `ClientAlive`, `NeverTerminated`, `NothingFromBefore`, `MethodsReturn`: stop, pause and start of a source of sound against its thread.
- `ImagesAdvance`, `ResourcesAlive`: the same for images. Both hold until the source is `misused`, see section 6.

Each property of a passing run has a mutant of the code's model in the module that breaks it
(definitions named `<definition>_<what is wrong>`).

## 5. Proofs

| Theorem | For every | Assumption |
|---|---|---|
| `MediaPipelineProcessorProofs!TypeCorrect` | sources, sinks, faults | none |
| `...!CounterCorrect`, `SettledCorrect` | number of sources and sinks | `Prompt` |
| `...!Refinement`: `Spec => Control!Spec` | number of sources and sinks | `Prompt` |
| `...!GateCorrect`, `AnnouncedOnce` | sources, sinks, faults, delays | none |
| `SessionProcessorProofs!ClosedIsLastCorrect`, `StartedFlagAgreesCorrect` | calls, disturbances, failing starts | none |
| `...!AnsweredByOwnEventCorrect`, `FinalizedBeforeShutdownCorrect`, `NeverRelocksCorrect` | calls, disturbances, failing starts | none; of `fresh` waits |
| `SwitcherProofs!TypeCorrect`, `AlwaysAccepts` | number of branches, durations | none |
| `SwitcherProofs!FirstBranchSeamless` | number of branches, durations | none |
| `SwitcherProofs!SeamlessRecording` | durations | one branch (`N = 1`) |
| `SampleFlowProofs!TypeCorrect`, `AtMostOneLateCorrect` | sinks, switchers, calls, switches | none |
| `SampleFlowProofs!FlowAliveCorrect` | sinks, calls, switches | audio, or no switcher |
| `SampleFlowProofs!RequestsBoundedCorrect` | sinks, switchers, calls, switches | a tee |
| `StreamProofs!TypeCorrect`, `CanOpenCorrect` (barrier) | streams, calls | none |
| `StreamProofs!OpensTogetherCorrect` | streams, calls | none; until `early` or `overlapped` |
| `StreamProofs!TimesTypeCorrect` | threads, durations, calls | none |
| `StreamProofs!ContiguousCorrect`, `RecordsCaptureCorrect`, `SeamlessRunCorrect`, `BeginsAtZeroCorrect` | threads, durations, calls, pauses, expired waits, switches | none; until `overtaken` |
| `StreamProofs!ImagesAdvanceCorrect`, `ResourcesAliveCorrect` | images, calls, requests, failures, wakeups | none; until `misused` |
| `EVRStreamSinkProofs!TypeCorrect`, `KeepsRunningCorrect` (timer) | chains, calls, expired stops | none |
| `EVRStreamSinkProofs!OneChainCorrect`, `SinkOneChain` | chains, calls, expired stops | none; counts `expired` |
| `EVRStreamSinkProofs!Refinement`: `Spec => Timer!Spec` | chains, calls, expired stops | none; `overrun` is `expired > 0` |
| `EVRStreamSinkProofs!UsesTimer`, `RequestsGoOnCorrect` | chains, requests, initial states, expired stops | none |
| `EVRStreamSinkProofs!NotMultipliedCorrect` | chains, requests, initial states | none; until `expired > 0` |
| `SampleGrabberProofs!TypeCorrect`, `OneSampleCorrect`, `NeverBackwardsCorrect`, `NoMissedWakeupCorrect` | readers, capacity, samples, modes | none |
| `SampleGrabberProofs!SomeoneIsServedCorrect` | readers, capacity, samples, modes | none; until `refused` |
| `AudioEndpointCaptureProofs!ClientAliveCorrect`, `NeverTerminatedCorrect`, `NothingFromBeforeCorrect` | sizes, clients, calls, failures | none |

All use only the assumptions on constants that the modules name (`PipelineAssumption`, `SwitcherAssumption`, `BarrierAssumption`, ...):
finite sets, sets that are not empty, numbers that are numbers. A condition named after "none" is a history of the module (section 2) that the property itself mentions, not an assumption about the code. The modules' bounds on calls and stamps are constants like the others, so the
theorems hold for any bound.

**The handshake.** That the counter is the number of outstanding acknowledgements is not inductive: when a
source executes an operation nothing of the counter changes, and that exactly one acknowledgement results
depends on `mIsActive`, and on what the stream has been through. `IInv` therefore says of each source how far it is on
the way of the present request (`Asked`: queued, acknowledged and not handled, or done), ties `mIsActive` to
the device state and the subscriptions to the history of the source, and says for each phase what the counters were set to. It has one
part per idea, and the proof one lemma per action. Cardinalities go through `OutstandingCardinality`.
The refinement uses `IInv` at each step: an `Ask` needs the sources to agree, a `Comply` needs the operation
executed to be the one requested now, a `Grant` needs a counter of zero to mean that all have arrived.
`Prompt` excludes what the code does not handle exactly: sources that fail, expire or are asked while paused.

**The gate.** `GateInv` adds the path through a call: the result of a failed start is what keeps the stop
that follows from returning into an idle session with its old state.

**Announcements.** `Once(q, listened, running)` says that between any two announcements, the one handled already and
the one that the next start would make included, `q` holds a stop, which ends the subscription. It is kept by appending and by taking from
the head; `TailOnce` shifts the positions.

**The switcher.** What a branch has passed on ends where `mLastTimeStamp - mPauseOffset` says (`OffsetAccounts`);
this alone is not inductive, as a switcher that is neither paused nor at its first sample must also meet a sample that begins where the last one
ended (`GoesOn`), which a sample dropped or skipped in between would break: `HoldsSample` excludes it. The first
branch sees every sample before anybody has changed its time, so the theorem holds for it below any tee, whatever is done
to the others; for the second it is false (`switcher_two`).

**The calls.** When a wait begins with nothing left of earlier calls, at most one event of the session can notify it first; the invariant says for each line of a call
which events are queued, being handled or still to be made by the session, of this call or left by others, and from this that the one that notifies a fresh wait is the one waited for. `StartedFlagAgrees` follows from
what each of those events will still do to `mIsStarted`. `ClosedIsLast` needs only how the event queue is shut.

**The barrier.** `CanOpen` is not inductive, because a stream is counted down before it is put into the list. The invariant counts both (`Pending`, `Missing`) and knows at each line of Start what `size` was when it was read.
`OpensTogether` adds that, until the histories say otherwise, and while nobody is between the lines, exactly the streams in the list have been heard.

**The timer.** `OneChain` follows from counting (`Few`): between start and stop there may be one chain more than `expired`, else not; a start adds one, an answered stop takes one away, and one that ends with an item left pays by `expired`.
While `expired` is zero an item is left between start and stop only (`Single`), so that a callback after stop would need an item that nobody left, which is the
refinement. `KeepsRunning` holds with expired stops too, as a start schedules an item whatever is left.

**The renderer.** `UsesTimer` shows that the sink's steps are steps of the timer's own specification, by which what is proved of the timer holds in
the sink. The two counts of requests go along with every line of `update` and `ProcessSample`: `NotMultiplied` is inductive once a flag that is seen and not yet taken counts
once, which needs one chain (`Single`); `RequestsGoOn` needs no count but a witness that is left.

**The grabber.** The bytes below `mImageByteSize` are all of the last sample (`Whole`), and this sample is newer than what any reader has that may take
it (`Newer`); both are kept by short samples, by readers that overtake each other, and by reads that expire.

**The source of sound.** The thread is there only while the invoker is Started or a method joins it (`Joined`), an invoker is Started
only from a start to the next stop, pause or shutdown (`Stopped`), and a client is let go after a join only (`Held`). `NothingFromBefore` adds that while a client is in use, or about
to be, the half-full buffer and the queue hold sound of this client only (`Fresh`): both are emptied while no client captures, on the way of `start`, and what `writeAudioBuffer` cuts out of them is
of them. A getter is served by the client there is when it wakes, of itself or not, as no method runs beside it (`Undisturbed`).

**The flow.** A sample is late only by the thread of the queue, which has one item in hand: `Lateness` is inductive once the gate is known to be open from each start on (`Open`).
`FlowAlive` is not inductive: a request is forgotten by a source that is not Started, and by a tee that was asked before. `Operating` excludes the first while the session runs, since no operation but requests
is then in the queue of the source; `Ready` the second, since a tee that was asked since its reset has a request above it. Each action then leaves something on its way, and only
`ProcessOutput` of a paused switcher for video does not: there the theorem has its assumption, and `flow_direct` the counterexample.
`RequestsBounded` counts what may still be added (`Credit`: a tee that is not ready, a stream not announced, the two that a start brings) against what the calls have paid for; no action but a start adds to it.
Queues are counted through `CountAppend`, `CountTail` and `CountOthers`.

**The stamps.** Until a callback is overtaken, the stamps that it has read are still those of the stream (`Stamped`), and nothing is left of the session before when a call ends: `Contiguous` follows.
That a recording is no longer than what was captured needs `Room`: for each sample that is queued or to come, the time captured has room for all that lies before it, counted from the last device time known;
this is kept because samples are at least a nominal duration apart (`Spread`), and is what is lost when two callbacks write the stamps in the wrong order. What the switcher has passed on goes on with the next sample in the work queue (`InARow`, `Passed`).

**The images.** The thread is there only between a start and the join of the next stop or pause (`Joins`), each line of a call belongs to a state of the source (`Lines`), and a source that may start has its resources (`HasResources`).
`ImagesAdvance` holds as what a getter may take is newer than what was given, and what the thread has in hand is newer still (`Fresher`).

**Only model-checked**: every liveness property: `CallsReturn`, `CallsEnd`, `Flowing`, `Opens`, `ShowsOn`, `MethodsReturn` and the fairness parts of `ImplementsControl` and
`ImplementsTicker` (liveness under fairness and `ENABLED` are out of reach of the prover, as is induction over data). Every invariant and every action property that a passing run checks is a theorem,
under the assumptions of the table. Where a run checks more than the theorem assumes, TLC has the rest for its bounds only: nothing of the kind is left but `FlowAlive` without assumption, which is false.

## 6. What the runs found

1. **`pipeline_hasty`.** A request that reaches a paused source is kept with the null token the pipeline uses. The next
   start asks for that token, gets an error and leaves the source Paused, although the session
   reports Started (`CaptureStream.cpp:235`, `CaptureStream.h:32-40`).
2. **`flow_direct`.** A video switcher paused between `ProcessInput` and `ProcessOutput` answers `S_FALSE`, which the pipeline takes for done:
   the request is lost for good. Audio switchers answer `MF_E_TRANSFORM_NEED_MORE_INPUT` and are safe (`flow_audio`).
3. **`switcher_two`.** `SetSampleTime` changes the sample that the other branches of the tee hold as well.

Seen while reading, not stated as findings:

- The pausing counter set again after the loop loses early acknowledgements (one callback that is quick is enough). The pause then lasts its full five seconds, and the session reports success, but the
  pipeline stays Started: the next start does not set `mPrevSampleTimes` to zero, and the pause becomes part of the recording, as the duration of its next sample. `RecordsCapture` accounts for such pauses (`gap`).
- The waits of `SessionProcessor`, `ScheduleWorkImpl::stop` and both `getNewSample` have no predicate. After one that ends without a cause (or early, by the event of another call) the calls of `SessionProcessor` are out of step with
  their events until all have been handled; a call that fails for that closes the session, and files may be shut down unfinished.
- `stopSources` ends at a source that was never initialized and leaves the others running.
- A source's events are not subscribed again after `MESourceStopped`.
- A pause that expires closes the session under the callback that is handling it; `mIsStarted` stays set and `close`
  then locks `mMutex` twice.
- `MEVideoCaptureDevicePreempted` ends the delivery of events; a descriptor that is unknown to `startSession` is erased all the same.
- A stop sets the stamps to zero but leaves the offsets of the switchers: a switcher that stays paused over a stop, or is paused and
  resumed around one, gives the next recording times that are shifted as a whole, and may be negative. `SeamlessRun` is what is left.
- Two callbacks of one stream may run at a time, as the next event is asked for first (line 343). One that is overtaken mixes its stamps with those of the other, and a stamp is lost; a stop whose wait has expired resets the stamps
  under a callback. `overtaken` is that, and the stamp properties end there. Samples that come while the gate is shut are stamped and dropped, which leaves a gap.
- Calls before every stream has begun, or checks that meet Start between its lines, may open the barrier before every stream has a sample, and both together may leave it shut;
  that it could open (`CanOpen`) is proved for all.
- `mStreamState` of a stream sink is never initialized. If it happens to be Started, `OnClockStart` takes it for a restart and the timer is not started.
- After a stop of the timer whose wait of 100 ms, without a condition, has ended too early, an old chain may go on beside a new one; two `update` then may take one early sample and ask twice.
- A sample that `SampleGrabberPullStream::ProcessSample` refuses (buffer count, time, duration, lock) uses up the request of a reader and wakes nobody: if all wait, none is served until a wait of a second ends and a read asks again.
- The buffer of the grabber shrinks to the shortest sample there was, and later ones are cut. In PULL a read returns the sample that an earlier request brought; of two readers one
  may wait until its time is over because its sample was written over.
- A source of sound that is resumed keeps the half-full buffer of before the pause. The silence flag is that of the last period and blanks older buffers too.
- `getNewSample` waits up to 4 s (sound) or 5 s (images) with `CaptureSource::mMutex` held. A pause or stop of the source waits as long, which is
  as long as the pipeline waits for the answer; so do `BeginGetEvent` and `GetEvent` of the source.
- The result of `CaptureInvoker::start` is not looked at for sound, and not returned for images: the source may be Started without a thread.
- The container of images is filled before `notify_all`, which takes no mutex. A request may take the image in between; the next one is then woken for nothing and returns `E_FAIL`, which
  `CaptureSource` sends as `MEError`. The other way round, a getter that has found nothing and does not wait yet misses the notification and waits for the next image.
- `ScreenCaptureProcessor::shutdown` neither stops nor joins the thread, and `CaptureSource::Start` accepts a source that is Started (the session and the pipeline let it through). A source that is shut down while it is started (`SessionProcessor` does so after a pause or a start that expired) has its
  resources released under a thread that grabs; one that is started while it is started has them made anew under it. Then the object of a thread that nobody has joined is replaced or destroyed, which ends the program. `misused` marks both.
- With Direct3D 11 a wakeup without a cause finds the sample that was kept over a stop, and delivers an image of before; if there is none yet, a null pointer is followed.
- After one failed grab `mCurrentGrabResult` is never reset, so that every later sample is dropped for an error.

## 7. Not modelled

`PROJECT.json` gives each directory with its reason. In short: construction of topologies and encoders (sequential, and its state is Media
Foundation's), rendering and copying (Direct3D), numerical transforms, parsing and XML, function tables of system libraries, COM marshalling,
DirectShow (its graph has the threads), demo programs, vendored code. These, and copies of the same files in the demos, are most of the repository's lines:
the part with control of its own is a few dozen files of `src/CaptureManagerSource`, and the modules cover the larger ones of them.
Media Foundation itself is assumed to do what its users rely on: queues in order, one callback per subscription, work items that run.

## 8. Plan

Done: the handshake with its abstract specification and refinement (`MediaPipelineProcessor`, `CaptureControl`); the synchronous
calls (`SessionProcessor`); the flow of requests and samples (`SampleFlow`); the arithmetic of pausing a branch (`Switcher`); the barrier
(`InitBarrier`); the times of samples, composed with a switcher (`SampleTimes`); the timer and its abstract specification (`ScheduleWork`, `Ticker`), composed with the
stream sink that uses it (`EVRStreamSink`); the buffer of the grabber (`SampleGrabber`); the sources of sound and images with the thread
of `CaptureInvoker` (`AudioEndpointCapture`, `ScreenCaptureProcessor`).

Left:

1. `SampleAccumulator` and the mixers: two queues of samples, which of them is taken, and how far they may grow.
2. Attaching and detaching of switchers and sinks in a running session, with the stamps and the clock state sinks it changes; composes
   `Switcher` with a part of `SampleFlow`.
3. `checkFinishBarier` and the end of streams.
