------------------------ MODULE ScreenCaptureProcessor ------------------------
(***************************************************************************)
(* A source of images of the screen (ScreenCaptureProcessor) behind the    *)
(* CaptureSource that it belongs to.                                       *)
(*                                                                         *)
(* A thread of CaptureInvoker grabs an image whenever one is due, and      *)
(* leaves it for the thread that answers the requests for samples: in a    *)
(* container of one buffer, or, when Direct3D 11 keeps the images, as a    *)
(* sample.  CaptureSource holds its mMutex over each operation and over    *)
(* getNewSample, so that only the thread that grabs runs beside them.      *)
(*                                                                         *)
(* Images are numbered in the order in which they are grabbed.             *)
(***************************************************************************)
EXTENDS Naturals, Sequences

CONSTANTS
    MaxImages,     \* bound on the images
    MaxOperations  \* bound on the operations of the source

ASSUME ScreenAssumption == MaxImages \in Nat /\ MaxOperations \in Nat

VARIABLES
    source,                   \* mState of CaptureSource
    operation, operations,    \* its line: "none", "configure", "start", "join", "joined",
                              \* or "release" (of the processor, shut down by then)
    misused,                  \* history: was a processor that is Started configured anew
                              \* or shut down?
    mState, resources,        \* has initResources been called after releaseResources?
    mIsDirectX11,
    mCaptureInvokerState,     \* "Started" or "Stopped"
    grabber,                  \* "none", "loop", "invoke", "grab", "give", "notify",
                              \* "done" and not joined, or "terminated" with the program
    mFirstInvoke,
    image, images,            \* that the thread has grabbed, and how many there were
    mCurrentGrabResult,       \* S_OK (TRUE) until a grab fails
    mPtrMediaBuffer,          \* the image in the container, 0 if none
    IsBufferReady,
    mUnkSample,               \* the image in the sample, 0 if none
    getter,                   \* getNewSample: "out", "ready" (IsBufferReady was set),
                              \* "missed" (it was not), "waiting", "woken", or
                              \* "faulted" (it followed a null pointer)
    before, given             \* the image that the last stop leaves behind, and those
                              \* given since

captureVars == <<source, operation, operations, misused>>
stateVars   == <<mState, resources>>
invokerVars == <<mCaptureInvokerState, grabber, mFirstInvoke>>
imageVars   == <<image, images, mCurrentGrabResult>>
keptVars    == <<mPtrMediaBuffer, IsBufferReady, mUnkSample>>
givenVars   == <<before, given>>
screenVars  == <<captureVars, stateVars, mIsDirectX11, invokerVars, imageVars, keptVars,
                 getter, givenVars>>

SCInit ==
    /\ source = "Initialized" /\ operation = "none" /\ operations = 0 /\ misused = FALSE
    /\ mState = "Uninitialized" /\ resources = FALSE /\ mIsDirectX11 \in BOOLEAN
    /\ mCaptureInvokerState = "Stopped" /\ grabber = "none" /\ mFirstInvoke = TRUE
    /\ image = 0 /\ images = 0 /\ mCurrentGrabResult = TRUE
    /\ mPtrMediaBuffer = 0 /\ IsBufferReady = FALSE /\ mUnkSample = 0
    /\ getter = "out" /\ before = 0 /\ given = << >>
-----------------------------------------------------------------------------
(***************************************************************************)
(* The operations of CaptureSource.                                        *)
(***************************************************************************)
\* mMutex is free.
Operate(line) ==
    /\ operation = "none" /\ getter = "out" /\ operations < MaxOperations
    /\ operation' = line /\ operations' = operations + 1

\* A source that is Started starts again like one that is Stopped.
internalStart ==
    /\ source \in {"Initialized", "Started", "Stopped", "Paused"}
    /\ Operate(IF source = "Paused" THEN "start" ELSE "configure")
    /\ misused' = (misused \/ (source # "Paused" /\ mState = "Started"))
    /\ UNCHANGED <<source, stateVars, mIsDirectX11, invokerVars, imageVars, keptVars,
                   getter, givenVars>>

\* A first image is grabbed, whose time is 0; what was in the container goes.
setCurrentMediaType ==
    /\ operation = "configure" /\ operation' = "start"
    /\ mState' = "Initialized" /\ resources' = TRUE
    /\ images < MaxImages /\ images' = images + 1
    /\ mCurrentGrabResult' \in {mCurrentGrabResult, FALSE}
    /\ mPtrMediaBuffer' = images' /\ IsBufferReady' = TRUE
    /\ UNCHANGED <<source, operations, misused, mIsDirectX11, invokerVars, image,
                   mUnkSample, getter, givenVars>>

\* The type is unknown, the resources are not to be had, or there is no buffer.
setCurrentMediaTypeFails ==
    /\ operation = "configure" /\ operation' = "none"
    /\ \/ UNCHANGED stateVars
       \/ mState' = "Uninitialized" /\ resources' = FALSE
       \/ mState' = "Initialized" /\ resources' = TRUE
    /\ UNCHANGED <<source, operations, misused, mIsDirectX11, invokerVars, imageVars,
                   keptVars, getter, givenVars>>

\* S_OK whatever happens: there may be no thread behind a source that is started.  The
\* object of a thread that was not joined is replaced: its destructor ends the program.
startProcessor ==
    /\ mState \notin {"Started", "Uninitialized"}
    /\ mFirstInvoke' = (mState # "Paused" \/ mFirstInvoke)
    /\ \/ /\ mCaptureInvokerState' = "Started" /\ mState' = "Started"
          /\ grabber' = IF grabber = "none" THEN "loop" ELSE "terminated"
       \/ /\ UNCHANGED <<mCaptureInvokerState, grabber>>
          /\ mState' = IF mState = "Paused" THEN "Started" ELSE mState

\* A stream that was asked for a sample while it was Paused fails to start after the
\* processor has, and the source stays Paused.
startCapture ==
    /\ operation = "start" /\ operation' = "none"
    /\ \/ startProcessor
       \/ mState \in {"Started", "Uninitialized"} /\ UNCHANGED <<mState, invokerVars>>
    /\ \/ source' = "Started"
       \/ source = "Paused" /\ UNCHANGED source
    /\ UNCHANGED <<operations, misused, resources, mIsDirectX11, imageVars, keptVars,
                   getter, givenVars>>

\* Mutant of stopInvoker: the thread is not waited for.
stopInvoker_NotJoined ==
    /\ Operate("joined")
    /\ mCaptureInvokerState' = "Stopped"
    /\ UNCHANGED <<grabber, mFirstInvoke>>

stopInvoker ==
    /\ Operate(IF mCaptureInvokerState = "Started" THEN "join" ELSE "joined")
    /\ mCaptureInvokerState' = "Stopped"
    /\ UNCHANGED <<grabber, mFirstInvoke>>

\* The source is Paused before the processor is; one that has not started is left.
internalPause ==
    /\ source = "Started" /\ source' = "Paused"
    /\ IF mState = "Started" THEN stopInvoker ELSE Operate("none") /\ UNCHANGED invokerVars
    /\ UNCHANGED <<misused, stateVars, mIsDirectX11, imageVars, keptVars, getter,
                   givenVars>>

internalStop ==
    /\ source \in {"Started", "Paused"} /\ source' = "Stopping"
    /\ stopInvoker
    /\ UNCHANGED <<misused, stateVars, mIsDirectX11, imageVars, keptVars, getter,
                   givenVars>>

joinThread ==
    /\ operation = "join" /\ operation' = "joined"
    /\ grabber = "done" /\ grabber' = "none"
    /\ UNCHANGED <<source, operations, misused, stateVars, mIsDirectX11,
                   mCaptureInvokerState, mFirstInvoke, imageVars, keptVars, getter, givenVars>>

clearMediaBuffer ==
    mPtrMediaBuffer' = 0 /\ IsBufferReady' = FALSE /\ UNCHANGED mUnkSample

pauseScreen ==
    /\ operation = "joined" /\ source = "Paused" /\ operation' = "none"
    /\ mState' = "Paused"
    /\ UNCHANGED <<source, operations, misused, resources, mIsDirectX11, invokerVars,
                   imageVars, keptVars, getter, givenVars>>

\* The last image that was given, or that the last stop has left behind.
Last == IF given = << >> THEN before ELSE given[Len(given)]

\* The container is emptied; the sample of Direct3D stays, and may be given later.
stopScreen ==
    /\ operation = "joined" /\ source = "Stopping" /\ operation' = "none"
    /\ source' = "Stopped" /\ mState' = "Stopped" /\ clearMediaBuffer
    /\ before' = (IF mIsDirectX11 THEN Last ELSE images) /\ given' = << >>
    /\ UNCHANGED <<operations, misused, resources, mIsDirectX11, invokerVars, imageVars,
                   getter>>

\* The thread is neither stopped nor joined.
Shutdown ==
    /\ source # "Shutdown" /\ source' = "Shutdown"
    /\ Operate("release") /\ misused' = (misused \/ mState = "Started")
    /\ mState' = "Uninitialized" /\ resources' = FALSE /\ clearMediaBuffer
    /\ UNCHANGED <<mIsDirectX11, invokerVars, imageVars, getter, givenVars>>

\* The destructor of a thread that was not joined ends the program.
releaseProcessor ==
    /\ operation = "release" /\ operation' = "none"
    /\ grabber' = IF grabber = "none" THEN "none" ELSE "terminated"
    /\ UNCHANGED <<source, operations, misused, stateVars, mIsDirectX11,
                   mCaptureInvokerState, mFirstInvoke, imageVars, keptVars, getter, givenVars>>

Source ==
    \/ internalStart \/ setCurrentMediaType \/ setCurrentMediaTypeFails \/ startCapture
    \/ internalPause \/ internalStop \/ joinThread \/ pauseScreen \/ stopScreen
    \/ Shutdown \/ releaseProcessor
-----------------------------------------------------------------------------
(***************************************************************************)
(* The thread that grabs.                                                  *)
(***************************************************************************)
Grab(from, to) ==
    /\ grabber = from /\ grabber' = to
    /\ UNCHANGED <<captureVars, stateVars, mIsDirectX11, mCaptureInvokerState, givenVars>>

goRound ==
    /\ Grab("loop", IF mCaptureInvokerState = "Started" THEN "invoke" ELSE "done")
    /\ UNCHANGED <<mFirstInvoke, imageVars, keptVars, getter>>

\* The first call only takes the time; later ones grab an image if it is due.
invoke ==
    /\ \/ mState # "Started" /\ Grab("invoke", "loop") /\ UNCHANGED mFirstInvoke
       \/ mState = "Started" /\ mFirstInvoke /\ Grab("invoke", "loop") /\ mFirstInvoke' = FALSE
       \/ /\ mState = "Started" /\ ~ mFirstInvoke /\ UNCHANGED mFirstInvoke
          /\ Grab("invoke", "loop") \/ Grab("invoke", "grab")
    /\ UNCHANGED <<imageVars, keptVars, getter>>

\* A container is filled though the grab has failed; a sample is not made.
grabImage ==
    /\ images < MaxImages /\ images' = images + 1 /\ image' = images'
    /\ \/ Grab("grab", "give") /\ UNCHANGED mCurrentGrabResult
       \/ Grab("grab", IF mIsDirectX11 THEN "loop" ELSE "give") /\ mCurrentGrabResult' = FALSE
    /\ UNCHANGED <<mFirstInvoke, keptVars, getter>>

\* Under the mutex of the container.
setBuffer ==
    /\ ~ mIsDirectX11 /\ Grab("give", "notify")
    /\ mPtrMediaBuffer' = image /\ IsBufferReady' = TRUE
    /\ UNCHANGED <<mFirstInvoke, imageVars, mUnkSample, getter>>

notify_all == getter' = IF getter = "waiting" THEN "woken" ELSE getter

\* Without a mutex: a getter that is about to wait does not hear it.
notify ==
    /\ Grab("notify", "loop") /\ notify_all
    /\ UNCHANGED <<mFirstInvoke, imageVars, keptVars>>

\* Under mAccessBufferQueueMutex, with the notification.
createSample ==
    /\ mIsDirectX11 /\ Grab("give", "loop") /\ notify_all
    /\ mUnkSample' = image
    /\ UNCHANGED <<mFirstInvoke, imageVars, mPtrMediaBuffer, IsBufferReady>>

Grabber == goRound \/ invoke \/ grabImage \/ setBuffer \/ notify \/ createSample
-----------------------------------------------------------------------------
(***************************************************************************)
(* getNewSample, called by requestSample for a source that is started.     *)
(***************************************************************************)
Get(from, to) ==
    /\ getter \in from /\ getter' = to
    /\ UNCHANGED <<captureVars, stateVars, mIsDirectX11, invokerVars, imageVars, before>>

\* The flag is read without the mutex of the container.
getNewSample ==
    /\ operation = "none" /\ source = "Started"
    /\ Get({"out"}, IF mIsDirectX11 THEN "waiting"
                    ELSE IF IsBufferReady THEN "ready" ELSE "missed")
    /\ UNCHANGED <<keptVars, given>>

wait_for == Get({"missed"}, "waiting") /\ UNCHANGED <<keptVars, given>>

\* Neither wait has a predicate: it may end though nobody has notified it.
wake_spuriously == Get({"waiting"}, "woken") /\ UNCHANGED <<keptVars, given>>

\* The five seconds have passed.
wait_expires == Get({"waiting"}, "out") /\ UNCHANGED <<keptVars, given>>

\* Once a grab has failed, each sample is dropped for the error.
Give(i) == given' = IF mCurrentGrabResult THEN Append(given, i) ELSE given

\* Mutant of getBuffer: the buffer is not taken out of the container.
getBuffer_Keeps ==
    /\ ~ mIsDirectX11 /\ Get({"ready", "woken"}, "out")
    /\ IF getter = "ready" \/ IsBufferReady THEN Give(mPtrMediaBuffer) ELSE UNCHANGED given
    /\ UNCHANGED keptVars

\* A getter may have been woken for a buffer that the call before has taken.
getBuffer ==
    /\ ~ mIsDirectX11 /\ Get({"ready", "woken"}, "out")
    /\ IF getter = "ready" \/ IsBufferReady THEN Give(mPtrMediaBuffer) ELSE UNCHANGED given
    /\ clearMediaBuffer

takeSample ==
    /\ mIsDirectX11 /\ mUnkSample # 0 /\ Get({"woken"}, "out")
    /\ Give(mUnkSample) /\ mUnkSample' = 0
    /\ UNCHANGED <<mPtrMediaBuffer, IsBufferReady>>

\* The interface of a sample that is not there is asked for.
takeNothing ==
    /\ mIsDirectX11 /\ mUnkSample = 0 /\ Get({"woken"}, "faulted")
    /\ UNCHANGED <<keptVars, given>>

Getter ==
    \/ getNewSample \/ wait_for \/ wake_spuriously \/ wait_expires
    \/ getBuffer \/ takeSample \/ takeNothing

Running == grabber # "terminated" /\ getter # "faulted"

SCNext == Running /\ (Source \/ Grabber \/ Getter)

SCSpec == SCInit /\ [][SCNext]_screenVars
-----------------------------------------------------------------------------
(***************************************************************************)
(* Properties.                                                             *)
(***************************************************************************)
\* No image is given twice or after a later one, nor one of the container after a stop
\* that it was grabbed before, in whichever order the thread leaves images and requests
\* take them, and though a wait may end before there is one; until a processor that is
\* Started is configured anew, which fills the container beside the thread.
ImagesAdvance ==
    ~ misused =>
       \A i \in 1 .. Len(given) : given[i] > IF i = 1 THEN before ELSE given[i - 1]

\* What an image is drawn with is there, and nobody replaces it, while the thread
\* grabs, though the resources are made anew at each start and released without a join;
\* until a processor that is Started is configured anew or shut down.
ResourcesAlive ==
    ~ misused /\ grabber = "grab" => resources /\ operation # "configure"
=============================================================================
