------------------------------ MODULE ScannerPage ------------------------------
(***************************************************************************)
(* The page of the gate (ScannerComponent): the loop that looks for a code *)
(* in every frame of the camera, the scan it sends to the server, and the  *)
(* timer that takes the result down and restarts the loop.                 *)
(*                                                                         *)
(* The camera, the server and the timer answer when they like; nothing of  *)
(* what is under way when the page is left is called off except the timer, *)
(* the frame and the stream that exist at that moment.                     *)
(***************************************************************************)

VARIABLES
  here,          \* the component has not been destroyed
  camera,        \* how far openCamera has come
  stream,        \* a MediaStream is held and its tracks run
  frame,         \* an animation frame is requested
  isSubmitting,  \* a scan has been sent and not been answered
  scanResult,    \* "none" or what the last scan said
  timer,         \* the timer that takes scanResult down runs
  manualToken,   \* a token has been typed
  replaying,     \* play() of a resumed video has neither succeeded nor failed
  leftWith       \* what was under way when the page was left

vars == <<here, camera, stream, frame, isSubmitting, scanResult, timer,
          manualToken, replaying, leftWith>>

\* Every method leaves these alone but ngOnDestroy.
still == <<here, leftWith>>

\* Most leave alone what has been typed and a video that is being started again.
input == <<manualToken, replaying>>

cameraSupported == camera # "refused"

-----------------------------------------------------------------------------
(* openCamera, from one await to the next.                                 *)

CameraGranted ==
  /\ camera = "asked"
  /\ camera' = "starting"
  /\ stream' = TRUE
  /\ UNCHANGED <<still, frame, isSubmitting, scanResult, timer, input>>

\* getUserMedia or play rejects; in the second case the stream stays open.
CameraRefused ==
  /\ camera \in {"asked", "starting"}
  /\ camera' = "refused"
  /\ UNCHANGED <<still, stream, frame, isSubmitting, scanResult, timer, input>>

CameraPlays ==
  /\ camera = "starting"
  /\ camera' = "running"
  /\ frame' = TRUE
  /\ UNCHANGED <<still, stream, isSubmitting, scanResult, timer, input>>

-----------------------------------------------------------------------------
(* scanFrame.  A frame without a code asks for the next: nothing changes.  *)

FrameIgnored ==
  /\ frame
  /\ ~ cameraSupported \/ scanResult # "none"
  /\ frame' = FALSE
  /\ UNCHANGED <<still, camera, stream, isSubmitting, scanResult, timer, input>>

\* The loop pauses; executeScan does nothing while another scan is under way.
\* A video may show a picture before play() has succeeded, and its last one after
\* its stream was stopped.
CodeFound ==
  /\ frame
  /\ camera \in {"starting", "running"} /\ scanResult = "none"
  /\ frame' = FALSE
  /\ isSubmitting' = TRUE
  /\ UNCHANGED <<still, camera, stream, scanResult, timer, input>>

TypeToken ==
  /\ here /\ ~ isSubmitting /\ ~ manualToken
  /\ manualToken' = TRUE
  /\ UNCHANGED <<still, camera, stream, frame, isSubmitting, scanResult, timer, replaying>>

SubmitManualToken ==
  /\ here /\ ~ isSubmitting /\ manualToken
  /\ isSubmitting' = TRUE
  /\ UNCHANGED <<still, camera, stream, frame, scanResult, timer, input>>

\* A bug: an error is shown without the timer that takes it down.
MutantScanAnswered(answer) ==
  /\ isSubmitting
  /\ isSubmitting' = FALSE
  /\ scanResult' = answer
  /\ frame' = FALSE
  /\ timer' = (answer = "success")
  /\ UNCHANGED <<still, camera, stream, input>>

\* showResult pauses the loop and starts the timer anew, for errors as well.
ScanAnswered(answer) ==
  /\ isSubmitting
  /\ isSubmitting' = FALSE
  /\ scanResult' = answer
  /\ frame' = FALSE
  /\ timer' = TRUE
  /\ UNCHANGED <<still, camera, stream, input>>

\* The callback of the timer, with resumeScanner, which plays a video that is paused.
ResultExpires ==
  /\ timer
  /\ timer' = FALSE
  /\ scanResult' = "none"
  /\ manualToken' = FALSE
  /\ frame' = (frame \/ cameraSupported)
  /\ replaying' \in {replaying, replaying \/ cameraSupported}
  /\ UNCHANGED <<still, camera, stream, isSubmitting>>

\* If the video cannot be played, the loop is started again.
ReplayEnds ==
  /\ replaying
  /\ replaying' = FALSE
  /\ frame' \in {frame, TRUE}
  /\ UNCHANGED <<still, camera, stream, isSubmitting, scanResult, timer, manualToken>>

-----------------------------------------------------------------------------

UnderWay ==
  {w \in {"scan", "camera", "replay"} :
     CASE w = "scan"   -> isSubmitting
       [] w = "camera" -> camera \in {"asked", "starting"}
       [] w = "replay" -> replaying}

\* A bug: the timer is left running.
MutantStopScanner == frame' = FALSE /\ stream' = FALSE /\ UNCHANGED timer

StopScanner == frame' = FALSE /\ stream' = FALSE /\ timer' = FALSE

Leave ==
  /\ here
  /\ here' = FALSE
  /\ leftWith' = UnderWay
  /\ StopScanner
  /\ UNCHANGED <<camera, isSubmitting, scanResult, input>>

\* A browser without cameras is refused at once.
Init ==
  /\ here = TRUE
  /\ camera \in {"asked", "refused"}
  /\ stream = FALSE
  /\ frame = FALSE
  /\ isSubmitting = FALSE
  /\ scanResult = "none"
  /\ timer = FALSE
  /\ manualToken = FALSE
  /\ replaying = FALSE
  /\ leftWith = {}

Next ==
  \/ CameraGranted \/ CameraRefused \/ CameraPlays
  \/ FrameIgnored \/ CodeFound
  \/ TypeToken \/ SubmitManualToken
  \/ \E answer \in {"success", "error"} : ScanAnswered(answer)
  \/ ResultExpires \/ ReplayEnds
  \/ Leave

Spec == Init /\ [][Next]_vars

-----------------------------------------------------------------------------
(* Properties.                                                             *)

TypeOK ==
  /\ here \in BOOLEAN
  /\ camera \in {"asked", "starting", "running", "refused"}
  /\ stream \in BOOLEAN
  /\ frame \in BOOLEAN
  /\ isSubmitting \in BOOLEAN
  /\ scanResult \in {"none", "success", "error"}
  /\ timer \in BOOLEAN
  /\ manualToken \in BOOLEAN
  /\ replaying \in BOOLEAN
  /\ leftWith \subseteq {"scan", "camera", "replay"}

\* The gate never goes dead: once the camera runs, the loop runs, or a scan or a
\* result is about to restart it, whatever tokens are typed meanwhile, whatever
\* frames find a code while a scan is under way, and whatever the server says.
\* And a result that is shown is always about to be taken down.
NeverStuck ==
  /\ here /\ camera = "running" => frame \/ isSubmitting \/ timer
  /\ here /\ scanResult # "none" => timer

\* A page that was left with nothing under way keeps no camera, timer or loop
\* alive, and one that was left with a scan under way at least no camera.
LeftQuietly ==
  /\ ~ here /\ leftWith = {} => ~ frame /\ ~ timer /\ ~ stream
  /\ ~ here /\ "camera" \notin leftWith => ~ stream

=============================================================================
