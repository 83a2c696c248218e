--------------------------------- MODULE Intake ---------------------------------
(***************************************************************************)
(* Frames in, detections out: the frame sources (inference/frame_source.py), *)
(* the detector with its inference providers (inference/detector.py,         *)
(* backend/inference/benchmark.py), and the inline loop that joins them      *)
(* (InferenceStream._run in backend/service.py).  Each stream has a source   *)
(* and a thread of its own; streams of one signature share the detector.    *)
(* A camera may die for good, a backend may break for good: a broken backend *)
(* neither loads nor predicts.                                             *)
(***************************************************************************)
EXTENDS Integers, Sequences, FiniteSets, SequencesExt, FiniteSetsExt

CONSTANTS
  Streams,
  Kinds,         (* choices of a source per stream: webcam, file or rtsp     *)
  Modes,         (* inference_provider: auto, benchmark (auto with           *)
                 (* benchmark_enabled) or the name of a backend              *)
  Candidates,    (* the backends of auto, by priority                        *)
  Absent,        (* choices of backends broken from the start                *)
  RetryAttempts, (* source_retry_attempts                                    *)
  Backoff,       (* backoff by attempt, in ticks (_compute_backoff())        *)
  Timeout,       (* stream_timeout_sec, in ticks                             *)
  MaxFaults,     (* bound: backends that break while streams run             *)
  MaxBuilds      (* bound: detectors built                                   *)

ASSUME IntakeAssumption ==
  /\ Kinds \subseteq [Streams -> {"webcam", "file", "rtsp"}]
  /\ RetryAttempts \in Nat \ {0} /\ Timeout \in Nat \ {0}
  /\ Backoff \in [0..(RetryAttempts - 1) -> Nat]
  /\ MaxFaults \in Nat /\ MaxBuilds \in Nat

None == "none"
Fallbacks == <<"onnx", "torch">>
Backends == ToSet(Candidates) \cup ToSet(Fallbacks)

VARIABLES
  kind, mode,
  broken,    \* backends that neither load nor predict
  faults, builds,
  cache,     \* the benchmark file: backends by descending score
  provider,  \* of the shared detector, None before it is built
  exhausted, \* _fallback_exhausted
  phase,        \* by stream: where its thread is
  running,   \* is_running
  capture,   \* the source holds an open capture
  attempt,   \* _reconnect_attempt
  idle,      \* ticks since the last frame or connection, up to Timeout
  dead,      \* the camera neither connects nor delivers
  current,   \* the name the failing call read in _rebuild_fallback_provider()
  raced,     \* history: another thread replaced the provider of a failing call
  hit,       \* history: a backend broke during a failing call
  spoilt,    \* history: such a raced call marked the fallback exhausted
  lost       \* history: streams that failed although a backup worked

detectorVars == <<mode, builds, cache, provider, exhausted>>
faultVars == <<broken, faults>>
sourceVars == <<kind, capture, attempt, idle, dead>>
callVars == <<current, raced, hit, spoilt, lost>>
intakeVars == <<detectorVars, faultVars, sourceVars, callVars, phase, running>>

IntakeInit ==
  /\ kind \in Kinds /\ mode \in Modes /\ broken \in Absent
  /\ faults = 0 /\ builds = 0 /\ cache = <<>> /\ provider = None /\ exhausted = FALSE
  /\ phase = [i \in Streams |-> "new"] /\ running = [i \in Streams |-> FALSE]
  /\ capture = [i \in Streams |-> FALSE] /\ attempt = [i \in Streams |-> 0]
  /\ idle = [i \in Streams |-> 0] /\ dead = [i \in Streams |-> FALSE]
  /\ current = [i \in Streams |-> None]
  /\ raced = [i \in Streams |-> FALSE] /\ hit = [i \in Streams |-> FALSE]
  /\ spoilt = FALSE /\ lost = {}

------------------------------------------------------------------------------
(* The detector.                                                           *)

\* The first backend of a sequence that is not in a set, None if all are.
FirstOutside(order, bad) ==
  LET good == {k \in DOMAIN order : order[k] \notin bad}
  IN IF good = {} THEN None ELSE order[Min(good)]

FirstThatLoads(order) == FirstOutside(order, broken)

\* select_provider(): the file is used when it lists every candidate;
\* otherwise the candidates that work are measured and the file written.
Benchmark(chosen, file) ==
  IF ToSet(cache) = ToSet(Candidates)
  THEN file = cache /\ chosen = FirstThatLoads(cache)
  ELSE /\ file \in SetToSeqs(ToSet(Candidates) \ broken)
       /\ chosen = IF file = <<>> THEN None ELSE file[1]

\* _build_provider() and _build_auto_provider(): a benchmark that finds
\* nothing is followed by the fixed priority order.
Build ==
  /\ provider = None /\ builds < MaxBuilds /\ builds' = builds + 1
  /\ \/ /\ mode = "benchmark"
        /\ \E file \in {cache} \cup SetToSeqs(ToSet(Candidates) \ broken),
              chosen \in Backends \cup {None} :
             /\ Benchmark(chosen, file) /\ cache' = file
             /\ provider' = IF chosen = None THEN FirstThatLoads(Candidates) ELSE chosen
     \/ mode = "auto" /\ provider' = FirstThatLoads(Candidates) /\ UNCHANGED cache
     \/ mode \in Backends /\ provider' = FirstThatLoads(<<mode>>) /\ UNCHANGED cache
  /\ UNCHANGED <<mode, exhausted, faultVars, sourceVars, callVars, phase, running>>

\* The pool drops the detector once its streams are gone; the process may
\* start them again.
Unload ==
  /\ provider # None /\ \A i \in Streams : phase[i] \in {"new", "ended"}
  /\ provider' = None /\ exhausted' = FALSE /\ spoilt' = FALSE /\ lost' = {}
  /\ phase' = [i \in Streams |-> "new"] /\ current' = [i \in Streams |-> None]
  /\ raced' = [i \in Streams |-> FALSE] /\ hit' = [i \in Streams |-> FALSE]
  /\ attempt' = [i \in Streams |-> 0] /\ idle' = [i \in Streams |-> 0]
  /\ UNCHANGED <<mode, builds, cache, faultVars, kind, capture, dead, running>>

------------------------------------------------------------------------------
(* The sources.                                                            *)

\* _run() leaves its loop; its finally block closes the source.
LeaveLoop(i) ==
  /\ phase' = [phase EXCEPT ![i] = "ended"]
  /\ running' = [running EXCEPT ![i] = FALSE]
  /\ capture' = [capture EXCEPT ![i] = FALSE]

Opened(i) ==
  /\ ~dead[i]
  /\ phase' = [phase EXCEPT ![i] = "read"]
  /\ running' = [running EXCEPT ![i] = TRUE]
  /\ capture' = [capture EXCEPT ![i] = TRUE]
  /\ attempt' = [attempt EXCEPT ![i] = 0] /\ idle' = [idle EXCEPT ![i] = 0]

NotOpened(i) == LeaveLoop(i) /\ UNCHANGED <<attempt, idle>>

\* get_frame_source() knows no such file, or no such address.
NoSource(i) == kind[i] # "webcam" /\ NotOpened(i)

\* open(): a camera is tried several times, a file once, and a stream is
\* connected to and has to deliver a first frame.
OpenCamera(i) == kind[i] = "webcam" /\ (Opened(i) \/ NotOpened(i))
OpenFile(i) == kind[i] = "file" /\ (Opened(i) \/ NotOpened(i))
OpenStream(i) == kind[i] = "rtsp" /\ (Opened(i) \/ NotOpened(i))

Open(i) ==
  /\ phase[i] = "new" /\ provider # None
  /\ NoSource(i) \/ OpenCamera(i) \/ OpenFile(i) \/ OpenStream(i)
  /\ UNCHANGED <<kind, dead, detectorVars, faultVars, callVars>>

\* The loop has a frame: it leaves when it was told to stop, skips the frame
\* (frame_skip, inference_target_fps) or infers on it.  Until it asks for the
\* next one little or much time may pass.
Deliver(i) ==
  /\ \/ ~running[i] /\ LeaveLoop(i)
     \/ running[i] /\ UNCHANGED <<phase, running, capture>>
     \/ running[i] /\ phase' = [phase EXCEPT ![i] = "predict"] /\ UNCHANGED <<running, capture>>
  /\ \E t \in IF kind[i] = "rtsp" THEN {0, Timeout} ELSE {0} : idle' = [idle EXCEPT ![i] = t]

ReadOpen(i) ==
  \/ capture[i] /\ ~dead[i] /\ Deliver(i)
  \/ ~capture[i] /\ LeaveLoop(i) /\ UNCHANGED idle

\* A camera skips a read that fails, for as long as it is open.
ReadCamera(i) ==
  /\ phase[i] = "read" /\ kind[i] = "webcam"
  /\ ReadOpen(i)
  /\ UNCHANGED <<kind, attempt, dead, detectorVars, faultVars, callVars>>

\* A file takes it for its end.
ReadFile(i) ==
  /\ phase[i] = "read" /\ kind[i] = "file"
  /\ \/ ReadOpen(i)
     \/ LeaveLoop(i) /\ UNCHANGED idle
  /\ UNCHANGED <<kind, attempt, dead, detectorVars, faultVars, callVars>>

Healthy(i) == idle[i] < Timeout

\* A read of the stream succeeds, or raises because a failed reconnection
\* left no capture.
ReadStream(i) ==
  /\ phase[i] = "read" /\ kind[i] = "rtsp" /\ Healthy(i)
  /\ \/ capture[i] /\ ~dead[i] /\ Deliver(i)
     \/ ~capture[i] /\ LeaveLoop(i) /\ UNCHANGED idle
  /\ UNCHANGED <<kind, attempt, dead, detectorVars, faultVars, callVars>>

\* Mutant of Attempts: the attempts are not counted.
Attempts_Same(i) == attempt[i]

Attempts(i) == attempt[i] + 1

\* _handle_reconnection() up to its sleep: the stream is silent for too long
\* or a read failed.
LoseStream(i) ==
  /\ phase[i] = "read" /\ kind[i] = "rtsp" /\ (Healthy(i) => capture[i])
  /\ IF attempt[i] >= RetryAttempts
     THEN LeaveLoop(i) /\ UNCHANGED <<attempt, idle>>
     ELSE /\ phase' = [phase EXCEPT ![i] = "connect"]
          /\ capture' = [capture EXCEPT ![i] = FALSE]
          /\ attempt' = [attempt EXCEPT ![i] = Attempts(i)]
          /\ idle' = [idle EXCEPT ![i] = Min({Timeout, @ + Backoff[attempt[i]]})]
          /\ UNCHANGED running
  /\ UNCHANGED <<kind, dead, detectorVars, faultVars, callVars>>

\* The sleeps of _connect_to_stream() when no try succeeds.
Waited == SumFunctionOnSet(Backoff, 0..(RetryAttempts - 2))

\* The rest of it: _connect_to_stream() connects, or fails RetryAttempts
\* times, which is an error only after the last attempt.
Reconnect(i) ==
  /\ phase[i] = "connect"
  /\ \/ /\ ~dead[i]
        /\ phase' = [phase EXCEPT ![i] = "read"]
        /\ capture' = [capture EXCEPT ![i] = TRUE]
        /\ attempt' = [attempt EXCEPT ![i] = 0] /\ idle' = [idle EXCEPT ![i] = 0]
        /\ UNCHANGED running
     \/ /\ attempt[i] >= RetryAttempts /\ LeaveLoop(i) /\ UNCHANGED <<attempt, idle>>
     \/ /\ attempt[i] < RetryAttempts
        /\ phase' = [phase EXCEPT ![i] = "read"] /\ capture' = [capture EXCEPT ![i] = FALSE]
        /\ \E t \in {Waited, Timeout} : idle' = [idle EXCEPT ![i] = Min({Timeout, @ + t})]
        /\ UNCHANGED <<attempt, running>>
  /\ UNCHANGED <<kind, dead, detectorVars, faultVars, callVars>>

------------------------------------------------------------------------------
(* Inference.                                                              *)

\* A call whose first pass has failed.
Failing(i) == phase[i] \in {"rebuild", "load", "retry"}

\* The call is over and the loop goes on, if it still is to run.
Return(i) ==
  /\ IF running[i] THEN phase' = [phase EXCEPT ![i] = "read"] /\ UNCHANGED <<running, capture>>
     ELSE LeaveLoop(i)
  /\ current' = [current EXCEPT ![i] = None]
  /\ raced' = [raced EXCEPT ![i] = FALSE] /\ hit' = [hit EXCEPT ![i] = FALSE]
  /\ UNCHANGED <<spoilt, lost>>

\* The exception leaves _process_frame() and with it the loop.
Fail(i) ==
  /\ LeaveLoop(i)
  /\ lost' = IF ToSet(Fallbacks) \subseteq broken THEN lost ELSE lost \cup {i}
  /\ UNCHANGED <<current, hit>>

\* _predict_with_fallback(), its first pass.
Infer(i) ==
  /\ phase[i] = "predict"
  /\ \/ provider \notin broken /\ Return(i)
     \/ /\ provider \in broken /\ exhausted /\ Fail(i)
        /\ raced' = [raced EXCEPT ![i] = @ \/ spoilt] /\ UNCHANGED spoilt
     \/ /\ provider \in broken /\ ~exhausted
        /\ phase' = [phase EXCEPT ![i] = "rebuild"] /\ UNCHANGED <<running, capture, callVars>>
  /\ UNCHANGED <<kind, attempt, idle, dead, detectorVars, faultVars>>

\* _rebuild_fallback_provider() reads the name of the provider it replaces,
\* which another thread may have replaced since the failure.
Rebuild(i) ==
  /\ phase[i] = "rebuild" /\ phase' = [phase EXCEPT ![i] = "load"]
  /\ current' = [current EXCEPT ![i] = provider]
  /\ UNCHANGED <<sourceVars, detectorVars, faultVars, raced, hit, spoilt, lost, running>>

\* Mutant of Replacement: only the first other backend is tried.
Replacement_First(i) ==
  LET next == FirstOutside(Fallbacks, {current[i]})
  IN IF next \in broken THEN None ELSE next

Replacement(i) == FirstOutside(Fallbacks, broken \cup {current[i]})

\* The rest of it: the first other backend that loads takes over.
Load(i) ==
  /\ phase[i] = "load"
  /\ IF Replacement(i) # None
     THEN /\ provider' = Replacement(i) /\ phase' = [phase EXCEPT ![i] = "retry"]
          /\ raced' = [j \in Streams |-> raced[j] \/ (j # i /\ Failing(j))]
          /\ UNCHANGED <<exhausted, running, capture, current, hit, spoilt, lost>>
     ELSE /\ exhausted' = TRUE /\ spoilt' = (spoilt \/ raced[i])
          /\ Fail(i) /\ UNCHANGED <<provider, raced>>
  /\ UNCHANGED <<mode, builds, cache, kind, attempt, idle, dead, faultVars>>

\* _predict_with_fallback(), its second pass.
Retry(i) ==
  /\ phase[i] = "retry"
  /\ \/ provider \notin broken /\ Return(i)
     \/ provider \in broken /\ Fail(i) /\ UNCHANGED <<raced, spoilt>>
  /\ UNCHANGED <<kind, attempt, idle, dead, detectorVars, faultVars>>

------------------------------------------------------------------------------
(* Stops and faults.                                                       *)

\* stop() sets the flag; when its join times out it closes the source under
\* the thread that may be using it.
StopStream(i) ==
  /\ running[i] /\ running' = [running EXCEPT ![i] = FALSE]
  /\ UNCHANGED <<phase, sourceVars, detectorVars, faultVars, callVars>>

CloseSource(i) ==
  /\ ~running[i] /\ capture[i] /\ capture' = [capture EXCEPT ![i] = FALSE]
  /\ UNCHANGED <<phase, running, kind, attempt, idle, dead, detectorVars, faultVars, callVars>>

Die(i) ==
  /\ ~dead[i] /\ dead' = [dead EXCEPT ![i] = TRUE]
  /\ UNCHANGED <<phase, running, kind, capture, attempt, idle, detectorVars, faultVars, callVars>>

Break(b) ==
  /\ b \notin broken /\ faults < MaxFaults
  /\ broken' = broken \cup {b} /\ faults' = faults + 1
  /\ hit' = [i \in Streams |-> hit[i] \/ Failing(i)]
  /\ UNCHANGED <<phase, running, sourceVars, detectorVars, current, raced, spoilt, lost>>

Call(i) == Infer(i) \/ Rebuild(i) \/ Load(i) \/ Retry(i)

Thread(i) ==
  \/ ReadCamera(i) \/ ReadFile(i) \/ ReadStream(i) \/ LoseStream(i) \/ Reconnect(i) \/ Call(i)

IntakeNext ==
  \/ Build \/ Unload
  \/ \E i \in Streams : Open(i) \/ Thread(i) \/ StopStream(i) \/ CloseSource(i) \/ Die(i)
  \/ \E b \in Backends : Break(b)

IntakeFairness == \A i \in Streams : WF_intakeVars(Thread(i))
IntakeSpec == IntakeInit /\ [][IntakeNext]_intakeVars /\ IntakeFairness

------------------------------------------------------------------------------
\* A failing backend costs no stream while a backup works: the call fails
\* over (_predict_with_fallback()).  Excused are a backend that breaks during
\* the call, a provider that another thread replaced during it, and a fallback
\* that such a replacement made another call give up.
FailsOnlyWithoutBackup == \A i \in lost : hit[i] \/ raced[i]

\* The same without the second excuse: a provider that fails at run time
\* "degrades instead of killing the stream" (detector.py:239-242).
BackupKeepsStreams == \A i \in lost : hit[i]

\* A stream whose network camera is gone ends, after at most RetryAttempts
\* reconnections (_handle_reconnection()), and does not spin.
DeadCameraEnds ==
  \A i \in Streams :
    kind[i] = "rtsp" /\ dead[i] /\ phase[i] # "new" ~> phase[i] = "ended"
=============================================================================
