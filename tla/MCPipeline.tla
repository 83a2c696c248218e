------------------------------ MODULE MCPipeline ------------------------------
(* The two halves of a frame's way through the pipeline, explored one beside *)
(* the other: a behaviour is either one of frames that are read and passed   *)
(* through a model, or one of detections that become tracks and events, and  *)
(* the variables of the other half keep one initial value.                   *)
(*                                                                           *)
(* The first half has a network camera beside a local camera or a file, on a *)
(* host without ONNX Runtime or without Torch.  The second has a row of      *)
(* points with one more above it, a square zone, a triangle, a line through  *)
(* the row, and a request for a zone of two corners.                         *)
EXTENDS Scene, Intake

CONSTANTS s1, s2

MCKinds == {s1 :> "rtsp" @@ s2 :> k : k \in {"webcam", "file"}}
MCModes == {"auto", "benchmark", "torch"}
MCCandidates == <<"openvino", "onnx", "torch">>
MCAbsent == {{"onnx"}, {"torch"}}
MCBackoff == 0 :> 1 @@ 1 :> 2

MCPoints == {<<0, 1>>, <<1, 1>>, <<2, 1>>, <<2, 2>>}
Gated ==
  [zones |-> [dock |-> <<<<-1, 0>>, <<1, 0>>, <<1, 3>>, <<-1, 3>>>>],
   lines |-> [gate |-> <<<<1, -1>>, <<1, 4>>>>]]
MCScenes ==
  {Gated,
   [zones |-> [dock |-> <<<<1, 0>>, <<4, 1>>, <<1, 3>>>>], lines |-> Empty],
   [zones |-> [dock |-> <<<<1, 0>>, <<4, 1>>>>], lines |-> Empty]}

\* The condition of CrossingsAreSides.
ASSUME MCLinesAreLong == LinesAreLong

VARIABLE side
allVars == <<side, vars, intakeVars>>

OfScene(A) == side = "scene" /\ A /\ UNCHANGED <<side, intakeVars>>
OfIntake(A) == side = "intake" /\ A /\ UNCHANGED <<side, vars>>

MCInit ==
  /\ side \in {"scene", "intake"} /\ Init /\ IntakeInit
  /\ side = "intake" => scene = Gated
  /\ side = "scene" => kind[s2] = "file" /\ mode = "auto" /\ broken = {"onnx"}
MCNext == OfScene(Next) \/ OfIntake(IntakeNext)

\* The fairness of Intake.
MCSpec ==
  /\ MCInit /\ [][MCNext]_allVars
  /\ \A i \in Streams : WF_allVars(OfIntake(Thread(i)))
=============================================================================
