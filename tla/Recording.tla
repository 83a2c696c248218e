------------------------------- MODULE Recording -------------------------------
(***************************************************************************)
(* The way of a frame after inference: a buffer of the frame pool, the      *)
(* stream's output queue, the socket that shows it, the recorder's          *)
(* pre-buffer, and the evidence clip an event makes of it                   *)
(* (service.py _process_frame(), inference/frame_pool.py, backend/recording).*)
(*                                                                         *)
(* One stream, started up to MaxLives times.  Its inference thread renders  *)
(* frames into pooled buffers; a socket's thread takes them from the output  *)
(* queue and gives them back to the pool; the recorder keeps references to   *)
(* the same buffers; a task of its executor drains its frame queue, another  *)
(* one makes a clip; a request or the quota pass deletes recordings.         *)
(* The resize and tensor buffers of the detector return to the pool within  *)
(* the call that took them and are left out.                                *)
(***************************************************************************)
EXTENDS Naturals, Sequences, FiniteSets, SequencesExt

CONSTANTS
  MaxSize,   (* free buffers the pool keeps                                  *)
  Seed,      (* spare buffers allocated with the first one                   *)
  OutMax,    (* frame_queue_capacity                                         *)
  PreMax,    (* recording_pre_buffer_frames                                  *)
  QueueMax,  (* the recorder's frame queue                                   *)
  Quota,     (* recordings that fit under recording_storage_max_bytes        *)
  MaxRenders, (* bound: frames rendered                                       *)
  MaxClips,  (* bound: events that trigger a clip                            *)
  MaxLives   (* bound: starts of the stream                                  *)

ASSUME RecordingAssumption ==
  /\ MaxSize \in Nat \ {0} /\ Seed \in Nat /\ OutMax \in Nat \ {0}
  /\ PreMax \in Nat /\ QueueMax \in Nat \ {0} /\ Quota \in Nat
  /\ MaxRenders \in Nat /\ MaxClips \in Nat /\ MaxLives \in Nat

VARIABLES
  enabled,  \* the frame pool is enabled
  seeded,   \* the spares of this shape were allocated
  free,     \* the pool's free buffers, the last one released at the end
  content,  \* the frame each buffer shows
  adaptive, \* adaptive_frame_drop
  stream,   \* "off", "running", "stopping"
  lives,    \* starts of the stream
  frames,   \* frames rendered
  pc,       \* where the inference thread is in _process_frame()
  hand,     \* the frame it is processing
  out,      \* the output queue
  viewer,   \* the frame a socket's thread has taken, if any
  recorder, \* the stream's entry in the recording manager
  rows,     \* recordings in the database
  clips,    \* evidence clips: their recording, frames, file and row
  deleting, \* the deletions in progress: a request's, and the quota pass's
  failed,   \* history: a deletion's commit failed
  early     \* history: recordings deleted while they were in use

poolVars == <<enabled, seeded, free, content>>
streamVars == <<adaptive, stream, lives, frames>>
diskVars == <<rows, clips, deleting, failed, early>>
recordingVars == <<poolVars, streamVars, pc, hand, out, viewer, recorder, diskVars>>

\* An array is named by the frame it was allocated for and its place among the
\* ones allocated with it.
Buffers == (1..MaxRenders) \X (0..Seed)

\* A buffer with the frame it is meant to show.  The recorder is given a record
\* with the buffer in one of its fields, not the array itself.
NoFrame == [buffer |-> <<0, 0>>, frame |-> 0]
Shows(x) == content[x.buffer] = x.frame
Pushed(x) == [form |-> "record", image |-> x]

NoRecorder == [row |-> 0, pre |-> <<>>, queued |-> 0, writer |-> "off"]
NoDeletion == [row |-> 0, clips |-> {}]
Deleters == {"request", "quota"}

RecordingInit ==
  /\ enabled \in BOOLEAN /\ seeded = FALSE /\ free = <<>>
  /\ content = [b \in Buffers |-> 0]
  /\ adaptive \in BOOLEAN
  /\ stream = "off" /\ lives = 0 /\ frames = 0
  /\ pc = "idle" /\ hand = NoFrame /\ out = <<>> /\ viewer = NoFrame
  /\ recorder = NoRecorder
  /\ rows = {} /\ clips = <<>> /\ deleting = [d \in Deleters |-> NoDeletion]
  /\ failed = FALSE /\ early = {}

------------------------------------------------------------------------------
(* The pool.                                                               *)

\* The array made for a frame, and the spares that are made with the first.
Fresh(frame) == <<frame, 0>>
Spares(frame) == [k \in 1..(IF MaxSize < Seed THEN MaxSize ELSE Seed) |-> <<frame, k>>]

\* Mutant of Remaining: the buffer that is handed out stays in the pool.
Remaining_All == free

Remaining == Front(free)

\* copy_of(): the last free buffer, or a new one, is overwritten.
Acquire(frame) ==
  /\ IF free # <<>>
     THEN /\ free' = Remaining /\ UNCHANGED seeded
          /\ hand' = [buffer |-> Last(free), frame |-> frame]
     ELSE /\ hand' = [buffer |-> Fresh(frame), frame |-> frame]
          /\ free' = IF enabled /\ ~seeded THEN Spares(frame) ELSE free
          /\ seeded' = enabled
  /\ content' = [content EXCEPT ![hand'.buffer] = frame]
  /\ UNCHANGED enabled

\* release() keeps a buffer if the pool is enabled and not full.
Kept == enabled /\ Len(free) < MaxSize

Release(buffer) ==
  /\ free' = IF Kept THEN Append(free, buffer) ELSE free
  /\ UNCHANGED <<enabled, seeded, content>>

\* Another stream takes the last free buffer, draws on it and gives it back.
OtherStream ==
  /\ free # <<>> /\ content' = [content EXCEPT ![Last(free)] = 0]
  /\ UNCHANGED <<enabled, seeded, free, streamVars, pc, hand, out, viewer,
                 recorder, diskVars>>

\* Buffers that were idle too long are dropped, and the shape is seeded again.
Cleanup ==
  /\ free # <<>> /\ free' = <<>> /\ seeded' = FALSE
  /\ UNCHANGED <<enabled, content, streamVars, pc, hand, out, viewer, recorder,
                 diskVars>>

------------------------------------------------------------------------------
(* The life of the stream.                                                 *)

\* start_recording() keeps a recorder that is already there.
Start ==
  /\ stream = "off" /\ lives < MaxLives
  /\ stream' = "running" /\ lives' = lives + 1 /\ out' = <<>>
  /\ IF recorder.row # 0 THEN UNCHANGED <<recorder, rows>>
     ELSE /\ recorder' = [NoRecorder EXCEPT !.row = lives']
          /\ rows' = rows \cup {lives'}
  /\ UNCHANGED <<poolVars, adaptive, frames, pc, hand, viewer, clips, deleting,
                 failed, early>>

\* stop() takes the recorder out of the manager and waits for the thread.
Stop ==
  /\ stream = "running" /\ stream' = "stopping"
  /\ recorder' = NoRecorder
  /\ UNCHANGED <<poolVars, adaptive, lives, frames, pc, hand, out, viewer, diskVars>>

\* The thread ends after a stop, or because its source ended: then nobody
\* stops the recorder.
End ==
  /\ stream # "off" /\ pc = "idle" /\ stream' = "off"
  /\ UNCHANGED <<poolVars, adaptive, lives, frames, pc, hand, out, viewer,
                 recorder, diskVars>>

------------------------------------------------------------------------------
(* _process_frame().                                                       *)

\* The visualizer draws on a copy of the captured frame.
Render ==
  /\ stream = "running" /\ pc = "idle" /\ frames < MaxRenders
  /\ frames' = frames + 1 /\ pc' = "put"
  /\ Acquire(frames')
  /\ UNCHANGED <<adaptive, stream, lives, out, viewer, recorder, diskVars>>

Put ==
  /\ pc = "put"
  /\ IF Len(out) < OutMax THEN out' = Append(out, hand) /\ pc' = "push"
     ELSE UNCHANGED out /\ pc' = IF adaptive THEN "evict" ELSE "drop"
  /\ UNCHANGED <<poolVars, streamVars, hand, viewer, recorder, diskVars>>

\* The stalest frame makes room, if a socket has not emptied the queue by then.
Evict ==
  /\ pc = "evict"
  /\ IF out = <<>> THEN pc' = "drop" /\ UNCHANGED <<poolVars, out>>
     ELSE Release(Head(out).buffer) /\ out' = Tail(out) /\ pc' = "reput"
  /\ UNCHANGED <<streamVars, hand, viewer, recorder, diskVars>>

Reput ==
  /\ pc = "reput" /\ out' = Append(out, hand) /\ pc' = "push"
  /\ UNCHANGED <<poolVars, streamVars, hand, viewer, recorder, diskVars>>

Drop ==
  /\ pc = "drop" /\ pc' = "push"
  /\ Release(hand.buffer)
  /\ UNCHANGED <<streamVars, hand, out, viewer, recorder, diskVars>>

\* The newest frames of the pre-buffer; a slice from -0 is the whole list.
Newest(s) == IF PreMax # 0 /\ Len(s) > PreMax THEN Tail(s) ELSE s

\* push_frame(): pre-buffer and queue; a full queue drops the frame.
Push ==
  /\ pc = "push"
  /\ IF recorder.row = 0 THEN UNCHANGED recorder /\ pc' = "event"
     ELSE /\ recorder' = [recorder EXCEPT
               !.pre = Newest(Append(@, Pushed(hand))),
               !.queued = IF @ < QueueMax THEN @ + 1 ELSE @]
          /\ pc' = IF recorder.queued < QueueMax THEN "task" ELSE "event"
  /\ UNCHANGED <<poolVars, streamVars, hand, out, viewer, diskVars>>

\* The writer's task is submitted unless one is there.
Submit ==
  /\ pc = "task" /\ pc' = "event"
  /\ recorder' = IF recorder.row # 0 /\ recorder.writer = "off"
                 THEN [recorder EXCEPT !.writer = "draining"] ELSE recorder
  /\ UNCHANGED <<poolVars, streamVars, hand, out, viewer, diskVars>>

\* An event may have been derived from the frame; the frame is done.
Trigger ==
  /\ pc = "event" /\ recorder.row # 0 /\ Len(clips) < MaxClips
  /\ clips' = Append(clips, [row |-> recorder.row, frames |-> recorder.pre, images |-> 0,
                             at |-> "queued", file |-> FALSE, evidence |-> FALSE])
  /\ pc' = "idle" /\ hand' = NoFrame
  /\ UNCHANGED <<poolVars, streamVars, out, viewer, recorder, rows, deleting, failed,
                 early>>

NoEvent ==
  /\ pc = "event" /\ pc' = "idle" /\ hand' = NoFrame
  /\ UNCHANGED <<poolVars, streamVars, out, viewer, recorder, diskVars>>

------------------------------------------------------------------------------
(* The socket's thread: get_output_frame(), imencode() and release().      *)

View ==
  /\ viewer = NoFrame /\ out # <<>>
  /\ viewer' = Head(out) /\ out' = Tail(out)
  /\ UNCHANGED <<poolVars, streamVars, pc, hand, recorder, diskVars>>

Encoded ==
  /\ viewer # NoFrame /\ viewer' = NoFrame
  /\ Release(viewer.buffer)
  /\ UNCHANGED <<streamVars, pc, hand, out, recorder, diskVars>>

\* The client has gone while the thread waited: the frame is lost.
Lost ==
  /\ viewer # NoFrame /\ viewer' = NoFrame
  /\ UNCHANGED <<poolVars, streamVars, pc, hand, out, recorder, diskVars>>

------------------------------------------------------------------------------
(* The recorder's executor.                                                *)

\* _writer_drain_task() takes frames until there are none ...
Drain ==
  /\ recorder.writer = "draining"
  /\ recorder' = IF recorder.queued > 0 THEN [recorder EXCEPT !.queued = @ - 1]
                 ELSE [recorder EXCEPT !.writer = "ending"]
  /\ UNCHANGED <<poolVars, streamVars, pc, hand, out, viewer, diskVars>>

\* Mutant of NextTask: the queue is not looked at again.
NextTask_Off == "off"

\* ... and looks again when it clears the flag.
NextTask == IF recorder.queued > 0 THEN "draining" ELSE "off"

EndDrain ==
  /\ recorder.writer = "ending"
  /\ recorder' = [recorder EXCEPT !.writer = NextTask]
  /\ UNCHANGED <<poolVars, streamVars, pc, hand, out, viewer, diskVars>>

\* generate_clip() encodes the arrays among the frames and passes over the rest.
Encodable(s) == SelectSeq(s, LAMBDA x : x.form = "array")

\* The file is written, an empty one if there is nothing to encode ...
Encode(c) ==
  /\ clips[c].at = "queued"
  /\ clips' = [clips EXCEPT ![c].at = "encoded", ![c].file = TRUE,
                 ![c].images = Len(Encodable(clips[c].frames)), ![c].frames = <<>>]
  /\ UNCHANGED <<poolVars, streamVars, pc, hand, out, viewer, recorder, rows,
                 deleting, failed, early>>

\* ... the row of the evidence follows, and the job ends.
Insert(c) ==
  /\ clips[c].at = "encoded"
  /\ clips' = [clips EXCEPT ![c].at = "done", ![c].evidence = TRUE]
  /\ UNCHANGED <<poolVars, streamVars, pc, hand, out, viewer, recorder, rows,
                 deleting, failed, early>>

\* A failed encoding or insert is counted; a file stays where it is.
ClipFails(c) ==
  /\ clips[c].at \in {"queued", "encoded"}
  /\ clips' = [clips EXCEPT ![c].at = "failed", ![c].frames = <<>>]
  /\ UNCHANGED <<poolVars, streamVars, pc, hand, out, viewer, recorder, rows,
                 deleting, failed, early>>

------------------------------------------------------------------------------
(* Deletion by delete_recording() and by the quota pass.                   *)

\* Mutant of Evidence: evidence does not go with its recording.
Evidence_None(r) == {}

Evidence(r) == {c \in DOMAIN clips : clips[c].row = r /\ clips[c].evidence}

\* A request names any recording, and the retention pass may delete the same
\* ones: it is not distinguished from a request.  The quota pass counts recordings, whose path
\* is empty, and takes the oldest one, even while it is being recorded.
MayDelete(d, r) ==
  d = "quota" => Cardinality(rows) > Quota /\ \A q \in rows : r <= q

\* The files of the recording's evidence are deleted ...
DeleteFiles(d, r) ==
  /\ deleting[d] = NoDeletion /\ MayDelete(d, r)
  /\ deleting' = [deleting EXCEPT ![d] = [row |-> r, clips |-> Evidence(r)]]
  /\ clips' = [c \in DOMAIN clips |->
                 IF c \in Evidence(r) THEN [clips[c] EXCEPT !.file = FALSE] ELSE clips[c]]
  /\ UNCHANGED <<poolVars, streamVars, pc, hand, out, viewer, recorder, rows,
                 failed, early>>

\* The recording is still being made, or a clip of it is or came too late.
InUse(d, r) ==
  \/ recorder.row = r \/ Evidence(r) # deleting[d].clips
  \/ \E c \in DOMAIN clips : clips[c].row = r /\ clips[c].at \in {"queued", "encoded"}

\* ... then the rows, in one commit ...
DeleteRows(d) ==
  /\ deleting[d].row \in rows
  /\ rows' = rows \ {deleting[d].row}
  /\ early' = IF InUse(d, deleting[d].row) THEN early \cup {deleting[d].row} ELSE early
  /\ clips' = [c \in DOMAIN clips |->
                 IF c \in deleting[d].clips THEN [clips[c] EXCEPT !.evidence = FALSE]
                 ELSE clips[c]]
  /\ deleting' = [deleting EXCEPT ![d] = NoDeletion]
  /\ UNCHANGED <<poolVars, streamVars, pc, hand, out, viewer, recorder, failed>>

\* ... or the commit fails, also because the row has gone already, and is
\* rolled back when the files have been deleted.
DeleteFails(d) ==
  /\ deleting[d] # NoDeletion
  /\ deleting' = [deleting EXCEPT ![d] = NoDeletion]
  /\ failed' = (failed \/ deleting[d].row \in rows)
  /\ UNCHANGED <<poolVars, streamVars, pc, hand, out, viewer, recorder, rows,
                 clips, early>>

------------------------------------------------------------------------------
ProcessFrame ==
  \/ Render \/ Put \/ Evict \/ Reput \/ Drop \/ Push \/ Submit \/ Trigger \/ NoEvent

RecordingNext ==
  \/ OtherStream \/ Cleanup
  \/ Start \/ Stop \/ End \/ ProcessFrame
  \/ View \/ Encoded \/ Lost
  \/ Drain \/ EndDrain
  \/ \E c \in DOMAIN clips : Encode(c) \/ Insert(c) \/ ClipFails(c)
  \/ \E d \in Deleters :
       \/ DeleteRows(d) \/ DeleteFails(d)
       \/ \E r \in rows : DeleteFiles(d, r)

RecordingSpec == RecordingInit /\ [][RecordingNext]_recordingVars

------------------------------------------------------------------------------
RecordingTypeOK ==
  /\ {enabled, seeded, adaptive, failed} \subseteq BOOLEAN
  /\ ToSet(free) \subseteq Buffers /\ content \in [Buffers -> 0..MaxRenders]
  /\ stream \in {"off", "running", "stopping"} /\ lives \in 0..MaxLives
  /\ pc \in {"idle", "put", "evict", "reput", "drop", "push", "task", "event"}
  /\ recorder.row \in 0..MaxLives /\ recorder.queued \in 0..QueueMax
  /\ recorder.writer \in {"off", "draining", "ending"}
  /\ rows \subseteq 1..MaxLives /\ early \subseteq 1..MaxLives

\* Nobody draws on a frame that is still to be shown: not its own stream, and
\* no other one that shares the pool, though three places give buffers back
\* (_process_frame(), websocket_stream() and FramePool.release()).
DeliveredFramesAreIntact ==
  /\ \A x \in ToSet(out) : Shows(x)
  /\ viewer # NoFrame => Shows(viewer)
  /\ pc \in {"put", "evict", "reput", "drop"} => Shows(hand)

\* A clip shows something.  It does not hold: the stream pushes records, and the
\* clip is made of the arrays among what was pushed (_process_frame() against
\* generate_clip()).
ClipsShowFrames ==
  \A c \in DOMAIN clips : clips[c].at = "done" => clips[c].images > 0

\* While a recorder has frames queued, a writer's task is there to take them or
\* about to be submitted (_writer_drain_task() against push_frame()).
NoStrandedFrame ==
  recorder.queued > 0 => recorder.writer # "off" \/ pc = "task"

\* Of a recording that was not deleted while in use: evidence has its file,
\* unless a deletion is in between or failed to commit, and what a finished clip
\* left on disk has its rows (_process_event_clip() against delete_recording()).
ClipsAreWhole ==
  \A c \in DOMAIN clips : clips[c].row \notin early =>
    /\ clips[c].evidence =>
         clips[c].file \/ failed \/ \E d \in Deleters : c \in deleting[d].clips
    /\ clips[c].at = "done" /\ clips[c].file => clips[c].evidence
    /\ clips[c].evidence => clips[c].row \in rows
=============================================================================
