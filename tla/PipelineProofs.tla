----------------------------- MODULE PipelineProofs -----------------------------
(***************************************************************************)
(* Proofs about Recording, Scene and Intake: the way of a frame from the    *)
(* frame pool to the sockets and into the evidence clips; what becomes of   *)
(* its detections, from the matching of the tracker to the books of the     *)
(* zones and the crossings of the lines; and the failover of the detector   *)
(* that found them.  They hold for every capacity of the pool, the queues   *)
(* and the recorder, every quota and number of frames, clips and lives; for *)
(* every geometry (the crossings: of long lines) and every number of        *)
(* objects; for every number of streams and every set of broken backends.   *)
(***************************************************************************)
EXTENDS Recording, Scene, Intake, FiniteSetTheorems, TLAPS

-----------------------------------------------------------------------------
(* Sequences of buffers. *)

(* The elements of a sequence. *)
LEMMA ElementsFacts ==
  ASSUME NEW S, NEW s \in Seq(S)
  PROVE  ToSet(s) \subseteq S /\ \A i \in 1 .. Len(s) : s[i] \in ToSet(s)
BY DEF ToSet

(* Taking the head of a sequence, or the last element. *)
LEMMA TailFacts ==
  ASSUME NEW S, NEW s \in Seq(S), s # <<>>
  PROVE  /\ Tail(s) \in Seq(S) /\ Head(s) \in S
         /\ Len(s) \in Nat \ {0} /\ Len(Tail(s)) = Len(s) - 1 /\ Head(s) = s[1]
         /\ \A i \in 1 .. Len(Tail(s)) : Tail(s)[i] = s[i + 1]
         /\ ToSet(Tail(s)) \subseteq ToSet(s) /\ Head(s) \in ToSet(s)
<1>1. /\ Tail(s) \in Seq(S) /\ Head(s) \in S
      /\ Len(s) \in Nat \ {0} /\ Len(Tail(s)) = Len(s) - 1 /\ Head(s) = s[1]
      /\ \A i \in 1 .. Len(Tail(s)) : Tail(s)[i] = s[i + 1]
      /\ DOMAIN s = 1 .. Len(s) /\ DOMAIN Tail(s) = 1 .. Len(Tail(s))
  OBVIOUS
<1>2. \A i \in 1 .. Len(Tail(s)) : i + 1 \in 1 .. Len(s)
  BY <1>1
<1>3. ToSet(Tail(s)) \subseteq ToSet(s) /\ Head(s) \in ToSet(s)
  BY <1>1, <1>2 DEF ToSet
<1> QED BY <1>1, <1>3

LEMMA FrontFacts ==
  ASSUME NEW S, NEW s \in Seq(S), s # <<>>
  PROVE  /\ Front(s) \in Seq(S) /\ Last(s) \in S
         /\ ToSet(Front(s)) \subseteq ToSet(s) /\ Last(s) \in ToSet(s)
         /\ IsInjective(s) => IsInjective(Front(s)) /\ Last(s) \notin ToSet(Front(s))
<1>1. /\ Len(s) \in Nat \ {0} /\ DOMAIN s = 1 .. Len(s) /\ Last(s) = s[Len(s)]
      /\ Last(s) \in S
  BY DEF Last
<1>2. /\ Front(s) \in Seq(S) /\ Len(Front(s)) = Len(s) - 1
      /\ \A i \in 1 .. Len(s) - 1 : Front(s)[i] = s[i]
      /\ DOMAIN Front(s) = 1 .. Len(s) - 1
  BY <1>1 DEF Front
<1>3. ToSet(Front(s)) \subseteq ToSet(s) /\ Last(s) \in ToSet(s)
  BY <1>1, <1>2 DEF ToSet
<1>4. IsInjective(s) => IsInjective(Front(s))
  BY <1>1, <1>2 DEF IsInjective
<1>5. IsInjective(s) => Last(s) \notin ToSet(Front(s))
  BY <1>1, <1>2 DEF IsInjective, ToSet
<1> QED BY <1>1, <1>2, <1>3, <1>4, <1>5

(* Appending to a sequence. *)
LEMMA AppendFacts ==
  ASSUME NEW S, NEW s \in Seq(S), NEW x \in S
  PROVE  /\ Append(s, x) \in Seq(S) /\ Len(Append(s, x)) = Len(s) + 1 /\ Len(s) \in Nat
         /\ \A i \in 1 .. Len(s) : Append(s, x)[i] = s[i]
         /\ Append(s, x)[Len(s) + 1] = x
         /\ ToSet(Append(s, x)) = ToSet(s) \cup {x}
         /\ IsInjective(s) /\ x \notin ToSet(s) => IsInjective(Append(s, x))
<1>1. /\ Append(s, x) \in Seq(S) /\ Len(Append(s, x)) = Len(s) + 1 /\ Len(s) \in Nat
      /\ \A i \in 1 .. Len(s) : Append(s, x)[i] = s[i]
      /\ Append(s, x)[Len(s) + 1] = x
      /\ DOMAIN s = 1 .. Len(s) /\ DOMAIN Append(s, x) = 1 .. Len(s) + 1
  OBVIOUS
<1>2. \A i \in 1 .. Len(s) + 1 : i \in 1 .. Len(s) \/ i = Len(s) + 1
  BY <1>1
<1>3. ToSet(Append(s, x)) = ToSet(s) \cup {x}
  <2>1. ASSUME NEW y \in ToSet(Append(s, x)) PROVE y \in ToSet(s) \cup {x}
    BY <1>1, <1>2 DEF ToSet
  <2>2. ASSUME NEW y \in ToSet(s) PROVE y \in ToSet(Append(s, x))
    BY <1>1 DEF ToSet
  <2>3. x \in ToSet(Append(s, x))
    BY <1>1 DEF ToSet
  <2> QED BY <2>1, <2>2, <2>3
<1>4. IsInjective(s) /\ x \notin ToSet(s) => IsInjective(Append(s, x))
  BY <1>1, <1>2 DEF IsInjective, ToSet
<1> QED BY <1>1, <1>3, <1>4
-----------------------------------------------------------------------------
(* The frame pool: a buffer has one owner.  That no frame on its way to the *)
(* screen is drawn over needs more than the frames themselves: the pool, the *)
(* output queue, the socket's thread and the inference thread never own the *)
(* same array, and an array made for a frame is none of the older ones.     *)

Images == [buffer : Buffers, frame : 0 .. MaxRenders]

(* The inference thread owns the buffer in its hand until it is handed on. *)
OwnsHand == pc \in {"put", "evict", "reput", "drop"}

PoolTypeOK ==
  /\ enabled \in BOOLEAN /\ free \in Seq(Buffers)
  /\ content \in [Buffers -> 0 .. MaxRenders] /\ frames \in 0 .. MaxRenders
  /\ out \in Seq(Images) /\ viewer \in Images \cup {NoFrame}
  /\ pc # "idle" => hand \in Images

(* Every buffer in use was made for a frame that was rendered already. *)
Allocated(b) == b[1] <= frames

AllAllocated ==
  /\ \A b \in ToSet(free) : Allocated(b)
  /\ \A x \in ToSet(out) : Allocated(x.buffer)
  /\ viewer # NoFrame => Allocated(viewer.buffer)
  /\ OwnsHand => Allocated(hand.buffer)

(* No two images of a queue are in one buffer. *)
Disjoint(s) == \A i, j \in 1 .. Len(s) : s[i].buffer = s[j].buffer => i = j

(* Nobody else owns buffer b than ... *)
NotFree(b) == b \notin ToSet(free)
NotOut(b) == \A x \in ToSet(out) : x.buffer # b

OneOwner ==
  /\ IsInjective(free) /\ Disjoint(out)
  /\ \A x \in ToSet(out) : NotFree(x.buffer)
  /\ viewer # NoFrame => NotFree(viewer.buffer) /\ NotOut(viewer.buffer)
  /\ OwnsHand =>
       /\ NotFree(hand.buffer) /\ NotOut(hand.buffer)
       /\ viewer # NoFrame => hand.buffer # viewer.buffer

IntactInv == PoolTypeOK /\ AllAllocated /\ OneOwner /\ DeliveredFramesAreIntact

(* NoFrame has no buffer. *)
LEMMA NoFrameIsNone == NoFrame \notin Images /\ NoFrame.buffer \notin Buffers
BY RecordingAssumption DEF NoFrame, Images, Buffers

(* release(): the buffer is free or gone, and no other one is. *)
LEMMA ReleaseFacts ==
  ASSUME PoolTypeOK, IsInjective(free), NEW b \in Buffers, NotFree(b), Release(b)
  PROVE  /\ free' \in Seq(Buffers) /\ IsInjective(free')
         /\ ToSet(free') \subseteq ToSet(free) \cup {b}
         /\ UNCHANGED <<enabled, content>>
<1>1. free \in Seq(Buffers)
  BY DEF PoolTypeOK
<1>2. free' = free \/ free' = Append(free, b)
  BY DEF Release
<1>3. UNCHANGED <<enabled, content>>
  BY DEF Release
<1>4. CASE free' = free
  BY <1>1, <1>3, <1>4
<1>5. CASE free' = Append(free, b)
  BY <1>1, <1>3, <1>5, AppendFacts DEF NotFree
<1> QED BY <1>2, <1>4, <1>5

(* Taking the head of the output queue leaves the other images. *)
LEMMA OutTail ==
  ASSUME PoolTypeOK, Disjoint(out), out # <<>>, out' = Tail(out)
  PROVE  /\ out' \in Seq(Images) /\ Disjoint(out') /\ ToSet(out') \subseteq ToSet(out)
         /\ Head(out) \in Images /\ Head(out) \in ToSet(out)
         /\ \A x \in ToSet(out') : x.buffer # Head(out).buffer
<1>1. out \in Seq(Images)
  BY DEF PoolTypeOK
<1>2. /\ Tail(out) \in Seq(Images) /\ Head(out) \in Images
      /\ Len(out) \in Nat \ {0} /\ Len(Tail(out)) = Len(out) - 1 /\ Head(out) = out[1]
      /\ \A i \in 1 .. Len(Tail(out)) : Tail(out)[i] = out[i + 1]
      /\ ToSet(Tail(out)) \subseteq ToSet(out) /\ Head(out) \in ToSet(out)
  BY <1>1, TailFacts
<1>3. \A i \in 1 .. Len(Tail(out)) : i + 1 \in 1 .. Len(out) /\ i + 1 # 1
  BY <1>2
<1>4. Disjoint(Tail(out))
  <2> SUFFICES ASSUME NEW i \in 1 .. Len(Tail(out)), NEW j \in 1 .. Len(Tail(out)),
                      Tail(out)[i].buffer = Tail(out)[j].buffer
               PROVE  i = j
    BY DEF Disjoint
  <2>1. i + 1 = j + 1
    BY <1>2, <1>3 DEF Disjoint
  <2> QED BY <1>2, <2>1
<1>5. ASSUME NEW x \in ToSet(Tail(out)) PROVE x.buffer # Head(out).buffer
  <2>1. PICK i \in 1 .. Len(Tail(out)) : x = Tail(out)[i]
    BY <1>2, <1>5 DEF ToSet
  <2>2. 1 \in 1 .. Len(out)
    BY <1>2
  <2> QED BY <1>2, <1>3, <2>1, <2>2 DEF Disjoint
<1> QED BY <1>2, <1>4, <1>5

(* An image whose buffer nobody in the queue has may join the queue. *)
LEMMA OutAppend ==
  ASSUME PoolTypeOK, Disjoint(out), NEW x \in Images, NotOut(x.buffer), out' = Append(out, x)
  PROVE  out' \in Seq(Images) /\ Disjoint(out') /\ ToSet(out') = ToSet(out) \cup {x}
<1>1. out \in Seq(Images)
  BY DEF PoolTypeOK
<1>2. /\ Append(out, x) \in Seq(Images) /\ Len(Append(out, x)) = Len(out) + 1
      /\ Len(out) \in Nat
      /\ \A i \in 1 .. Len(out) : Append(out, x)[i] = out[i]
      /\ Append(out, x)[Len(out) + 1] = x
      /\ ToSet(Append(out, x)) = ToSet(out) \cup {x}
  BY <1>1, AppendFacts
<1>3. \A i \in 1 .. Len(out) : out[i] \in ToSet(out)
  BY <1>1 DEF ToSet
<1>4. Disjoint(Append(out, x))
  <2> SUFFICES ASSUME NEW i \in 1 .. Len(out) + 1, NEW j \in 1 .. Len(out) + 1,
                      Append(out, x)[i].buffer = Append(out, x)[j].buffer
               PROVE  i = j
    BY <1>2 DEF Disjoint
  <2>1. /\ i \in 1 .. Len(out) \/ i = Len(out) + 1
        /\ j \in 1 .. Len(out) \/ j = Len(out) + 1
    BY <1>2
  <2>2. CASE i \in 1 .. Len(out) /\ j \in 1 .. Len(out)
    BY <1>2, <2>2 DEF Disjoint
  <2>3. CASE i \in 1 .. Len(out) /\ j = Len(out) + 1
    BY <1>2, <1>3, <2>3 DEF NotOut
  <2>4. CASE i = Len(out) + 1 /\ j \in 1 .. Len(out)
    BY <1>2, <1>3, <2>4 DEF NotOut
  <2> QED BY <2>1, <2>2, <2>3, <2>4
<1> QED BY <1>2, <1>4

(* copy_of(): the frame in hand is in a buffer that nobody else owns. *)
LEMMA AcquireFacts ==
  ASSUME IntactInv, frames < MaxRenders, NEW f, f = frames + 1, frames' = f, Acquire(f)
  PROVE  /\ hand' \in Images /\ Shows(hand)' /\ hand'.buffer[1] <= f
         /\ free' \in Seq(Buffers) /\ IsInjective(free')
         /\ \A b \in ToSet(free') : b[1] <= f
         /\ NotFree(hand.buffer)' /\ NotOut(hand'.buffer)
         /\ viewer # NoFrame => hand'.buffer # viewer.buffer
         /\ \A b \in ToSet(free') : b \in ToSet(free) \/ (b[1] = f /\ b[2] # 0)
         /\ content' \in [Buffers -> 0 .. MaxRenders] /\ enabled' = enabled
         /\ \A b \in Buffers : b # hand'.buffer => content'[b] = content[b]
<1>1. /\ free \in Seq(Buffers) /\ content \in [Buffers -> 0 .. MaxRenders]
      /\ f \in 1 .. MaxRenders /\ frames \in Nat /\ out \in Seq(Images)
      /\ viewer \in Images \cup {NoFrame}
  BY RecordingAssumption DEF IntactInv, PoolTypeOK
<1>2. /\ \A b \in ToSet(free) : b \in Buffers /\ b[1] <= frames
      /\ \A x \in ToSet(out) : x.buffer \in Buffers /\ x.buffer[1] <= frames
      /\ viewer # NoFrame => viewer.buffer[1] <= frames
  <2>1. \A b \in ToSet(free) : b \in Buffers
    BY <1>1 DEF ToSet
  <2>2. \A x \in ToSet(out) : x.buffer \in Buffers
    <3>1. ToSet(out) \subseteq Images
      BY <1>1, ElementsFacts
    <3> QED BY <3>1 DEF Images
  <2> QED BY <2>1, <2>2 DEF IntactInv, AllAllocated, Allocated
<1>3. content' = [content EXCEPT ![hand'.buffer] = f] /\ enabled' = enabled
  BY DEF Acquire
<1>4. CASE free # <<>>
  <2>1. /\ free' = Front(free) /\ hand' = [buffer |-> Last(free), frame |-> f]
    BY <1>4 DEF Acquire, Remaining
  <2>2. /\ free' \in Seq(Buffers) /\ Last(free) \in Buffers
        /\ ToSet(free') \subseteq ToSet(free) /\ Last(free) \in ToSet(free)
        /\ IsInjective(free') /\ Last(free) \notin ToSet(free')
    BY <1>1, <1>4, <2>1, FrontFacts DEF IntactInv, OneOwner
  <2>3. hand' \in Images /\ hand'.buffer = Last(free) /\ hand'.frame = f
    BY <1>1, <2>1, <2>2 DEF Images
  <2>4. NotOut(hand'.buffer) /\ (viewer # NoFrame => hand'.buffer # viewer.buffer)
    BY <2>2, <2>3 DEF IntactInv, OneOwner, NotFree, NotOut
  <2>5. hand'.buffer[1] <= f /\ \A b \in ToSet(free') : b[1] <= f
    <3>1. \A b \in ToSet(free) : b[1] \in Nat /\ b[1] <= frames
      BY <1>2, RecordingAssumption DEF Buffers
    <3>2. \A b \in ToSet(free) : b[1] <= f
      BY <1>1, <3>1
    <3> QED BY <2>2, <2>3, <3>2
  <2>6. Shows(hand)' /\ content' \in [Buffers -> 0 .. MaxRenders]
        /\ \A b \in Buffers : b # hand'.buffer => content'[b] = content[b]
    BY <1>1, <1>3, <2>2, <2>3 DEF Shows
  <2>7. NotFree(hand.buffer)'
    BY <2>2, <2>3 DEF NotFree
  <2> QED BY <1>3, <2>2, <2>3, <2>4, <2>5, <2>6, <2>7
<1>5. CASE free = <<>>
  <2> DEFINE n == IF MaxSize < Seed THEN MaxSize ELSE Seed
  <2>1. /\ hand' = [buffer |-> <<f, 0>>, frame |-> f]
        /\ free' = <<>> \/ free' = [k \in 1 .. n |-> <<f, k>>]
    BY <1>5 DEF Acquire, Fresh, Spares
  <2>2. n \in Nat /\ n <= Seed
    BY RecordingAssumption
  <2>3. <<f, 0>> \in Buffers /\ \A k \in 1 .. n : <<f, k>> \in Buffers
    BY <1>1, <2>2, RecordingAssumption DEF Buffers
  <2> HIDE DEF n
  <2>4. hand' \in Images /\ hand'.buffer = <<f, 0>> /\ hand'.frame = f
    BY <1>1, <2>1, <2>3 DEF Images
  <2>5. /\ free' \in Seq(Buffers) /\ IsInjective(free')
        /\ \A b \in ToSet(free') : b[1] = f /\ b[2] # 0
    <3>1. CASE free' = <<>>
      BY <3>1 DEF IsInjective, ToSet
    <3>2. CASE free' = [k \in 1 .. n |-> <<f, k>>]
      <4>1. free' \in Seq(Buffers)
        BY <2>2, <2>3, <3>2
      <4>2. DOMAIN free' = 1 .. n /\ \A k \in 1 .. n : free'[k] = <<f, k>>
        BY <3>2
      <4>3. \A b \in ToSet(free') : b[1] = f /\ b[2] # 0
        BY <2>2, <4>2 DEF ToSet
      <4>4. IsInjective(free')
        BY <2>2, <4>2 DEF IsInjective
      <4> QED BY <4>1, <4>3, <4>4
    <3> QED BY <2>1, <3>1, <3>2
  <2>6. NotFree(hand.buffer)'
    BY <2>4, <2>5 DEF NotFree
  <2>7. NotOut(hand'.buffer) /\ (viewer # NoFrame => hand'.buffer # viewer.buffer)
    <3>1. ~(f <= frames) /\ hand'.buffer[1] = f
      BY <1>1, <2>4
    <3> QED BY <1>2, <3>1 DEF NotOut
  <2>8. Shows(hand)' /\ content' \in [Buffers -> 0 .. MaxRenders]
        /\ \A b \in Buffers : b # hand'.buffer => content'[b] = content[b]
    BY <1>1, <1>3, <2>3, <2>4 DEF Shows
  <2>9. hand'.buffer[1] <= f /\ \A b \in ToSet(free') : b[1] <= f
    BY <1>1, <2>4, <2>5
  <2> QED BY <1>3, <2>4, <2>5, <2>6, <2>7, <2>8, <2>9
<1> QED BY <1>4, <1>5

(* Drawing on a buffer nobody shows leaves every frame on its way intact. *)
LEMMA ShowsKept ==
  ASSUME NEW x \in Images, Shows(x), content'[x.buffer] = content[x.buffer]
  PROVE  Shows(x)'
BY DEF Shows

(* What the pool, the queue and their owners keep when a step touches none  *)
(* of them.                                                                 *)
LEMMA IntactFrame ==
  ASSUME IntactInv, UNCHANGED <<poolVars, frames, hand, out, viewer>>,
         OwnsHand' => OwnsHand, pc' # "idle" => pc # "idle"
  PROVE  IntactInv'
<1> USE DEF poolVars
<1>1. PoolTypeOK'
  BY DEF IntactInv, PoolTypeOK
<1>2. AllAllocated'
  BY DEF IntactInv, AllAllocated, Allocated
<1>3. OneOwner'
  BY DEF IntactInv, OneOwner, NotFree, NotOut, Disjoint
<1>4. DeliveredFramesAreIntact'
  BY DEF IntactInv, DeliveredFramesAreIntact, Shows, OwnsHand
<1> QED BY <1>1, <1>2, <1>3, <1>4 DEF IntactInv

LEMMA OtherStreamIntact == ASSUME IntactInv, OtherStream PROVE IntactInv'
<1>1. /\ free \in Seq(Buffers) /\ free # <<>> /\ content \in [Buffers -> 0 .. MaxRenders]
      /\ content' = [content EXCEPT ![Last(free)] = 0]
      /\ UNCHANGED <<enabled, free, frames, pc, hand, out, viewer>>
  BY DEF IntactInv, PoolTypeOK, OtherStream, streamVars
<1>2. Last(free) \in Buffers /\ Last(free) \in ToSet(free)
  BY <1>1, FrontFacts
<1>3. content' \in [Buffers -> 0 .. MaxRenders]
      /\ \A b \in Buffers : NotFree(b) => content'[b] = content[b]
  BY <1>1, <1>2, RecordingAssumption DEF NotFree
<1>4. PoolTypeOK'
  BY <1>1, <1>3 DEF IntactInv, PoolTypeOK
<1>5. AllAllocated' /\ OneOwner'
  BY <1>1 DEF IntactInv, AllAllocated, Allocated, OneOwner, NotFree, NotOut, Disjoint, OwnsHand
<1>6. DeliveredFramesAreIntact'
  <2>1. \A x \in ToSet(out) : x \in Images
    BY ElementsFacts DEF IntactInv, PoolTypeOK
  <2>2. \A x \in Images : Shows(x) /\ NotFree(x.buffer) => Shows(x)'
    BY <1>3 DEF Shows, Images
  <2>3. OwnsHand => hand \in Images
    BY DEF IntactInv, PoolTypeOK, OwnsHand
  <2> QED BY <1>1, <2>1, <2>2, <2>3
          DEF IntactInv, PoolTypeOK, OneOwner, DeliveredFramesAreIntact, OwnsHand
<1> QED BY <1>4, <1>5, <1>6 DEF IntactInv

LEMMA RenderIntact == ASSUME IntactInv, Render PROVE IntactInv'
<1>1. /\ pc = "idle" /\ frames < MaxRenders /\ frames' = frames + 1 /\ pc' = "put"
      /\ Acquire(frames') /\ UNCHANGED <<out, viewer>>
  BY DEF Render
<1> DEFINE f == frames'
<1>2. /\ hand' \in Images /\ Shows(hand)' /\ hand'.buffer[1] <= f
      /\ free' \in Seq(Buffers) /\ IsInjective(free')
      /\ \A b \in ToSet(free') : b[1] <= f
      /\ NotFree(hand.buffer)' /\ NotOut(hand'.buffer)
      /\ viewer # NoFrame => hand'.buffer # viewer.buffer
      /\ \A b \in ToSet(free') : b \in ToSet(free) \/ (b[1] = f /\ b[2] # 0)
      /\ content' \in [Buffers -> 0 .. MaxRenders] /\ enabled' = enabled
      /\ \A b \in Buffers : b # hand'.buffer => content'[b] = content[b]
  BY <1>1, AcquireFacts
<1>3. /\ frames \in Nat /\ f = frames + 1 /\ f \in 0 .. MaxRenders /\ out \in Seq(Images)
      /\ viewer \in Images \cup {NoFrame}
  BY <1>1, RecordingAssumption DEF IntactInv, PoolTypeOK
<1>4. \A x \in ToSet(out) : x \in Images
  BY <1>3, ElementsFacts
<1>5. \A x \in Images : x.buffer \in Buffers /\ x.buffer[1] \in Nat
  BY RecordingAssumption DEF Images, Buffers
<1>6. PoolTypeOK'
  BY <1>1, <1>2, <1>3 DEF PoolTypeOK, IntactInv
<1>7. AllAllocated'
  BY <1>1, <1>2, <1>3, <1>4, <1>5 DEF AllAllocated, Allocated, IntactInv
<1>8. OneOwner'
  <2>1. \A x \in Images : x.buffer[1] <= frames /\ NotFree(x.buffer) => NotFree(x.buffer)'
    BY <1>2, <1>3, <1>5 DEF NotFree
  <2>2. \A x \in ToSet(out) : NotFree(x.buffer)'
    BY <1>4, <2>1 DEF IntactInv, AllAllocated, Allocated, OneOwner
  <2>3. viewer # NoFrame => NotFree(viewer.buffer)' /\ NotOut(viewer.buffer)'
    BY <1>1, <1>3, <2>1 DEF IntactInv, AllAllocated, Allocated, OneOwner, NotOut
  <2>4. NotOut(hand.buffer)'
    BY <1>1, <1>2 DEF NotOut
  <2> QED BY <1>1, <1>2, <2>2, <2>3, <2>4 DEF IntactInv, OneOwner, Disjoint
<1>9. DeliveredFramesAreIntact'
  <2>1. \A x \in Images : Shows(x) /\ x.buffer # hand'.buffer => Shows(x)'
    BY <1>2, <1>5 DEF Shows
  <2> QED BY <1>1, <1>2, <1>3, <1>4, <2>1 DEF IntactInv, DeliveredFramesAreIntact, NotOut
<1> QED BY <1>6, <1>7, <1>8, <1>9 DEF IntactInv

(* The buffer b is given back by its owner, who shows it no longer. *)
LEMMA ReleaseIntact ==
  ASSUME IntactInv, NEW b \in Buffers, NotFree(b), Allocated(b), Release(b),
         frames' = frames, out' \in Seq(Images), Disjoint(out'), ToSet(out') \subseteq ToSet(out),
         \A x \in ToSet(out') : x.buffer # b,
         viewer' = NoFrame \/ (viewer' = viewer /\ viewer.buffer # b),
         hand' = hand, pc' # "idle" => pc # "idle",
         OwnsHand' => OwnsHand /\ hand.buffer # b
  PROVE  IntactInv'
<1>1. /\ free' \in Seq(Buffers) /\ IsInjective(free')
      /\ ToSet(free') \subseteq ToSet(free) \cup {b}
      /\ UNCHANGED <<enabled, content>>
  BY ReleaseFacts DEF IntactInv, OneOwner
<1>2. PoolTypeOK'
  BY <1>1 DEF IntactInv, PoolTypeOK
<1>3. AllAllocated'
  BY <1>1 DEF IntactInv, AllAllocated, Allocated
<1>4. OneOwner'
  <2>1. \A c : NotFree(c) /\ c # b => NotFree(c)'
    BY <1>1 DEF NotFree
  <2>2. \A c : NotOut(c) => NotOut(c)'
    BY DEF NotOut
  <2> QED BY <1>1, <2>1, <2>2 DEF IntactInv, OneOwner
<1>5. DeliveredFramesAreIntact'
  BY <1>1 DEF IntactInv, DeliveredFramesAreIntact, Shows, OwnsHand
<1> QED BY <1>2, <1>3, <1>4, <1>5 DEF IntactInv

(* The frame in hand joins the output queue. *)
LEMMA HandOverIntact ==
  ASSUME IntactInv, OwnsHand, out' = Append(out, hand), pc' = "push",
         UNCHANGED <<poolVars, frames, hand, viewer>>
  PROVE  IntactInv'
<1> USE DEF poolVars
<1>1. hand \in Images /\ NotOut(hand.buffer) /\ NotFree(hand.buffer) /\ Allocated(hand.buffer)
      /\ Shows(hand) /\ (viewer # NoFrame => hand.buffer # viewer.buffer)
  BY DEF IntactInv, PoolTypeOK, OneOwner, AllAllocated, DeliveredFramesAreIntact, OwnsHand
<1>2. out' \in Seq(Images) /\ Disjoint(out') /\ ToSet(out') = ToSet(out) \cup {hand}
  BY <1>1, OutAppend DEF IntactInv, OneOwner
<1>3. PoolTypeOK'
  BY <1>1, <1>2 DEF IntactInv, PoolTypeOK
<1>4. AllAllocated'
  BY <1>1, <1>2 DEF IntactInv, AllAllocated, Allocated, OwnsHand
<1>5. OneOwner'
  BY <1>1, <1>2 DEF IntactInv, OneOwner, NotFree, NotOut, OwnsHand
<1>6. DeliveredFramesAreIntact'
  BY <1>1, <1>2 DEF IntactInv, DeliveredFramesAreIntact, Shows
<1> QED BY <1>3, <1>4, <1>5, <1>6 DEF IntactInv

LEMMA ProcessIntact == ASSUME IntactInv, ProcessFrame PROVE IntactInv'
<1>1. CASE Render
  BY <1>1, RenderIntact
<1>2. CASE Put
  <2>1. OwnsHand /\ UNCHANGED <<poolVars, frames, hand, viewer>>
    BY <1>2 DEF Put, OwnsHand, streamVars
  <2>2. CASE Len(out) < OutMax
    BY <1>2, <2>1, <2>2, HandOverIntact DEF Put
  <2>3. CASE ~(Len(out) < OutMax)
    BY <1>2, <2>1, <2>3, IntactFrame DEF Put, OwnsHand
  <2> QED BY <2>2, <2>3
<1>3. CASE Evict
  <2>1. pc = "evict" /\ OwnsHand /\ UNCHANGED <<frames, hand, viewer>>
    BY <1>3 DEF Evict, OwnsHand, streamVars
  <2>2. CASE out = <<>>
    BY <1>3, <2>1, <2>2, IntactFrame DEF Evict, OwnsHand
  <2>3. CASE out # <<>>
    <3>1. Release(Head(out).buffer) /\ out' = Tail(out) /\ pc' = "reput"
      BY <1>3, <2>3 DEF Evict
    <3>2. /\ out' \in Seq(Images) /\ Disjoint(out') /\ ToSet(out') \subseteq ToSet(out)
          /\ Head(out) \in Images /\ Head(out) \in ToSet(out)
          /\ \A x \in ToSet(out') : x.buffer # Head(out).buffer
      BY <2>3, <3>1, OutTail DEF IntactInv, OneOwner
    <3>3. PICK b \in Buffers : b = Head(out).buffer
      BY <3>2 DEF Images
    <3>4. NotFree(b) /\ Allocated(b) /\ hand.buffer # b
          /\ (viewer # NoFrame => viewer.buffer # b)
      BY <2>1, <3>2, <3>3 DEF IntactInv, OneOwner, NotOut, AllAllocated
    <3> QED BY <2>1, <3>1, <3>2, <3>3, <3>4, ReleaseIntact
  <2> QED BY <2>2, <2>3
<1>4. CASE Reput
  BY <1>4, HandOverIntact DEF Reput, OwnsHand, streamVars
<1>5. CASE Drop
  <2>1. /\ OwnsHand /\ ~OwnsHand' /\ pc # "idle" /\ Release(hand.buffer)
        /\ UNCHANGED <<frames, hand, out, viewer>>
    BY <1>5 DEF Drop, OwnsHand, streamVars
  <2>2. PICK b \in Buffers : b = hand.buffer
    BY <2>1 DEF IntactInv, PoolTypeOK, Images
  <2>3. /\ NotFree(b) /\ Allocated(b) /\ \A x \in ToSet(out) : x.buffer # b
        /\ viewer = NoFrame \/ viewer.buffer # b
        /\ out \in Seq(Images) /\ Disjoint(out)
    BY <2>1, <2>2 DEF IntactInv, OneOwner, NotOut, AllAllocated, PoolTypeOK
  <2> QED BY <2>1, <2>2, <2>3, ReleaseIntact
<1>6. CASE Push \/ Submit
  BY <1>6, IntactFrame DEF Push, Submit, OwnsHand, streamVars
<1>7. CASE Trigger \/ NoEvent
  <2>1. /\ pc = "event" /\ pc' = "idle"
        /\ UNCHANGED <<enabled, free, content, frames, out, viewer>>
    BY <1>7 DEF Trigger, NoEvent, poolVars, streamVars
  <2> QED BY <2>1 DEF IntactInv, PoolTypeOK, AllAllocated, Allocated, OneOwner, NotFree,
                      NotOut, Disjoint, DeliveredFramesAreIntact, Shows, OwnsHand
<1> QED BY <1>1, <1>2, <1>3, <1>4, <1>5, <1>6, <1>7 DEF ProcessFrame

(* A frame the socket's thread lets go of, or the queue of a new stream. *)
LEMMA ForgetIntact ==
  ASSUME IntactInv, UNCHANGED <<enabled, content, frames, hand, pc>>,
         free' = free \/ free' = <<>>, out' = out \/ out' = <<>>,
         viewer' = viewer \/ viewer' = NoFrame
  PROVE  IntactInv'
<1>1. /\ free' \in Seq(Buffers) /\ IsInjective(free') /\ ToSet(free') \subseteq ToSet(free)
      /\ out' \in Seq(Images) /\ Disjoint(out') /\ ToSet(out') \subseteq ToSet(out)
  <2>1. /\ <<>> \in Seq(Buffers) /\ <<>> \in Seq(Images) /\ ToSet(<<>>) = {}
        /\ IsInjective(<<>>) /\ Disjoint(<<>>)
    BY DEF IsInjective, Disjoint, ToSet
  <2>2. free \in Seq(Buffers) /\ IsInjective(free) /\ out \in Seq(Images) /\ Disjoint(out)
    BY DEF IntactInv, PoolTypeOK, OneOwner
  <2>3. free' \in Seq(Buffers) /\ IsInjective(free') /\ ToSet(free') \subseteq ToSet(free)
    BY <2>1, <2>2
  <2>4. out' \in Seq(Images) /\ Disjoint(out') /\ ToSet(out') \subseteq ToSet(out)
    BY <2>1, <2>2
  <2> QED BY <2>3, <2>4
<1>2. PoolTypeOK'
  BY <1>1 DEF IntactInv, PoolTypeOK
<1>3. AllAllocated'
  BY <1>1 DEF IntactInv, AllAllocated, Allocated, OwnsHand
<1>4. OneOwner'
  BY <1>1 DEF IntactInv, OneOwner, NotFree, NotOut, OwnsHand
<1>5. DeliveredFramesAreIntact'
  BY <1>1 DEF IntactInv, DeliveredFramesAreIntact, Shows
<1> QED BY <1>2, <1>3, <1>4, <1>5 DEF IntactInv

LEMMA ViewIntact == ASSUME IntactInv, View PROVE IntactInv'
<1>1. /\ viewer = NoFrame /\ out # <<>> /\ viewer' = Head(out) /\ out' = Tail(out)
      /\ UNCHANGED <<enabled, free, content, frames, pc, hand>>
  BY DEF View, poolVars, streamVars
<1>2. /\ out' \in Seq(Images) /\ Disjoint(out') /\ ToSet(out') \subseteq ToSet(out)
      /\ Head(out) \in Images /\ Head(out) \in ToSet(out)
      /\ \A x \in ToSet(out') : x.buffer # Head(out).buffer
  BY <1>1, OutTail DEF IntactInv, OneOwner
<1>3. PoolTypeOK'
  BY <1>1, <1>2 DEF IntactInv, PoolTypeOK
<1>4. AllAllocated'
  BY <1>1, <1>2 DEF IntactInv, AllAllocated, Allocated, OwnsHand
<1>5. OneOwner'
  BY <1>1, <1>2 DEF IntactInv, OneOwner, NotFree, NotOut, OwnsHand
<1>6. DeliveredFramesAreIntact'
  BY <1>1, <1>2 DEF IntactInv, DeliveredFramesAreIntact, Shows
<1> QED BY <1>3, <1>4, <1>5, <1>6 DEF IntactInv

LEMMA EncodedIntact == ASSUME IntactInv, Encoded PROVE IntactInv'
<1>1. /\ viewer # NoFrame /\ viewer' = NoFrame /\ Release(viewer.buffer)
      /\ UNCHANGED <<frames, pc, hand, out>>
  BY DEF Encoded, streamVars
<1>2. PICK b \in Buffers : b = viewer.buffer
  BY <1>1 DEF IntactInv, PoolTypeOK, Images
<1>3. /\ NotFree(b) /\ Allocated(b) /\ \A x \in ToSet(out) : x.buffer # b
      /\ out \in Seq(Images) /\ Disjoint(out)
      /\ OwnsHand => hand.buffer # b
  BY <1>1, <1>2 DEF IntactInv, OneOwner, NotOut, AllAllocated, PoolTypeOK
<1>4. OwnsHand' => OwnsHand
  BY <1>1 DEF OwnsHand
<1> QED BY <1>1, <1>2, <1>3, <1>4, ReleaseIntact

LEMMA IntactStep == IntactInv /\ [RecordingNext]_recordingVars => IntactInv'
<1> SUFFICES ASSUME IntactInv, [RecordingNext]_recordingVars PROVE IntactInv'
  OBVIOUS
<1>1. CASE OtherStream
  BY <1>1, OtherStreamIntact
<1>2. CASE Cleanup \/ Start \/ Lost
  BY <1>2, ForgetIntact DEF Cleanup, Start, Lost, poolVars, streamVars
<1>3. CASE Stop \/ Drain \/ EndDrain
  BY <1>3, IntactFrame DEF Stop, Drain, EndDrain, poolVars, streamVars, OwnsHand
<1>4. CASE End
  BY <1>4, IntactFrame DEF End, OwnsHand
<1>5. CASE ProcessFrame
  BY <1>5, ProcessIntact
<1>6. CASE View
  BY <1>6, ViewIntact
<1>7. CASE Encoded
  BY <1>7, EncodedIntact
<1>8. CASE \E c \in DOMAIN clips : Encode(c) \/ Insert(c) \/ ClipFails(c)
  BY <1>8, IntactFrame DEF Encode, Insert, ClipFails, streamVars, OwnsHand
<1>9. CASE \E d \in Deleters :
             \/ DeleteRows(d) \/ DeleteFails(d)
             \/ \E r \in rows : DeleteFiles(d, r)
  BY <1>9, IntactFrame DEF DeleteRows, DeleteFails, DeleteFiles, streamVars, OwnsHand
<1>10. CASE UNCHANGED recordingVars
  BY <1>10, IntactFrame DEF recordingVars, streamVars, OwnsHand
<1> QED BY <1>1, <1>2, <1>3, <1>4, <1>5, <1>6, <1>7, <1>8, <1>9, <1>10 DEF RecordingNext

LEMMA IntactInit == RecordingInit => IntactInv
<1> SUFFICES ASSUME RecordingInit PROVE IntactInv
  OBVIOUS
<1>1. /\ free = <<>> /\ out = <<>> /\ viewer = NoFrame /\ pc = "idle" /\ enabled \in BOOLEAN
      /\ content = [b \in Buffers |-> 0] /\ frames = 0
  BY DEF RecordingInit
<1>2. ToSet(free) = {} /\ ToSet(out) = {}
  BY <1>1 DEF ToSet
<1>3. PoolTypeOK
  BY <1>1, RecordingAssumption DEF PoolTypeOK
<1>4. IsInjective(free) /\ Disjoint(out)
  BY <1>1 DEF IsInjective, Disjoint
<1> QED BY <1>1, <1>2, <1>3, <1>4
        DEF IntactInv, AllAllocated, OneOwner, OwnsHand, DeliveredFramesAreIntact

(* No frame on its way to a client is drawn over: the three places that     *)
(* give buffers back to the pool (service.py, _process_frame(); main.py,    *)
(* websocket_stream()) give each back once, whatever the sizes of the pool  *)
(* and the queue, and however evictions, sockets and other streams interleave.*)
THEOREM FramesArriveIntact == RecordingSpec => []DeliveredFramesAreIntact
<1>1. RecordingSpec => []IntactInv
  BY IntactInit, IntactStep, PTL DEF RecordingSpec
<1>2. IntactInv => DeliveredFramesAreIntact
  BY DEF IntactInv
<1> QED BY <1>1, <1>2, PTL
-----------------------------------------------------------------------------
(* The recorder's writer, and the evidence clips with their files and rows. *)

IsRecorder(x) ==
  x \in [row : 0 .. MaxLives, pre : {x.pre}, queued : 0 .. QueueMax,
         writer : {"off", "draining", "ending"}]

(* No recorder has no frames; frames that are queued have somebody to take  *)
(* them.                                                                    *)
WriterInv ==
  /\ lives \in 0 .. MaxLives /\ IsRecorder(recorder)
  /\ recorder.row = 0 => recorder.queued = 0
  /\ NoStrandedFrame

LEMMA NoRecorderFacts ==
  /\ IsRecorder(NoRecorder) /\ NoRecorder.row = 0 /\ NoRecorder.queued = 0
  /\ \A l \in 1 .. MaxLives :
       /\ IsRecorder([NoRecorder EXCEPT !.row = l])
       /\ [NoRecorder EXCEPT !.row = l].row = l
       /\ [NoRecorder EXCEPT !.row = l].queued = 0
BY RecordingAssumption DEF NoRecorder, IsRecorder

LEMMA WriterStep == WriterInv /\ [RecordingNext]_recordingVars => WriterInv'
<1> SUFFICES ASSUME WriterInv, [RecordingNext]_recordingVars PROVE WriterInv'
  OBVIOUS
<1> USE RecordingAssumption
<1>1. CASE UNCHANGED <<lives, recorder>> /\ (pc = "task" => pc' = "task")
  BY <1>1 DEF WriterInv, NoStrandedFrame
<1>2. CASE Start
  <2>1. lives' = lives + 1 /\ lives' \in 1 .. MaxLives
    BY <1>2 DEF Start, WriterInv
  <2>2. CASE recorder.row # 0
    BY <1>2, <2>1, <2>2 DEF Start, WriterInv, NoStrandedFrame
  <2>3. CASE recorder.row = 0
    <3>1. recorder' = [NoRecorder EXCEPT !.row = lives']
      BY <1>2, <2>3 DEF Start
    <3> QED BY <2>1, <3>1, NoRecorderFacts DEF WriterInv, NoStrandedFrame
  <2> QED BY <2>2, <2>3
<1>3. CASE Stop
  BY <1>3, NoRecorderFacts DEF Stop, WriterInv, NoStrandedFrame
<1>4. CASE Push
  <2>1. lives' = lives /\ pc = "push"
    BY <1>4 DEF Push, streamVars
  <2>2. CASE recorder.row = 0
    BY <1>4, <2>1, <2>2 DEF Push, WriterInv, NoStrandedFrame
  <2>3. CASE recorder.row # 0
    <3>1. PICK p : recorder' = [recorder EXCEPT !.pre = p,
                     !.queued = IF recorder.queued < QueueMax THEN recorder.queued + 1
                                ELSE recorder.queued]
      BY <1>4, <2>3 DEF Push
    <3>2. PICK q \in 0 .. QueueMax :
            q = IF recorder.queued < QueueMax THEN recorder.queued + 1 ELSE recorder.queued
      BY DEF WriterInv, IsRecorder
    <3>6. recorder' = [row |-> recorder.row, pre |-> p, queued |-> q,
                       writer |-> recorder.writer]
      BY <3>1, <3>2 DEF WriterInv, IsRecorder
    <3>7. IsRecorder(recorder')
      BY <3>6 DEF WriterInv, IsRecorder
    <3>3. recorder.queued < QueueMax => pc' = "task"
      BY <1>4, <2>3 DEF Push
    <3>4. recorder.queued \in 0 .. QueueMax
      BY DEF WriterInv, IsRecorder
    <3>5. ~(recorder.queued < QueueMax) => recorder.writer # "off"
      BY <2>1, <3>4 DEF WriterInv, NoStrandedFrame
    <3> QED BY <2>1, <2>3, <3>2, <3>6, <3>7, <3>3, <3>5 DEF WriterInv, NoStrandedFrame
  <2> QED BY <2>2, <2>3
<1>5. CASE Submit
  <2>1. lives' = lives /\ pc = "task" /\ IsRecorder(recorder)
    BY <1>5 DEF Submit, streamVars, WriterInv
  <2>2. CASE recorder.row # 0 /\ recorder.writer = "off"
    <3>1. recorder' = [recorder EXCEPT !.writer = "draining"]
      BY <1>5, <2>2 DEF Submit
    <3> QED BY <2>1, <2>2, <3>1 DEF WriterInv, NoStrandedFrame, IsRecorder
  <2>3. CASE ~(recorder.row # 0 /\ recorder.writer = "off")
    BY <1>5, <2>1, <2>3 DEF Submit, WriterInv, NoStrandedFrame
  <2> QED BY <2>2, <2>3
<1>6. CASE Drain
  <2>1. lives' = lives /\ pc' = pc /\ IsRecorder(recorder)
    BY <1>6 DEF Drain, streamVars, WriterInv
  <2>2. \/ /\ recorder.queued > 0 /\ recorder.writer = "draining"
           /\ recorder' = [recorder EXCEPT !.queued = recorder.queued - 1]
        \/ ~(recorder.queued > 0) /\ recorder' = [recorder EXCEPT !.writer = "ending"]
    BY <1>6 DEF Drain
  <2> QED BY <2>1, <2>2 DEF WriterInv, NoStrandedFrame, IsRecorder
<1>7. CASE EndDrain
  <2>1. lives' = lives /\ pc' = pc /\ IsRecorder(recorder)
    BY <1>7 DEF EndDrain, streamVars, WriterInv
  <2>2. recorder' = [recorder EXCEPT !.writer =
                       IF recorder.queued > 0 THEN "draining" ELSE "off"]
    BY <1>7 DEF EndDrain, NextTask
  <2> QED BY <2>1, <2>2 DEF WriterInv, NoStrandedFrame, IsRecorder
<1>8. CASE OtherStream \/ Cleanup \/ End \/ View \/ Encoded \/ Lost
  BY <1>1, <1>8 DEF OtherStream, Cleanup, End, View, Encoded, Lost, streamVars
<1>9. CASE Render \/ Put \/ Evict \/ Reput \/ Drop \/ Trigger \/ NoEvent
  BY <1>1, <1>9 DEF Render, Put, Evict, Reput, Drop, Trigger, NoEvent, streamVars
<1>10. CASE \E c \in DOMAIN clips : Encode(c) \/ Insert(c) \/ ClipFails(c)
  BY <1>1, <1>10 DEF Encode, Insert, ClipFails, streamVars
<1>11. CASE \E d \in Deleters :
              \/ DeleteRows(d) \/ DeleteFails(d)
              \/ \E r \in rows : DeleteFiles(d, r)
  BY <1>1, <1>11 DEF DeleteRows, DeleteFails, DeleteFiles, streamVars
<1>12. CASE UNCHANGED recordingVars
  BY <1>1, <1>12 DEF recordingVars, streamVars
<1> QED BY <1>2, <1>3, <1>4, <1>5, <1>6, <1>7, <1>8, <1>9, <1>10, <1>11, <1>12
        DEF RecordingNext, ProcessFrame

LEMMA WriterInit == RecordingInit => WriterInv
BY NoRecorderFacts, RecordingAssumption DEF RecordingInit, WriterInv, NoStrandedFrame

(* Frames the recorder has queued are never left without a task that takes  *)
(* them: the writer looks at the queue again when it clears its flag        *)
(* (_writer_drain_task() against push_frame()), for every size of the queue.*)
THEOREM QueuedFramesHaveAWriter == RecordingSpec => []NoStrandedFrame
<1>1. RecordingSpec => []WriterInv
  BY WriterInit, WriterStep, PTL DEF RecordingSpec
<1>2. WriterInv => NoStrandedFrame
  BY DEF WriterInv
<1> QED BY <1>1, <1>2, PTL

(* A clip: what its frames and images are does not matter here. *)
IsClip(x) ==
  x \in [row : {x.row}, frames : {x.frames}, images : {x.images},
         at : {"queued", "encoded", "done", "failed"}, file : BOOLEAN, evidence : BOOLEAN]

ClipTypeOK ==
  /\ clips \in Seq(ToSet(clips)) /\ \A c \in DOMAIN clips : IsClip(clips[c])
  /\ rows \subseteq 1 .. MaxLives /\ early \subseteq 1 .. MaxLives
  /\ failed \in BOOLEAN
  /\ deleting \in [Deleters -> [row : 0 .. MaxLives, clips : SUBSET Nat]]

(* The clip is in the making. *)
Making(c) == clips[c].at \in {"queued", "encoded"}

(* What a deletion has listed is finished evidence of its recording whose   *)
(* file has gone.                                                           *)
ListedIsGone ==
  \A d \in Deleters : \A c \in deleting[d].clips :
    /\ c \in DOMAIN clips /\ clips[c].row = deleting[d].row
    /\ clips[c].at = "done" /\ ~clips[c].file

(* A recorder, and a clip in the making, belong to a recording that is in   *)
(* the database, or was deleted while they used it; an encoded clip has its *)
(* file, and only a finished one has its row.                               *)
UsedIsKept ==
  /\ recorder.row # 0 => recorder.row \in rows \cup early
  /\ \A c \in DOMAIN clips :
       /\ Making(c) => clips[c].row \in rows \cup early
       /\ clips[c].at = "encoded" => clips[c].file
       /\ clips[c].evidence => clips[c].at = "done"

WholeInv == WriterInv /\ ClipTypeOK /\ ListedIsGone /\ UsedIsKept /\ ClipsAreWhole

(* Clips are a sequence: one that is changed in place, and one appended. *)
LEMMA ClipsMapped ==
  ASSUME clips \in Seq(ToSet(clips)), DOMAIN clips' = DOMAIN clips,
         clips' = [c \in DOMAIN clips |-> clips'[c]]
  PROVE  clips' \in Seq(ToSet(clips'))
<1>1. Len(clips) \in Nat /\ DOMAIN clips = 1 .. Len(clips)
  OBVIOUS
<1>2. \A c \in DOMAIN clips : clips'[c] \in ToSet(clips')
  BY DEF ToSet
<1>3. clips' \in [1 .. Len(clips) -> ToSet(clips')]
  BY <1>1, <1>2
<1> QED BY <1>1, <1>3

LEMMA ClipsAppended ==
  ASSUME clips \in Seq(ToSet(clips)), NEW x, clips' = Append(clips, x)
  PROVE  /\ clips' \in Seq(ToSet(clips')) /\ DOMAIN clips = 1 .. Len(clips) /\ Len(clips) \in Nat
         /\ DOMAIN clips' = 1 .. Len(clips) + 1
         /\ \A c \in DOMAIN clips : clips'[c] = clips[c]
         /\ clips'[Len(clips) + 1] = x
<1> DEFINE S == ToSet(clips) \cup {x}
<1>1. clips \in Seq(S)
  <2>1. Len(clips) \in Nat /\ DOMAIN clips = 1 .. Len(clips) /\ clips \in [1 .. Len(clips) -> S]
    OBVIOUS
  <2> QED BY <2>1
<1> HIDE DEF S
<1>2. x \in S
  BY DEF S
<1>3. /\ clips' \in Seq(S) /\ Len(clips') = Len(clips) + 1 /\ Len(clips) \in Nat
      /\ \A i \in 1 .. Len(clips) : clips'[i] = clips[i]
      /\ clips'[Len(clips) + 1] = x
      /\ ToSet(clips') = ToSet(clips) \cup {x}
  BY <1>1, <1>2, AppendFacts
<1>4. ToSet(clips') = S
  BY <1>3 DEF S
<1>5. DOMAIN clips = 1 .. Len(clips) /\ DOMAIN clips' = 1 .. Len(clips')
  BY <1>3
<1> QED BY <1>3, <1>4, <1>5

(* A step that leaves clips, rows and deletions alone. *)
LEMMA WholeFrame ==
  ASSUME WholeInv, WriterInv', UNCHANGED diskVars,
         recorder'.row # 0 => recorder'.row = recorder.row
  PROVE  WholeInv'
<1> USE DEF diskVars
<1>1. ClipTypeOK'
  BY DEF WholeInv, ClipTypeOK, IsClip
<1>2. ListedIsGone' /\ UsedIsKept'
  BY DEF WholeInv, ListedIsGone, UsedIsKept, Making
<1>3. ClipsAreWhole'
  BY DEF WholeInv, ClipsAreWhole
<1> QED BY <1>1, <1>2, <1>3 DEF WholeInv

(* A new recording only adds a row. *)
LEMMA StartWhole == ASSUME WholeInv, WriterInv', Start PROVE WholeInv'
<1>1. CASE recorder.row # 0
  BY <1>1, WholeFrame DEF Start, diskVars
<1>2. CASE recorder.row = 0
  <2>1. /\ recorder' = [NoRecorder EXCEPT !.row = lives'] /\ rows' = rows \cup {lives'}
        /\ lives' = lives + 1 /\ UNCHANGED <<clips, deleting, failed, early>>
        /\ lives' \in 1 .. MaxLives
    BY <1>2, RecordingAssumption DEF Start, WholeInv, WriterInv
  <2>2. recorder'.row = lives'
    BY <2>1, NoRecorderFacts
  <2>3. ClipTypeOK'
    BY <2>1 DEF WholeInv, ClipTypeOK, IsClip
  <2>4. ListedIsGone'
    BY <2>1 DEF WholeInv, ListedIsGone
  <2>5. UsedIsKept'
    BY <2>1, <2>2 DEF WholeInv, UsedIsKept, Making
  <2>6. ClipsAreWhole'
    BY <2>1 DEF WholeInv, ClipsAreWhole
  <2> QED BY <2>3, <2>4, <2>5, <2>6 DEF WholeInv
<1> QED BY <1>1, <1>2

LEMMA TriggerWhole == ASSUME WholeInv, WriterInv', Trigger PROVE WholeInv'
<1>1. /\ recorder.row # 0
      /\ UNCHANGED <<recorder, rows, deleting, failed, early>>
  BY DEF Trigger
<1>2. PICK x : /\ clips' = Append(clips, x)
               /\ x = [row |-> recorder.row, frames |-> recorder.pre, images |-> 0,
                       at |-> "queued", file |-> FALSE, evidence |-> FALSE]
  BY DEF Trigger
<1>3. /\ clips' \in Seq(ToSet(clips')) /\ DOMAIN clips = 1 .. Len(clips) /\ Len(clips) \in Nat
      /\ DOMAIN clips' = 1 .. Len(clips) + 1
      /\ \A c \in DOMAIN clips : clips'[c] = clips[c]
      /\ clips'[Len(clips) + 1] = x
  BY <1>2, ClipsAppended DEF WholeInv, ClipTypeOK
<1>4. \A c \in DOMAIN clips' : (c \in DOMAIN clips /\ clips'[c] = clips[c]) \/ clips'[c] = x
  BY <1>3
<1>5. /\ x.row = recorder.row /\ x.at = "queued" /\ ~x.file /\ ~x.evidence /\ IsClip(x)
  BY <1>2 DEF IsClip
<1>6. ClipTypeOK'
  BY <1>1, <1>3, <1>4, <1>5 DEF WholeInv, ClipTypeOK, IsClip
<1>7. ListedIsGone'
  BY <1>1, <1>3 DEF WholeInv, ListedIsGone
<1>8. UsedIsKept'
  BY <1>1, <1>4, <1>5 DEF WholeInv, UsedIsKept, Making
<1>9. ClipsAreWhole'
  BY <1>1, <1>4, <1>5 DEF WholeInv, ClipsAreWhole
<1> QED BY <1>6, <1>7, <1>8, <1>9 DEF WholeInv

(* A clip in the making is encoded, finished or given up. *)
LEMMA MakingWhole ==
  ASSUME WholeInv, WriterInv', NEW c \in DOMAIN clips,
         Encode(c) \/ Insert(c) \/ ClipFails(c)
  PROVE  WholeInv'
<1>1. UNCHANGED <<recorder, rows, deleting, failed, early>> /\ Making(c)
  BY DEF Encode, Insert, ClipFails, Making
<1>2. IsClip(clips[c])
  BY DEF WholeInv, ClipTypeOK
<1>3. /\ DOMAIN clips' = DOMAIN clips /\ clips' = [d \in DOMAIN clips |-> clips'[d]]
      /\ \A d \in DOMAIN clips \ {c} : clips'[d] = clips[d]
  BY DEF Encode, Insert, ClipFails
<1>4. /\ IsClip(clips'[c]) /\ clips'[c].row = clips[c].row
      /\ \/ /\ clips'[c].at = "failed" /\ clips'[c].evidence = clips[c].evidence
         \/ /\ clips'[c].at = "encoded" /\ clips'[c].evidence = clips[c].evidence
            /\ clips'[c].file
         \/ /\ clips'[c].at = "done" /\ clips'[c].evidence /\ clips[c].at = "encoded"
            /\ clips'[c].file = clips[c].file
  <2>1. CASE Encode(c)
    <3>1. PICK n : clips' = [clips EXCEPT ![c].at = "encoded", ![c].file = TRUE,
                               ![c].images = n, ![c].frames = <<>>]
      BY <2>1 DEF Encode
    <3>2. clips'[c] = [row |-> clips[c].row, frames |-> <<>>, images |-> n,
                       at |-> "encoded", file |-> TRUE, evidence |-> clips[c].evidence]
      BY <1>2, <3>1 DEF IsClip
    <3> QED BY <1>2, <2>1, <3>2 DEF Encode, IsClip
  <2>2. CASE Insert(c)
    <3>1. clips'[c] = [row |-> clips[c].row, frames |-> clips[c].frames,
                       images |-> clips[c].images,
                       at |-> "done", file |-> clips[c].file, evidence |-> TRUE]
      BY <1>2, <2>2 DEF Insert, IsClip
    <3> QED BY <1>2, <2>2, <3>1 DEF Insert, IsClip
  <2>3. CASE ClipFails(c)
    <3>1. clips'[c] = [row |-> clips[c].row, frames |-> <<>>, images |-> clips[c].images,
                       at |-> "failed", file |-> clips[c].file,
                       evidence |-> clips[c].evidence]
      BY <1>2, <2>3 DEF ClipFails, IsClip
    <3> QED BY <1>2, <3>1 DEF IsClip
  <2> QED BY <2>1, <2>2, <2>3
<1>5. ~clips[c].evidence /\ \A d \in Deleters : c \notin deleting[d].clips
  BY <1>1 DEF WholeInv, UsedIsKept, ListedIsGone, Making
<1>6. ClipTypeOK'
  BY <1>1, <1>3, <1>4, ClipsMapped DEF WholeInv, ClipTypeOK, IsClip
<1>7. ListedIsGone'
  BY <1>1, <1>3, <1>5 DEF WholeInv, ListedIsGone
<1>8. UsedIsKept'
  BY <1>1, <1>3, <1>4, <1>5 DEF WholeInv, UsedIsKept, Making
<1>9. ClipsAreWhole'
  BY <1>1, <1>3, <1>4, <1>5 DEF WholeInv, ClipsAreWhole, UsedIsKept
<1> QED BY <1>6, <1>7, <1>8, <1>9 DEF WholeInv

(* The files of a recording's evidence go first. *)
LEMMA FilesWhole ==
  ASSUME WholeInv, WriterInv', NEW d \in Deleters, NEW r \in rows, DeleteFiles(d, r)
  PROVE  WholeInv'
<1>1. /\ UNCHANGED <<recorder, rows, failed, early>> /\ deleting[d] = NoDeletion
      /\ deleting' = [deleting EXCEPT ![d] = [row |-> r, clips |-> Evidence(r)]]
      /\ clips' = [c \in DOMAIN clips |->
                     IF c \in Evidence(r) THEN [clips[c] EXCEPT !.file = FALSE] ELSE clips[c]]
  BY DEF DeleteFiles
<1>2. /\ DOMAIN clips' = DOMAIN clips /\ clips' = [c \in DOMAIN clips |-> clips'[c]]
      /\ \A c \in DOMAIN clips \ Evidence(r) : clips'[c] = clips[c]
  BY <1>1
<1>3. \A c \in DOMAIN clips : IsClip(clips[c]) /\ c \in Nat
  <2>1. DOMAIN clips = 1 .. Len(clips)
    BY DEF WholeInv, ClipTypeOK
  <2> QED BY <2>1 DEF WholeInv, ClipTypeOK
<1>4. ASSUME NEW c \in Evidence(r)
      PROVE  /\ c \in DOMAIN clips /\ clips[c].row = r /\ clips[c].evidence
             /\ clips[c].at = "done"
             /\ clips'[c].row = r /\ clips'[c].at = "done" /\ ~clips'[c].file
             /\ clips'[c].evidence /\ IsClip(clips'[c])
  <2>1. c \in DOMAIN clips /\ clips[c].row = r /\ clips[c].evidence
    BY DEF Evidence
  <2>2. clips[c].at = "done"
    BY <2>1 DEF WholeInv, UsedIsKept
  <2>3. clips'[c] = [row |-> r, frames |-> clips[c].frames, images |-> clips[c].images,
                     at |-> "done", file |-> FALSE, evidence |-> clips[c].evidence]
    BY <1>1, <1>3, <2>1, <2>2 DEF IsClip
  <2> QED BY <1>3, <2>1, <2>2, <2>3 DEF IsClip
<1>5. deleting' \in [Deleters -> [row : 0 .. MaxLives, clips : SUBSET Nat]]
      /\ deleting'[d] = [row |-> r, clips |-> Evidence(r)]
      /\ \A e \in Deleters \ {d} : deleting'[e] = deleting[e]
  <2>1. r \in 0 .. MaxLives
    <3>1. r \in 1 .. MaxLives
      BY DEF WholeInv, ClipTypeOK
    <3> QED BY <3>1, RecordingAssumption
  <2>2. Evidence(r) \subseteq Nat
    BY <1>3 DEF Evidence
  <2> QED BY <1>1, <2>1, <2>2 DEF WholeInv, ClipTypeOK
<1>6. ClipTypeOK'
  <2>1. clips' \in Seq(ToSet(clips'))
    BY <1>2, ClipsMapped DEF WholeInv, ClipTypeOK
  <2>2. \A c \in DOMAIN clips' : IsClip(clips'[c])
    BY <1>2, <1>3, <1>4
  <2> QED BY <1>1, <1>5, <2>1, <2>2 DEF WholeInv, ClipTypeOK, IsClip
<1>7. ListedIsGone'
  <2> SUFFICES ASSUME NEW e \in Deleters, NEW c \in deleting'[e].clips
               PROVE  /\ c \in DOMAIN clips' /\ clips'[c].row = deleting'[e].row
                      /\ clips'[c].at = "done" /\ ~clips'[c].file
    BY DEF ListedIsGone
  <2>1. CASE e = d
    BY <1>2, <1>4, <1>5, <2>1
  <2>2. CASE e # d
    <3>1. /\ c \in DOMAIN clips /\ clips[c].row = deleting'[e].row
          /\ clips[c].at = "done" /\ ~clips[c].file
      BY <1>5, <2>2 DEF WholeInv, ListedIsGone
    <3> QED BY <1>2, <1>4, <3>1
  <2> QED BY <2>1, <2>2
<1>8. UsedIsKept'
  BY <1>1, <1>2, <1>4 DEF WholeInv, UsedIsKept, Making
<1>9. ClipsAreWhole'
  <2> SUFFICES ASSUME NEW c \in DOMAIN clips, clips[c].row \notin early
               PROVE  /\ clips'[c].evidence =>
                           clips'[c].file \/ failed \/ \E e \in Deleters : c \in deleting'[e].clips
                      /\ clips'[c].at = "done" /\ clips'[c].file => clips'[c].evidence
                      /\ clips'[c].evidence => clips'[c].row \in rows
    BY <1>1, <1>2, <1>4 DEF ClipsAreWhole
  <2>1. CASE c \in Evidence(r)
    BY <1>4, <1>5, <2>1
  <2>2. CASE c \notin Evidence(r)
    <3>1. clips'[c] = clips[c]
      BY <1>2, <2>2
    <3>2. \A e \in Deleters : c \in deleting[e].clips => c \in deleting'[e].clips
      BY <1>1, <1>5 DEF NoDeletion
    <3> QED BY <3>1, <3>2 DEF WholeInv, ClipsAreWhole
  <2> QED BY <2>1, <2>2
<1> QED BY <1>6, <1>7, <1>8, <1>9 DEF WholeInv

(* The rows follow; whoever still used the recording is noted. *)
LEMMA RowsWhole ==
  ASSUME WholeInv, WriterInv', NEW d \in Deleters, DeleteRows(d)
  PROVE  WholeInv'
<1> DEFINE r == deleting[d].row
           L == deleting[d].clips
<1>1. /\ r \in rows /\ rows' = rows \ {r} /\ UNCHANGED <<recorder, failed>>
      /\ early' = IF InUse(d, r) THEN early \cup {r} ELSE early
      /\ clips' = [c \in DOMAIN clips |->
                     IF c \in L THEN [clips[c] EXCEPT !.evidence = FALSE] ELSE clips[c]]
      /\ deleting' = [deleting EXCEPT ![d] = NoDeletion]
  BY DEF DeleteRows
<1>2. /\ DOMAIN clips' = DOMAIN clips /\ clips' = [c \in DOMAIN clips |-> clips'[c]]
      /\ \A c \in DOMAIN clips \ L : clips'[c] = clips[c]
  BY <1>1
<1>3. \A c \in DOMAIN clips : IsClip(clips[c])
  BY DEF WholeInv, ClipTypeOK
<1>4. ASSUME NEW c \in L
      PROVE  /\ c \in DOMAIN clips /\ clips[c].row = r /\ clips[c].at = "done" /\ ~clips[c].file
             /\ clips'[c].row = r /\ clips'[c].at = "done" /\ ~clips'[c].file
             /\ ~clips'[c].evidence /\ IsClip(clips'[c])
  <2>1. c \in DOMAIN clips /\ clips[c].row = r /\ clips[c].at = "done" /\ ~clips[c].file
    BY DEF WholeInv, ListedIsGone
  <2>2. clips'[c] = [row |-> clips[c].row, frames |-> clips[c].frames,
                     images |-> clips[c].images, at |-> clips[c].at,
                     file |-> clips[c].file, evidence |-> FALSE]
    BY <1>1, <1>3, <2>1 DEF IsClip
  <2> QED BY <1>3, <2>1, <2>2 DEF IsClip
<1>5. /\ deleting' \in [Deleters -> [row : 0 .. MaxLives, clips : SUBSET Nat]]
      /\ deleting'[d] = NoDeletion
      /\ \A e \in Deleters \ {d} : deleting'[e] = deleting[e]
  <2>1. NoDeletion \in [row : 0 .. MaxLives, clips : SUBSET Nat]
    BY RecordingAssumption DEF NoDeletion
  <2> QED BY <1>1, <2>1 DEF WholeInv, ClipTypeOK
<1>6. /\ early \subseteq early' /\ early' \subseteq early \cup {r}
      /\ r \notin early' => ~InUse(d, r)
  BY <1>1
<1>7. ClipTypeOK'
  <2>1. clips' \in Seq(ToSet(clips'))
    BY <1>2, ClipsMapped DEF WholeInv, ClipTypeOK
  <2>2. \A c \in DOMAIN clips' : IsClip(clips'[c])
    BY <1>2, <1>3, <1>4
  <2> QED BY <1>1, <1>5, <1>6, <2>1, <2>2 DEF WholeInv, ClipTypeOK, IsClip
<1>8. ListedIsGone'
  <2> SUFFICES ASSUME NEW e \in Deleters, NEW c \in deleting'[e].clips
               PROVE  /\ c \in DOMAIN clips' /\ clips'[c].row = deleting'[e].row
                      /\ clips'[c].at = "done" /\ ~clips'[c].file
    BY DEF ListedIsGone
  <2>1. e # d /\ deleting'[e] = deleting[e]
    BY <1>5 DEF NoDeletion
  <2>2. /\ c \in DOMAIN clips /\ clips[c].row = deleting'[e].row
        /\ clips[c].at = "done" /\ ~clips[c].file
    BY <2>1 DEF WholeInv, ListedIsGone
  <2> QED BY <1>2, <1>4, <2>2
<1>9. UsedIsKept'
  <2>1. recorder'.row # 0 => recorder'.row \in rows' \cup early'
    BY <1>1, <1>6 DEF WholeInv, UsedIsKept, InUse
  <2>2. ASSUME NEW c \in DOMAIN clips
        PROVE  /\ Making(c)' => clips'[c].row \in rows' \cup early'
               /\ clips'[c].at = "encoded" => clips'[c].file
               /\ clips'[c].evidence => clips'[c].at = "done"
    <3>1. CASE c \in L
      BY <1>4, <3>1 DEF Making
    <3>2. CASE c \notin L
      <4>1. clips'[c] = clips[c]
        BY <1>2, <3>2
      <4>2. clips[c].row = r /\ Making(c) => InUse(d, r)
        BY DEF InUse, Making
      <4> QED BY <1>1, <1>6, <4>1, <4>2 DEF WholeInv, UsedIsKept, Making
    <3> QED BY <3>1, <3>2
  <2> QED BY <1>2, <2>1, <2>2 DEF UsedIsKept
<1>10. ClipsAreWhole'
  <2> SUFFICES ASSUME NEW c \in DOMAIN clips, clips'[c].row \notin early'
               PROVE  /\ clips'[c].evidence =>
                           clips'[c].file \/ failed' \/ \E e \in Deleters : c \in deleting'[e].clips
                      /\ clips'[c].at = "done" /\ clips'[c].file => clips'[c].evidence
                      /\ clips'[c].evidence => clips'[c].row \in rows'
    BY <1>2 DEF ClipsAreWhole
  <2>1. CASE c \in L
    BY <1>4, <2>1
  <2>2. CASE c \notin L
    <3>1. clips'[c] = clips[c] /\ clips[c].row \notin early
      BY <1>2, <1>6, <2>2
    <3>2. \A e \in Deleters : c \in deleting[e].clips => c \in deleting'[e].clips
      BY <1>5, <2>2
    <3>3. clips[c].evidence => clips[c].row # r
      <4> SUFFICES ASSUME clips[c].evidence, clips[c].row = r PROVE FALSE
        OBVIOUS
      <4>1. c \in Evidence(r)
        BY DEF Evidence
      <4>2. InUse(d, r)
        BY <2>2, <4>1 DEF InUse
      <4> QED BY <1>6, <3>1, <4>2
    <3>4. /\ clips[c].evidence =>
               clips[c].file \/ failed \/ \E e \in Deleters : c \in deleting[e].clips
          /\ clips[c].at = "done" /\ clips[c].file => clips[c].evidence
          /\ clips[c].evidence => clips[c].row \in rows
      BY <3>1 DEF WholeInv, ClipsAreWhole
    <3>5. failed' = failed /\ rows' = rows \ {r}
      BY <1>1
    <3> QED BY <3>1, <3>2, <3>3, <3>4, <3>5
  <2> QED BY <2>1, <2>2
<1> QED BY <1>7, <1>8, <1>9, <1>10 DEF WholeInv

(* A commit that fails leaves the rows: from then on evidence may lack its  *)
(* file, unless the recording was gone already.                             *)
LEMMA FailsWhole ==
  ASSUME WholeInv, WriterInv', NEW d \in Deleters, DeleteFails(d)
  PROVE  WholeInv'
<1>1. /\ deleting' = [deleting EXCEPT ![d] = NoDeletion]
      /\ failed' = (failed \/ deleting[d].row \in rows)
      /\ UNCHANGED <<recorder, rows, clips, early>>
  BY DEF DeleteFails
<1>2. /\ deleting' \in [Deleters -> [row : 0 .. MaxLives, clips : SUBSET Nat]]
      /\ deleting'[d] = NoDeletion
      /\ \A e \in Deleters \ {d} : deleting'[e] = deleting[e]
  <2>1. NoDeletion \in [row : 0 .. MaxLives, clips : SUBSET Nat]
    BY RecordingAssumption DEF NoDeletion
  <2> QED BY <1>1, <2>1 DEF WholeInv, ClipTypeOK
<1>3. ClipTypeOK'
  BY <1>1, <1>2 DEF WholeInv, ClipTypeOK, IsClip
<1>4. ListedIsGone'
  BY <1>1, <1>2 DEF WholeInv, ListedIsGone, NoDeletion
<1>5. UsedIsKept'
  BY <1>1 DEF WholeInv, UsedIsKept, Making
<1>6. ClipsAreWhole'
  <2> SUFFICES ASSUME NEW c \in DOMAIN clips, clips[c].row \notin early, clips[c].evidence
               PROVE  clips[c].file \/ failed' \/ \E e \in Deleters : c \in deleting'[e].clips
    BY <1>1 DEF WholeInv, ClipsAreWhole
  <2>1. clips[c].row \in rows
        /\ (clips[c].file \/ failed \/ \E e \in Deleters : c \in deleting[e].clips)
    BY DEF WholeInv, ClipsAreWhole
  <2>2. c \in deleting[d].clips => failed'
    BY <1>1, <2>1 DEF WholeInv, ListedIsGone
  <2> QED BY <1>1, <1>2, <2>1, <2>2
<1> QED BY <1>3, <1>4, <1>5, <1>6 DEF WholeInv

LEMMA WholeStep == WholeInv /\ [RecordingNext]_recordingVars => WholeInv'
<1> SUFFICES ASSUME WholeInv, [RecordingNext]_recordingVars PROVE WholeInv'
  OBVIOUS
<1>0. WriterInv'
  BY WriterStep DEF WholeInv
<1>1. CASE Start
  BY <1>0, <1>1, StartWhole
<1>2. CASE Trigger
  BY <1>0, <1>2, TriggerWhole
<1>3. CASE \E c \in DOMAIN clips : Encode(c) \/ Insert(c) \/ ClipFails(c)
  BY <1>0, <1>3, MakingWhole
<1>4. CASE \E d \in Deleters :
             \/ DeleteRows(d) \/ DeleteFails(d)
             \/ \E r \in rows : DeleteFiles(d, r)
  BY <1>0, <1>4, FilesWhole, RowsWhole, FailsWhole
<1>5. CASE Stop
  BY <1>0, <1>5, WholeFrame, NoRecorderFacts DEF Stop
<1>6. CASE Push \/ Submit \/ Drain \/ EndDrain
  <2>1. recorder'.row = recorder.row
    <3>1. IsRecorder(recorder)
      BY DEF WholeInv, WriterInv
    <3> QED BY <1>6, <3>1 DEF Push, Submit, Drain, EndDrain, IsRecorder
  <2> QED BY <1>0, <1>6, <2>1, WholeFrame DEF Push, Submit, Drain, EndDrain
<1>7. CASE OtherStream \/ Cleanup \/ End \/ View \/ Encoded \/ Lost
  BY <1>0, <1>7, WholeFrame DEF OtherStream, Cleanup, End, View, Encoded, Lost
<1>8. CASE Render \/ Put \/ Evict \/ Reput \/ Drop \/ NoEvent
  BY <1>0, <1>8, WholeFrame DEF Render, Put, Evict, Reput, Drop, NoEvent
<1>9. CASE UNCHANGED recordingVars
  BY <1>0, <1>9, WholeFrame DEF recordingVars
<1> QED BY <1>1, <1>2, <1>3, <1>4, <1>5, <1>6, <1>7, <1>8, <1>9
        DEF RecordingNext, ProcessFrame

LEMMA WholeInit == RecordingInit => WholeInv
<1> SUFFICES ASSUME RecordingInit PROVE WholeInv
  OBVIOUS
<1>1. /\ clips = <<>> /\ rows = {} /\ early = {} /\ failed = FALSE
      /\ deleting = [d \in Deleters |-> NoDeletion] /\ recorder = NoRecorder
  BY DEF RecordingInit
<1>2. ClipTypeOK
  <2>1. NoDeletion \in [row : 0 .. MaxLives, clips : SUBSET Nat]
    BY RecordingAssumption DEF NoDeletion
  <2>2. clips \in Seq(ToSet(clips)) /\ DOMAIN clips = {}
    BY <1>1
  <2>3. deleting \in [Deleters -> [row : 0 .. MaxLives, clips : SUBSET Nat]]
    BY <1>1, <2>1
  <2> QED BY <1>1, <2>2, <2>3 DEF ClipTypeOK
<1>3. ListedIsGone
  BY <1>1 DEF ListedIsGone, NoDeletion
<1>4. UsedIsKept /\ ClipsAreWhole
  BY <1>1, NoRecorderFacts DEF UsedIsKept, ClipsAreWhole
<1> QED BY <1>2, <1>3, <1>4, WriterInit DEF WholeInv

(* Evidence keeps its file and its recording, and a finished clip is in the *)
(* database, whatever deletions by request and by quota run beside the      *)
(* executor that makes clips: as long as nobody deletes a recording while   *)
(* it is in use, and no commit fails after the files have gone              *)
(* (_process_event_clip() against delete_recording()).                      *)
THEOREM ClipsStayWhole == RecordingSpec => []ClipsAreWhole
<1>1. RecordingSpec => []WholeInv
  BY WholeInit, WholeStep, PTL DEF RecordingSpec
<1>2. WholeInv => ClipsAreWhole
  BY DEF WholeInv
<1> QED BY <1>1, <1>2, PTL

(* The fields nothing else is said about keep their types. *)
FlagsOK ==
  /\ seeded \in BOOLEAN /\ adaptive \in BOOLEAN /\ stream \in {"off", "running", "stopping"}
  /\ pc \in {"idle", "put", "evict", "reput", "drop", "push", "task", "event"}

LEMMA FlagsStep ==
  ASSUME FlagsOK, enabled \in BOOLEAN, [RecordingNext]_recordingVars PROVE FlagsOK'
<1> USE DEF FlagsOK, poolVars, streamVars, diskVars, recordingVars
<1>1. CASE OtherStream \/ Cleanup \/ Start \/ Stop \/ End
  BY <1>1 DEF OtherStream, Cleanup, Start, Stop, End
<1>2. CASE Render
  BY <1>2 DEF Render, Acquire
<1>3. CASE Put \/ Evict \/ Reput \/ Drop
  BY <1>3 DEF Put, Evict, Reput, Drop, Release
<1>4. CASE Push \/ Submit \/ Trigger \/ NoEvent
  BY <1>4 DEF Push, Submit, Trigger, NoEvent
<1>5. CASE View \/ Encoded \/ Lost \/ Drain \/ EndDrain
  BY <1>5 DEF View, Encoded, Lost, Drain, EndDrain, Release
<1>6. CASE \E c \in DOMAIN clips : Encode(c) \/ Insert(c) \/ ClipFails(c)
  BY <1>6 DEF Encode, Insert, ClipFails
<1>7. CASE \E d \in Deleters :
             \/ DeleteRows(d) \/ DeleteFails(d)
             \/ \E r \in rows : DeleteFiles(d, r)
  BY <1>7 DEF DeleteRows, DeleteFails, DeleteFiles
<1>8. CASE UNCHANGED recordingVars
  BY <1>8
<1> QED BY <1>1, <1>2, <1>3, <1>4, <1>5, <1>6, <1>7, <1>8 DEF RecordingNext, ProcessFrame

(* The fields of the pool, the stream, the recorder and the database keep   *)
(* their types in every run.                                                *)
THEOREM RecordingTypeCorrect == RecordingSpec => []RecordingTypeOK
<1>1. RecordingInit => FlagsOK
  BY DEF RecordingInit, FlagsOK
<1>2. IntactInv /\ FlagsOK /\ [RecordingNext]_recordingVars => FlagsOK'
  BY FlagsStep DEF IntactInv, PoolTypeOK
<1>3. RecordingSpec => [](IntactInv /\ WholeInv /\ FlagsOK)
  BY <1>1, <1>2, IntactInit, IntactStep, WholeInit, WholeStep, PTL DEF RecordingSpec
<1>4. IntactInv /\ WholeInv /\ FlagsOK => RecordingTypeOK
  <2> SUFFICES ASSUME IntactInv, WholeInv, FlagsOK PROVE RecordingTypeOK
    OBVIOUS
  <2>1. ToSet(free) \subseteq Buffers
    BY ElementsFacts DEF IntactInv, PoolTypeOK
  <2>2. /\ recorder.row \in 0 .. MaxLives /\ recorder.queued \in 0 .. QueueMax
        /\ recorder.writer \in {"off", "draining", "ending"} /\ lives \in 0 .. MaxLives
    BY DEF WholeInv, WriterInv, IsRecorder
  <2> QED BY <2>1, <2>2
          DEF IntactInv, PoolTypeOK, WholeInv, ClipTypeOK, FlagsOK, RecordingTypeOK
<1> QED BY <1>3, <1>4, PTL

-----------------------------------------------------------------------------
(* The books of the zones. *)

(* The tracks that are inside a zone, those that enter or leave it in this  *)
(* frame, and those that are deleted inside it.                             *)
Column(S, z) == {x \in S : x[2] = z}
StaysIn(z) == Column(DOMAIN stay, z)
EnteredIn(z) == Column(Entered, z)
ExitedIn(z) == Column(Exited, z)
DroppedIn(z) == {x \in DOMAIN stay : x[2] = z /\ x[1] \notin DOMAIN tracks'}

(* The zones know tracks that exist, of which there are finitely many.      *)
ZonesInv ==
  /\ scene \in Scenes
  /\ IsFiniteSet(DOMAIN tracks)
  /\ DOMAIN stay \subseteq (DOMAIN tracks) \X ZoneNames
  /\ books \in [ZoneNames -> [entered : Nat, exited : Nat, dropped : Nat]]

(* The members of a finite set of pairs that share their second component.  *)
LEMMA FiniteColumn ==
  ASSUME NEW T, NEW Z, NEW S, NEW z, IsFiniteSet(T), S \subseteq T \X Z
  PROVE  IsFiniteSet(Column(S, z))
<1>1. IsFiniteSet({z})
  BY FS_Singleton
<1>2. IsFiniteSet(T \X {z})
  BY <1>1, FS_Product
<1>3. Column(S, z) \in SUBSET (T \X {z})
  BY DEF Column
<1> QED BY <1>2, <1>3, FS_Subset

LEMMA StaysAreFinite == ZonesInv => \A z : IsFiniteSet(StaysIn(z))
<1> SUFFICES ASSUME ZonesInv, NEW z PROVE IsFiniteSet(StaysIn(z))
  OBVIOUS
<1>1. IsFiniteSet(DOMAIN tracks) /\ DOMAIN stay \subseteq (DOMAIN tracks) \X ZoneNames
  BY DEF ZonesInv
<1> QED BY <1>1, FiniteColumn DEF StaysIn

(* The property, of the sets above. *)
LEMMA Balance ==
  OccupancyIsExplained <=>
    \A z \in ZoneNames :
      books[z].entered - books[z].exited = Cardinality(StaysIn(z)) + books[z].dropped
  BY DEF OccupancyIsExplained, StaysIn, Column

(* A frame leaves finitely many tracks. *)
LEMMA TracksStayFinite ==
  ASSUME SceneAssumption, IsFiniteSet(DOMAIN tracks), NEW dets \in Detections, Update(dets)
  PROVE  IsFiniteSet(DOMAIN tracks')
<1> DEFINE pairs == Matching(dets)
           matched == {t \in DOMAIN tracks : \E p \in dets : <<t, p>> \in pairs}
           others == {p \in dets : \A t \in DOMAIN tracks : <<t, p>> \notin pairs}
           kept == {t \in (DOMAIN tracks) \ matched : tracks[t].lost < MaxAge}
           born == {NewId(others, p) : p \in others}
<1>1. DOMAIN tracks' = matched \cup kept \cup born
  BY DEF Update
<1>2. matched \in SUBSET DOMAIN tracks /\ kept \in SUBSET DOMAIN tracks
  OBVIOUS
<1>3. others \in SUBSET Points
  BY DEF Detections, kSubset
<1> HIDE DEF matched, kept, others
<1>4. IsFiniteSet(matched) /\ IsFiniteSet(kept)
  BY <1>2, FS_Subset
<1>5. IsFiniteSet(others)
  BY <1>3, FS_Subset DEF SceneAssumption
<1>6. IsFiniteSet(born)
  <2> DEFINE f == [p \in others |-> NewId(others, p)]
  <2>1. f \in Surjection(others, born)
    BY DEF Surjection
  <2> HIDE DEF f, born
  <2> QED BY <1>5, <2>1, FS_Surjection
<1> HIDE DEF born
<1>7. IsFiniteSet(matched \cup kept)
  BY <1>4, FS_Union
<1> QED BY <1>1, <1>6, <1>7, FS_Union

LEMMA EventType == \A type, t, of : Event(type, t, of).type = type
  BY DEF Event

(* Which events are of the zone detector. *)
LEMMA ZoneEvents ==
  ASSUME NEW e \in Events
  PROVE  /\ e.type = "object_entered" => e \in {Event("object_entered", x[1], x[2]) : x \in Entered}
         /\ e.type = "object_exited" => e \in {Event("object_exited", x[1], x[2]) : x \in Exited}
<1>1. \/ e \in Appearances
      \/ e \in {Event("stationary_object", t, "") : t \in Halted}
      \/ e \in {Event("near_collision", Min(q), Max(q)) : q \in Close}
      \/ e \in {Event("object_entered", x[1], x[2]) : x \in Entered}
      \/ e \in {Event("object_exited", x[1], x[2]) : x \in Exited}
      \/ e \in {Event("dwell_time", x[1], x[2]) : x \in Dwelt}
      \/ e \in {Event("crossing_direction", x[1], x[2]) : x \in Crossed}
  BY DEF Events
<1>2. CASE e \in Appearances
  <2>1. PICK t : e = Event("object_appeared", t, "") \/ e = Event("object_disappeared", t, "")
    BY <1>2 DEF Appearances
  <2>2. /\ Event("object_appeared", t, "").type = "object_appeared"
        /\ Event("object_disappeared", t, "").type = "object_disappeared"
    BY EventType
  <2>3. e.type = "object_appeared" \/ e.type = "object_disappeared"
    BY <2>1, <2>2
  <2> QED BY <2>3
<1>3. CASE e \in {Event("stationary_object", t, "") : t \in Halted}
  <2>1. e.type = "stationary_object"
    BY <1>3, EventType
  <2> QED BY <2>1
<1>4. CASE e \in {Event("near_collision", Min(q), Max(q)) : q \in Close}
  BY <1>4 DEF Event
<1>5. CASE e \in {Event("object_entered", x[1], x[2]) : x \in Entered}
  BY <1>5 DEF Event
<1>6. CASE e \in {Event("object_exited", x[1], x[2]) : x \in Exited}
  BY <1>6 DEF Event
<1>7. CASE e \in {Event("dwell_time", x[1], x[2]) : x \in Dwelt}
  BY <1>7 DEF Event
<1>8. CASE e \in {Event("crossing_direction", x[1], x[2]) : x \in Crossed}
  BY <1>8 DEF Event
<1> QED BY <1>1, <1>2, <1>3, <1>4, <1>5, <1>6, <1>7, <1>8

(* An event of the zone detector for each entry and each exit. *)
LEMMA EventsOfEntries ==
  ASSUME NEW z, IsFiniteSet(EnteredIn(z))
  PROVE  Cardinality({e \in Events : e.type = "object_entered" /\ e.of = z})
           = Cardinality(EnteredIn(z))
<1> DEFINE E == {e \in Events : e.type = "object_entered" /\ e.of = z}
           f == [x \in EnteredIn(z) |-> Event("object_entered", x[1], x[2])]
<1>1. \A x \in EnteredIn(z) : x = <<x[1], x[2]>> /\ x[2] = z /\ x \in Entered
  BY DEF EnteredIn, Entered, Column
<1>2. \A x \in EnteredIn(z) : f[x] \in E
  BY <1>1 DEF Events, Event
<1>3. \A e \in E : \E x \in EnteredIn(z) : f[x] = e
  <2> SUFFICES ASSUME NEW e \in E PROVE \E x \in EnteredIn(z) : f[x] = e
    OBVIOUS
  <2>1. e \in {Event("object_entered", x[1], x[2]) : x \in Entered}
    BY ZoneEvents
  <2>2. PICK x \in Entered : e = Event("object_entered", x[1], x[2])
    BY <2>1
  <2>3. x \in EnteredIn(z)
    BY <2>2 DEF EnteredIn, Event, Column
  <2> QED BY <2>2, <2>3
<1>4. \A x, y \in EnteredIn(z) : f[x] = f[y] => x = y
  BY <1>1 DEF Event
<1>5. f \in Bijection(EnteredIn(z), E)
  <2> HIDE DEF E
  <2>1. f \in [EnteredIn(z) -> E]
    BY <1>2
  <2> HIDE DEF f
  <2> QED BY <1>3, <1>4, <2>1 DEF Bijection, Injection, Surjection, IsInjective
<1> HIDE DEF E, f
<1>6. ExistsBijection(EnteredIn(z), E)
  BY <1>5 DEF ExistsBijection
<1> QED BY <1>6, FS_Bijection DEF E

LEMMA EventsOfExits ==
  ASSUME NEW z, IsFiniteSet(ExitedIn(z))
  PROVE  Cardinality({e \in Events : e.type = "object_exited" /\ e.of = z})
           = Cardinality(ExitedIn(z))
<1> DEFINE E == {e \in Events : e.type = "object_exited" /\ e.of = z}
           f == [x \in ExitedIn(z) |-> Event("object_exited", x[1], x[2])]
<1>1. \A x \in ExitedIn(z) : x = <<x[1], x[2]>> /\ x[2] = z /\ x \in Exited
  BY DEF ExitedIn, Exited, Column
<1>2. \A x \in ExitedIn(z) : f[x] \in E
  BY <1>1 DEF Events, Event
<1>3. \A e \in E : \E x \in ExitedIn(z) : f[x] = e
  <2> SUFFICES ASSUME NEW e \in E PROVE \E x \in ExitedIn(z) : f[x] = e
    OBVIOUS
  <2>1. e \in {Event("object_exited", x[1], x[2]) : x \in Exited}
    BY ZoneEvents
  <2>2. PICK x \in Exited : e = Event("object_exited", x[1], x[2])
    BY <2>1
  <2>3. x \in ExitedIn(z)
    BY <2>2 DEF ExitedIn, Event, Column
  <2> QED BY <2>2, <2>3
<1>4. \A x, y \in ExitedIn(z) : f[x] = f[y] => x = y
  BY <1>1 DEF Event
<1>5. f \in Bijection(ExitedIn(z), E)
  <2> HIDE DEF E
  <2>1. f \in [ExitedIn(z) -> E]
    BY <1>2
  <2> HIDE DEF f
  <2> QED BY <1>3, <1>4, <2>1 DEF Bijection, Injection, Surjection, IsInjective
<1> HIDE DEF E, f
<1>6. ExistsBijection(ExitedIn(z), E)
  BY <1>5 DEF ExistsBijection
<1> QED BY <1>6, FS_Bijection DEF E

(* Of the members of D some leave and some are dropped, and others come.    *)
LEMMA CountChange ==
  ASSUME NEW D, NEW E, NEW X, NEW P, IsFiniteSet(D), IsFiniteSet(E),
         E \cap D = {}, X \subseteq D, P \subseteq D, X \cap P = {}
  PROVE  Cardinality(((D \ X) \ P) \cup E) + Cardinality(X) + Cardinality(P)
           = Cardinality(D) + Cardinality(E)
<1>1. IsFiniteSet(D \ X) /\ Cardinality(D \ X) = Cardinality(D) - Cardinality(D \cap X)
  BY FS_Difference
<1>2. /\ IsFiniteSet((D \ X) \ P)
      /\ Cardinality((D \ X) \ P) = Cardinality(D \ X) - Cardinality((D \ X) \cap P)
  BY <1>1, FS_Difference
<1>3. D \cap X = X /\ (D \ X) \cap P = P /\ ((D \ X) \ P) \cap E = {}
  OBVIOUS
<1>4. Cardinality(((D \ X) \ P) \cup E)
        = Cardinality((D \ X) \ P) + Cardinality(E) - Cardinality(((D \ X) \ P) \cap E)
  BY <1>2, FS_Union
<1>5. /\ Cardinality(D) \in Nat /\ Cardinality(E) \in Nat /\ Cardinality({}) = 0
      /\ Cardinality(X) \in Nat /\ Cardinality(P) \in Nat
  <2>1. IsFiniteSet(X) /\ IsFiniteSet(P)
    BY FS_Subset
  <2>2. Cardinality(D) \in Nat /\ Cardinality(E) \in Nat
    BY FS_CardinalityType
  <2>3. Cardinality(X) \in Nat /\ Cardinality(P) \in Nat
    BY <2>1, FS_CardinalityType
  <2> QED BY <2>2, <2>3, FS_EmptySet
<1>6. Cardinality(D \ X) = Cardinality(D) - Cardinality(X)
  BY <1>1, <1>3
<1>7. Cardinality((D \ X) \ P) = Cardinality(D \ X) - Cardinality(P)
  BY <1>2, <1>3
<1>8. Cardinality(((D \ X) \ P) \cup E) = Cardinality((D \ X) \ P) + Cardinality(E) - 0
  BY <1>3, <1>4, <1>5
<1> QED BY <1>5, <1>6, <1>7, <1>8

(* Entries are new, exits and deletions are of stays, and no stay has both. *)
LEMMA FrameOfZone ==
  ASSUME ZonesInv, SceneAssumption, NEW dets \in Detections, Update(dets), Process, NEW z
  PROVE  /\ IsFiniteSet(StaysIn(z)) /\ IsFiniteSet(EnteredIn(z)) /\ IsFiniteSet(ExitedIn(z))
         /\ EnteredIn(z) \cap StaysIn(z) = {}
         /\ ExitedIn(z) \subseteq StaysIn(z) /\ DroppedIn(z) \subseteq StaysIn(z)
         /\ ExitedIn(z) \cap DroppedIn(z) = {}
         /\ StaysIn(z)' = ((StaysIn(z) \ ExitedIn(z)) \ DroppedIn(z)) \cup EnteredIn(z)
         /\ DOMAIN stay' \subseteq (DOMAIN tracks') \X ZoneNames
<1>1. IsFiniteSet(DOMAIN tracks')
  BY TracksStayFinite DEF ZonesInv
<1>2. DOMAIN stay \subseteq (DOMAIN tracks) \X ZoneNames
  BY DEF ZonesInv
<1>3. Entered \subseteq (DOMAIN tracks') \X ZoneNames
  BY DEF ZonesInv, Entered, Active, ZonesAt, ZoneNames
<1>4. Exited \subseteq DOMAIN stay /\ \A x \in Exited : x[1] \in DOMAIN tracks'
  <2> SUFFICES ASSUME NEW x \in Exited PROVE x \in DOMAIN stay /\ x[1] \in DOMAIN tracks'
    OBVIOUS
  <2>1. PICK t \in Active : \E w \in WasIn(t) : x = <<t, w>>
    BY DEF Exited
  <2>2. PICK y \in DOMAIN stay : y[1] = t /\ x = <<t, y[2]>>
    BY <2>1 DEF WasIn
  <2>3. y = x
    BY <1>2, <2>2
  <2> QED BY <2>1, <2>2, <2>3 DEF Active
<1>5. Entered \cap DOMAIN stay = {}
  BY DEF Entered, WasIn
<1>6. DOMAIN stay' = {y \in (DOMAIN stay \cup Entered) \ Exited : y[1] \in DOMAIN tracks'}
  BY DEF Process, Live
<1>7. DOMAIN stay' \subseteq (DOMAIN tracks') \X ZoneNames
  BY <1>2, <1>3, <1>6
<1>8. IsFiniteSet(StaysIn(z))
  BY StaysAreFinite
<1>9. IsFiniteSet(EnteredIn(z))
  BY <1>1, <1>3, FiniteColumn DEF EnteredIn
<1>10. ExitedIn(z) \subseteq StaysIn(z) /\ DroppedIn(z) \subseteq StaysIn(z)
  BY <1>4 DEF ExitedIn, DroppedIn, StaysIn, Column
<1>11. IsFiniteSet(ExitedIn(z))
  BY <1>8, <1>10, FS_Subset
<1>12. EnteredIn(z) \cap StaysIn(z) = {} /\ ExitedIn(z) \cap DroppedIn(z) = {}
  BY <1>4, <1>5 DEF EnteredIn, ExitedIn, DroppedIn, StaysIn, Column
<1>13. StaysIn(z)' = ((StaysIn(z) \ ExitedIn(z)) \ DroppedIn(z)) \cup EnteredIn(z)
  BY <1>3, <1>4, <1>5, <1>6 DEF EnteredIn, ExitedIn, DroppedIn, StaysIn, Column
<1> QED BY <1>7, <1>8, <1>9, <1>10, <1>11, <1>12, <1>13

(* A frame keeps the balance of every zone. *)
LEMMA BooksOfFrame ==
  ASSUME ZonesInv, OccupancyIsExplained, NEW dets \in Detections, Frame(dets)
  PROVE  ZonesInv' /\ OccupancyIsExplained'
<1>0. Update(dets) /\ Process /\ Book
  BY DEF Frame
<1>1. ASSUME NEW z \in ZoneNames
      PROVE  LET en == Cardinality(EnteredIn(z))
                 ex == Cardinality(ExitedIn(z))
                 dr == Cardinality(DroppedIn(z))
             IN /\ en \in Nat /\ ex \in Nat /\ dr \in Nat /\ Cardinality(StaysIn(z)) \in Nat
                /\ books'[z] = [entered |-> books[z].entered + en,
                                exited |-> books[z].exited + ex,
                                dropped |-> books[z].dropped + dr]
                /\ Cardinality(StaysIn(z)') + ex + dr = Cardinality(StaysIn(z)) + en
  <2>1. /\ IsFiniteSet(StaysIn(z)) /\ IsFiniteSet(EnteredIn(z)) /\ IsFiniteSet(ExitedIn(z))
        /\ EnteredIn(z) \cap StaysIn(z) = {}
        /\ ExitedIn(z) \subseteq StaysIn(z) /\ DroppedIn(z) \subseteq StaysIn(z)
        /\ ExitedIn(z) \cap DroppedIn(z) = {}
        /\ StaysIn(z)' = ((StaysIn(z) \ ExitedIn(z)) \ DroppedIn(z)) \cup EnteredIn(z)
    BY <1>0, FrameOfZone, SceneAssumption
  <2>2. IsFiniteSet(DroppedIn(z))
    BY <2>1, FS_Subset
  <2>3. Cardinality(StaysIn(z)') + Cardinality(ExitedIn(z)) + Cardinality(DroppedIn(z))
          = Cardinality(StaysIn(z)) + Cardinality(EnteredIn(z))
    BY <2>1, CountChange
  <2>4. books'[z] = [entered |-> books[z].entered + Cardinality(EnteredIn(z)),
                     exited |-> books[z].exited + Cardinality(ExitedIn(z)),
                     dropped |-> books[z].dropped + Cardinality(DroppedIn(z))]
    BY <1>0, <2>1, EventsOfEntries, EventsOfExits DEF Book, DroppedIn
  <2> QED BY <2>1, <2>2, <2>3, <2>4, FS_CardinalityType
<1>2. ZonesInv'
  <2>1. scene' = scene
    BY <1>0 DEF Process
  <2>2. IsFiniteSet(DOMAIN tracks')
    BY <1>0, TracksStayFinite, SceneAssumption DEF ZonesInv
  <2>3. DOMAIN stay' \subseteq (DOMAIN tracks') \X ZoneNames
    BY <1>0, FrameOfZone, SceneAssumption
  <2>4. books' \in [ZoneNames -> [entered : Nat, exited : Nat, dropped : Nat]]
    <3>1. DOMAIN books' = ZoneNames /\ books' = [z \in ZoneNames |-> books'[z]]
      BY <1>0 DEF Book
    <3>2. ASSUME NEW z \in ZoneNames
          PROVE  books'[z] \in [entered : Nat, exited : Nat, dropped : Nat]
      <4>1. books[z] \in [entered : Nat, exited : Nat, dropped : Nat]
        BY DEF ZonesInv
      <4>2. PICK en \in Nat, ex \in Nat, dr \in Nat :
              books'[z] = [entered |-> books[z].entered + en,
                           exited |-> books[z].exited + ex,
                           dropped |-> books[z].dropped + dr]
        BY <1>1
      <4> QED BY <4>1, <4>2
    <3> QED BY <3>1, <3>2
  <2> QED BY <2>1, <2>2, <2>3, <2>4 DEF ZonesInv
<1>2a. (\A z : IsFiniteSet(StaysIn(z)))'
  BY <1>2, StaysAreFinite, PTL
<1>3. ASSUME NEW z \in ZoneNames
      PROVE  (books[z].entered - books[z].exited = Cardinality(StaysIn(z)) + books[z].dropped)'
  <2>1. books[z] \in [entered : Nat, exited : Nat, dropped : Nat]
    BY DEF ZonesInv
  <2>2. books[z].entered - books[z].exited = Cardinality(StaysIn(z)) + books[z].dropped
    BY Balance
  <2>3. Cardinality(StaysIn(z)') \in Nat
    <3>1. IsFiniteSet(StaysIn(z)')
      BY <1>2a
    <3> QED BY <3>1, FS_CardinalityType
  <2>4. /\ books'[z].entered = books[z].entered + Cardinality(EnteredIn(z))
        /\ books'[z].exited = books[z].exited + Cardinality(ExitedIn(z))
        /\ books'[z].dropped = books[z].dropped + Cardinality(DroppedIn(z))
    <3>1. books'[z] = [entered |-> books[z].entered + Cardinality(EnteredIn(z)),
                       exited |-> books[z].exited + Cardinality(ExitedIn(z)),
                       dropped |-> books[z].dropped + Cardinality(DroppedIn(z))]
      BY <1>1
    <3> QED BY <3>1
  <2>5. /\ Cardinality(EnteredIn(z)) \in Nat /\ Cardinality(ExitedIn(z)) \in Nat
        /\ Cardinality(DroppedIn(z)) \in Nat /\ Cardinality(StaysIn(z)) \in Nat
        /\ Cardinality(StaysIn(z)') + Cardinality(ExitedIn(z)) + Cardinality(DroppedIn(z))
             = Cardinality(StaysIn(z)) + Cardinality(EnteredIn(z))
    BY <1>1
  <2> QED BY <2>1, <2>2, <2>3, <2>4, <2>5
<1>4. (\A z \in ZoneNames :
         books[z].entered - books[z].exited = Cardinality(StaysIn(z)) + books[z].dropped)'
  BY <1>3 DEF ZoneNames
<1> QED BY <1>2, <1>4, Balance, PTL

(* So does a change of the geometry, which drops every stay. *)
LEMMA BooksOfSwap ==
  ASSUME ZonesInv, OccupancyIsExplained, NEW s \in Scenes, UpdateRegions(s)
  PROVE  ZonesInv' /\ OccupancyIsExplained'
<1>1. /\ scene' = s /\ stay' = Empty /\ tracks' = tracks
      /\ books' = [z \in ZoneNames |->
                     [books[z] EXCEPT !.dropped = @ + Cardinality(StaysIn(z))]]
  BY DEF UpdateRegions, Reconfigure, Swap, StaysIn, Column, trackerVars
<1>2. ASSUME NEW z \in ZoneNames
      PROVE  /\ books[z] \in [entered : Nat, exited : Nat, dropped : Nat]
             /\ Cardinality(StaysIn(z)) \in Nat
             /\ books'[z] = [books[z] EXCEPT !.dropped = @ + Cardinality(StaysIn(z))]
             /\ books[z].entered - books[z].exited = Cardinality(StaysIn(z)) + books[z].dropped
  <2>1. IsFiniteSet(StaysIn(z))
    BY StaysAreFinite
  <2> QED BY <1>1, <2>1, FS_CardinalityType, Balance DEF ZonesInv
<1>3. DOMAIN stay' = {}
  BY <1>1 DEF Empty
<1>4. ZonesInv'
  <2>1. books' \in [ZoneNames -> [entered : Nat, exited : Nat, dropped : Nat]]
    BY <1>1, <1>2
  <2> QED BY <1>1, <1>3, <2>1 DEF ZonesInv
<1>5. ASSUME NEW z \in ZoneNames
      PROVE  (books[z].entered - books[z].exited = Cardinality(StaysIn(z)) + books[z].dropped)'
  <2>1. Cardinality(StaysIn(z)') = 0
    <3>1. StaysIn(z)' = {}
      BY <1>3 DEF StaysIn, Column
    <3> QED BY <3>1, FS_EmptySet
  <2>2. books'[z].dropped = books[z].dropped + Cardinality(StaysIn(z))
    BY <1>2
  <2>3. books'[z].entered = books[z].entered /\ books'[z].exited = books[z].exited
    BY <1>2
  <2>4. /\ books[z].entered \in Nat /\ books[z].exited \in Nat /\ books[z].dropped \in Nat
        /\ Cardinality(StaysIn(z)) \in Nat
        /\ books[z].entered - books[z].exited = Cardinality(StaysIn(z)) + books[z].dropped
    BY <1>2
  <2> QED BY <2>1, <2>2, <2>3, <2>4
<1>6. (\A z \in ZoneNames :
         books[z].entered - books[z].exited = Cardinality(StaysIn(z)) + books[z].dropped)'
  BY <1>5 DEF ZoneNames
<1> QED BY <1>4, <1>6, Balance, PTL

(* Entries less exits is what is inside, plus the stays that ended without  *)
(* an exit, for every geometry, every number of objects and every loss of a *)
(* track.                                                                   *)
THEOREM ZonesBalance == Spec => []OccupancyIsExplained
<1>1. Init => ZonesInv /\ OccupancyIsExplained
  <2> SUFFICES ASSUME Init PROVE ZonesInv /\ OccupancyIsExplained
    OBVIOUS
  <2>1. DOMAIN tracks = {} /\ DOMAIN stay = {} /\ scene \in Scenes
    BY DEF Init, Empty
  <2>2. /\ books \in [ZoneNames -> [entered : Nat, exited : Nat, dropped : Nat]]
        /\ \A z \in ZoneNames : books[z] = [entered |-> 0, exited |-> 0, dropped |-> 0]
    BY DEF Init
  <2>3. IsFiniteSet({}) /\ Cardinality({}) = 0
    BY FS_EmptySet
  <2>4. \A z \in ZoneNames : StaysIn(z) = {}
    BY <2>1 DEF StaysIn, Column
  <2>5. ZonesInv
    BY <2>1, <2>2, <2>3 DEF ZonesInv
  <2>6. OccupancyIsExplained
    <3>1. ASSUME NEW z \in ZoneNames
          PROVE  books[z].entered - books[z].exited = Cardinality(StaysIn(z)) + books[z].dropped
      <4>1. Cardinality(StaysIn(z)) = 0
        BY <2>3, <2>4
      <4> QED BY <2>2, <4>1
    <3> QED BY <3>1, Balance
  <2> QED BY <2>5, <2>6
<1>2. ZonesInv /\ OccupancyIsExplained /\ [Next]_vars => ZonesInv' /\ OccupancyIsExplained'
  <2> SUFFICES ASSUME ZonesInv, OccupancyIsExplained, [Next]_vars
               PROVE  ZonesInv' /\ OccupancyIsExplained'
    OBVIOUS
  <2>1. ASSUME NEW dets \in Detections, Frame(dets)
        PROVE  ZonesInv' /\ OccupancyIsExplained'
    BY <2>1, BooksOfFrame
  <2>2. ASSUME NEW s \in Scenes, UpdateRegions(s)
        PROVE  ZonesInv' /\ OccupancyIsExplained'
    BY <2>2, BooksOfSwap
  <2>3. CASE UNCHANGED vars
    BY <2>3 DEF vars, trackerVars, engineVars, ZonesInv, OccupancyIsExplained
  <2> QED BY <2>1, <2>2, <2>3 DEF Next
<1> QED BY <1>1, <1>2, PTL DEF Spec

-----------------------------------------------------------------------------
(* Crossings and sides. *)

(* The side of a line on which the line detector last saw a track.          *)
SideSeen(t, l) == Sign(Side(scene.lines[l][1], scene.lines[l][2], prev[t]))

TracksAreRecords ==
  \A t \in DOMAIN tracks :
    tracks[t] \in [at : Points, lost : {tracks[t].lost}, seen : {tracks[t].seen},
                   points : {tracks[t].points}]

PathInv ==
  /\ scene \in Scenes
  /\ TracksAreRecords
  /\ \A t \in DOMAIN prev : prev[t] \in Points
  /\ \A x \in DOMAIN path :
       /\ x[1] \in DOMAIN prev /\ x[2] \in DOMAIN scene.lines /\ x = <<x[1], x[2]>>
       /\ path[x] \in [first : Int, last : Int, signs : Int, touched : BOOLEAN]
       /\ path[x].last = SideSeen(x[1], x[2])
       /\ ~path[x].touched =>
            path[x].last # 0 /\ path[x].last - path[x].first = 2 * path[x].signs

(* A frame leaves every track a record with a centre among the points.      *)
LEMMA UpdateKeepsRecords ==
  ASSUME TracksAreRecords, NEW dets \in Detections, Update(dets)
  PROVE  TracksAreRecords'
<1> DEFINE pairs == Matching(dets)
           matched == {t \in DOMAIN tracks : \E p \in dets : <<t, p>> \in pairs}
           others == {p \in dets : \A t \in DOMAIN tracks : <<t, p>> \notin pairs}
           kept == {t \in (DOMAIN tracks) \ matched : tracks[t].lost < MaxAge}
           born == {NewId(others, p) : p \in others}
<1> SUFFICES ASSUME NEW t \in DOMAIN tracks'
             PROVE  tracks'[t] \in [at : Points, lost : {tracks'[t].lost},
                                    seen : {tracks'[t].seen}, points : {tracks'[t].points}]
  BY DEF TracksAreRecords
<1>1. dets \subseteq Points
  BY DEF Detections, kSubset
<1>2. /\ t \in matched \/ t \in kept \/ t \in born
      /\ tracks'[t] = IF t \in matched THEN Seen(t, CHOOSE p \in dets : <<t, p>> \in pairs)
                      ELSE IF t \in kept THEN [tracks[t] EXCEPT !.lost = @ + 1]
                      ELSE Born(CHOOSE p \in others : NewId(others, p) = t)
  BY DEF Update
<1>3. CASE t \in matched
  <2>1. PICK p \in Points : tracks'[t] = Seen(t, p)
    <3>1. (CHOOSE p \in dets : <<t, p>> \in pairs) \in dets
      BY <1>3
    <3> QED BY <1>1, <1>2, <1>3, <3>1
  <2> QED BY <2>1 DEF Seen
<1>4. CASE t \notin matched /\ t \in kept
  <2>1. tracks'[t] = [tracks[t] EXCEPT !.lost = @ + 1]
    BY <1>2, <1>4
  <2>2. tracks[t] \in [at : Points, lost : {tracks[t].lost}, seen : {tracks[t].seen},
                       points : {tracks[t].points}]
    BY <1>4 DEF TracksAreRecords
  <2> QED BY <2>1, <2>2
<1>5. CASE t \notin matched /\ t \notin kept
  <2>1. PICK p \in Points : tracks'[t] = Born(p)
    <3>1. \E p \in others : NewId(others, p) = t
      BY <1>2, <1>5
    <3>2. (CHOOSE p \in others : NewId(others, p) = t) \in others
      BY <3>1
    <3> QED BY <1>1, <1>2, <1>5, <3>2
  <2> QED BY <2>1 DEF Born
<1> QED BY <1>3, <1>4, <1>5

LEMMA SideIsInt ==
  ASSUME NEW s \in Scenes, NEW l \in DOMAIN s.lines, NEW p \in Points
  PROVE  Side(s.lines[l][1], s.lines[l][2], p) \in Int
<1>1. s.lines[l] \in (Int \X Int) \X (Int \X Int) /\ p \in Int \X Int
  BY SceneAssumption DEF SceneAssumption
<1> QED BY <1>1 DEF Side

(* A product is negative if its factors have different signs.               *)
LEMMA SignOfProduct ==
  ASSUME NEW m \in Int, NEW n \in Int, m # 0, n # 0
  PROVE  m * n < 0 <=> Sign(m) # Sign(n)
<1>1. CASE m > 0 /\ n > 0
  <2>1. m * n > 0
    BY <1>1
  <2> QED BY <1>1, <2>1 DEF Sign
<1>2. CASE m > 0 /\ n < 0
  <2>1. m * n < 0
    BY <1>2
  <2> QED BY <1>2, <2>1 DEF Sign
<1>3. CASE m < 0 /\ n > 0
  <2>1. m * n < 0
    BY <1>3
  <2> QED BY <1>3, <2>1 DEF Sign
<1>4. CASE m < 0 /\ n < 0
  <2>1. m * n > 0
    BY <1>4
  <2> QED BY <1>4, <2>1 DEF Sign
<1> QED BY <1>1, <1>2, <1>3, <1>4

(* Between two points beside the line, a crossing is half the change of the *)
(* side, and none if the side is the same.                                  *)
LEMMA CrossingIsChange ==
  ASSUME LinesAreLong, NEW s \in Scenes, NEW l \in DOMAIN s.lines,
         NEW p \in Points, NEW q \in Points,
         Sign(Side(s.lines[l][1], s.lines[l][2], p)) # 0,
         Sign(Side(s.lines[l][1], s.lines[l][2], q)) # 0
  PROVE  /\ CrossingSign(p, q, s.lines[l]) \in Int
         /\ Sign(Side(s.lines[l][1], s.lines[l][2], q))
              - Sign(Side(s.lines[l][1], s.lines[l][2], p))
            = 2 * CrossingSign(p, q, s.lines[l])
<1> DEFINE m == Side(s.lines[l][1], s.lines[l][2], p)
           n == Side(s.lines[l][1], s.lines[l][2], q)
<1>1. m \in Int /\ n \in Int
  BY SideIsInt
<1>2. m * n < 0 => Intersect(p, q, s.lines[l][1], s.lines[l][2])
  BY DEF LinesAreLong
<1>3. CrossingSign(p, q, s.lines[l])
        = IF m * n >= 0 \/ ~Intersect(p, q, s.lines[l][1], s.lines[l][2])
          THEN 0 ELSE IF n > 0 THEN 1 ELSE -1
  BY DEF CrossingSign
<1>4. Sign(m) # 0 /\ Sign(n) # 0
  OBVIOUS
<1> DEFINE k == m * n
           c == CrossingSign(p, q, s.lines[l])
<1> HIDE DEF m, n
<1>5. m # 0 /\ n # 0
  BY <1>4 DEF Sign
<1>6. k < 0 <=> Sign(m) # Sign(n)
  BY <1>1, <1>5, SignOfProduct
<1>7. k \in Int
  BY <1>1
<1>8. k < 0 => c = IF n > 0 THEN 1 ELSE -1
  <2> SUFFICES ASSUME k < 0 PROVE c = IF n > 0 THEN 1 ELSE -1
    OBVIOUS
  <2>1. Intersect(p, q, s.lines[l][1], s.lines[l][2])
    BY <1>2
  <2>2. ~(k >= 0)
    BY <1>7
  <2> QED BY <1>3, <2>1, <2>2
<1>9. k >= 0 => c = 0
  BY <1>3
<1> HIDE DEF k, c
<1>10. c \in Int /\ Sign(n) - Sign(m) = 2 * c
  <2>1. CASE k < 0
    BY <1>1, <1>5, <1>6, <1>8, <2>1 DEF Sign
  <2>2. CASE k >= 0
    BY <1>1, <1>5, <1>6, <1>7, <1>9, <2>2 DEF Sign
  <2> QED BY <1>7, <2>1, <2>2
<1> QED BY <1>10 DEF m, n, c

LEMMA PathOfFrame ==
  ASSUME LinesAreLong, PathInv, NEW dets \in Detections, Frame(dets)
  PROVE  PathInv'
<1>0. Update(dets) /\ Process /\ Trace
  BY DEF Frame
<1>1. scene \in Scenes /\ scene' = scene
  BY <1>0 DEF PathInv, Process
<1>2. TracksAreRecords'
  BY <1>0, UpdateKeepsRecords DEF PathInv
<1>3. \A t \in DOMAIN tracks' : At(t) \in Points
  BY <1>2 DEF TracksAreRecords, At
<1>4. \A t \in DOMAIN prev' : prev'[t] = (IF t \in Active THEN At(t) ELSE prev[t])
                             /\ (t \in Active \/ t \in DOMAIN prev) /\ t \in DOMAIN tracks'
  BY <1>0 DEF Process, Live, Empty
<1>5. \A t \in DOMAIN prev' : prev'[t] \in Points
  BY <1>3, <1>4 DEF PathInv
<1>6. ASSUME NEW x \in DOMAIN path'
      PROVE  /\ x[1] \in DOMAIN prev' /\ x[2] \in DOMAIN scene'.lines /\ x = <<x[1], x[2]>>
             /\ path'[x] \in [first : Int, last : Int, signs : Int, touched : BOOLEAN]
             /\ path'[x].last = SideSeen(x[1], x[2])'
             /\ ~path'[x].touched =>
                  path'[x].last # 0 /\ path'[x].last - path'[x].first = 2 * path'[x].signs
  <2> DEFINE t == x[1]
             l == x[2]
  <2>1. /\ t \in DOMAIN tracks' /\ l \in DOMAIN scene.lines /\ x = <<t, l>>
        /\ t \in Active \/ x \in DOMAIN path
    <3>1. x \in {y \in (DOMAIN tracks') \X (DOMAIN scene.lines) :
                   y[1] \in Active \/ y \in DOMAIN path}
      BY <1>0 DEF Trace
    <3> QED BY <3>1
  <2>2. path'[x] =
          IF t \notin Active THEN path[x]
          ELSE IF x \notin DOMAIN path
          THEN [first |-> SideOf(t, l), last |-> SideOf(t, l), signs |-> 0,
                touched |-> SideOf(t, l) = 0]
          ELSE [first |-> path[x].first, last |-> SideOf(t, l),
                signs |-> IF x \in Crossed
                          THEN path[x].signs + CrossingSign(prev[t], At(t), scene.lines[l])
                          ELSE path[x].signs,
                touched |-> path[x].touched \/ SideOf(t, l) = 0]
    BY <1>0 DEF Trace
  <2>3. x \in DOMAIN path =>
          /\ t \in DOMAIN prev /\ prev[t] \in Points
          /\ path[x] \in [first : Int, last : Int, signs : Int, touched : BOOLEAN]
          /\ path[x].last = SideSeen(t, l)
          /\ ~path[x].touched =>
               path[x].last # 0 /\ path[x].last - path[x].first = 2 * path[x].signs
    BY DEF PathInv
  <2>4. t \in DOMAIN prev'
    BY <1>0, <2>1, <2>3 DEF Process, Live
  <2>5. prev'[t] = IF t \in Active THEN At(t) ELSE prev[t]
    BY <1>4, <2>4
  <2>6. SideSeen(t, l)' = IF t \in Active THEN SideOf(t, l) ELSE SideSeen(t, l)
    BY <1>1, <2>5 DEF SideSeen, SideOf
  <2>7. CASE t \notin Active
    BY <1>1, <2>1, <2>2, <2>3, <2>4, <2>6, <2>7
  <2>8. SideOf(t, l) \in Int
    BY <1>1, <1>3, <2>1, SideIsInt DEF SideOf, Sign
  <2>9. CASE t \in Active /\ x \notin DOMAIN path
    <3> DEFINE d == SideOf(t, l)
    <3>1. PICK h \in BOOLEAN : h = (d = 0)
      OBVIOUS
    <3>2. path'[x] = [first |-> d, last |-> d, signs |-> 0, touched |-> h]
      BY <2>2, <2>9, <3>1
    <3>3. d \in Int /\ SideSeen(t, l)' = d
      BY <2>6, <2>8, <2>9
    <3> HIDE DEF d, t, l
    <3>4. /\ path'[x] \in [first : Int, last : Int, signs : Int, touched : BOOLEAN]
          /\ path'[x].last = d
          /\ ~path'[x].touched =>
               path'[x].last # 0 /\ path'[x].last - path'[x].first = 2 * path'[x].signs
      <4>1. /\ path'[x].first = d /\ path'[x].last = d /\ path'[x].signs = 0
            /\ path'[x].touched = h
        BY <3>2
      <4>2. h = (d = 0)
        BY <3>1 DEF d
      <4>3. path'[x] \in [first : Int, last : Int, signs : Int, touched : BOOLEAN]
        BY <3>2, <3>3
      <4>5. ~h => d # 0
        BY <4>2, Zenon
      <4>4. ~h => d # 0 /\ d - d = 2 * 0
        BY <3>3, <4>5
      <4> QED BY <4>1, <4>3, <4>4
    <3> QED BY <1>1, <2>1, <2>4, <3>3, <3>4 DEF t, l
  <2>10. CASE t \in Active /\ x \in DOMAIN path
    <3> DEFINE c == CrossingSign(prev[t], At(t), scene.lines[l])
    <3>1. x \in Crossed <=> c # 0
      BY <2>1, <2>3, <2>10 DEF Crossed
    <3>2. At(t) \in Points
      BY <1>3, <2>1
    <3>3. c \in Int
      BY DEF CrossingSign
    <3>4. SideSeen(t, l) # 0 /\ SideOf(t, l) # 0 => SideOf(t, l) - SideSeen(t, l) = 2 * c
      BY <1>1, <2>1, <2>3, <2>10, <3>2, CrossingIsChange DEF SideSeen, SideOf
    <3> HIDE DEF c, t, l
    <3>5. PICK f \in Int, a \in Int, g \in Int, h \in BOOLEAN :
            path[x] = [first |-> f, last |-> a, signs |-> g, touched |-> h]
      BY <2>3, <2>10
    <3> DEFINE d == SideOf(t, l)
               k == IF x \in Crossed THEN g + c ELSE g
    <3>6. PICK j \in BOOLEAN : j = (h \/ d = 0)
      OBVIOUS
    <3>7. path[x].first = f /\ path[x].signs = g /\ path[x].touched = h
      BY <3>5
    <3>13. path'[x] = [first |-> f, last |-> d, signs |-> k, touched |-> j]
      BY <2>2, <2>10, <3>6, <3>7 DEF c
    <3>8. k \in Int /\ k = g + c
      BY <3>1, <3>3
    <3>9. a = SideSeen(t, l) /\ (~h => a # 0 /\ a - f = 2 * g)
      BY <2>3, <2>10, <3>5
    <3>11. d \in Int /\ SideSeen(t, l)' = d
      BY <2>6, <2>8, <2>10
    <3>12. a # 0 /\ d # 0 => d - a = 2 * c
      BY <3>4, <3>9
    <3> HIDE DEF d, k
    <3>8a. path'[x] \in [first : Int, last : Int, signs : Int, touched : BOOLEAN]
      BY <3>8, <3>11, <3>13
    <3>9a. ~path'[x].touched =>
            path'[x].last # 0 /\ path'[x].last - path'[x].first = 2 * path'[x].signs
      <4>1. ~j => d # 0 /\ a # 0 /\ a - f = 2 * g
        BY <3>6, <3>9
      <4>2. ~j => d # 0 /\ d - f = 2 * k
        BY <3>3, <3>8, <3>11, <3>12, <4>1
      <4> QED BY <3>13, <4>2
    <3>10. path'[x].last = SideSeen(t, l)'
      BY <3>11, <3>13
    <3> QED BY <1>1, <2>1, <2>4, <3>8a, <3>9a, <3>10 DEF t, l
  <2> QED BY <2>1, <2>7, <2>9, <2>10
<1> QED BY <1>1, <1>2, <1>5, <1>6 DEF PathInv

(* Each change of side is one crossing of that sign, for every geometry of  *)
(* long lines, every number of objects and every loss of a track.           *)
THEOREM CrossingsAddUp == LinesAreLong => (Spec => []CrossingsAreSides)
<1> SUFFICES ASSUME LinesAreLong PROVE Spec => []CrossingsAreSides
  OBVIOUS
<1>1. Init => PathInv
  BY DEF Init, Empty, PathInv, TracksAreRecords
<1>2. PathInv /\ [Next]_vars => PathInv'
  <2> SUFFICES ASSUME PathInv, [Next]_vars PROVE PathInv'
    OBVIOUS
  <2>1. ASSUME NEW dets \in Detections, Frame(dets) PROVE PathInv'
    BY <2>1, PathOfFrame
  <2>2. ASSUME NEW s \in Scenes, UpdateRegions(s) PROVE PathInv'
    BY <2>2 DEF UpdateRegions, Reconfigure, Swap, trackerVars, Empty, PathInv, TracksAreRecords
  <2>3. CASE UNCHANGED vars
    BY <2>3 DEF vars, trackerVars, engineVars, PathInv, TracksAreRecords, SideSeen
  <2> QED BY <2>1, <2>2, <2>3 DEF Next
<1>3. PathInv => CrossingsAreSides
  BY DEF PathInv, CrossingsAreSides
<1> QED BY <1>1, <1>2, <1>3, PTL DEF Spec

------------------------------------------------------------------------------
(* The matching of a frame.  The rounds of the greedy matching are a         *)
(* function that recurses over their number; that it exists, and what its    *)
(* last round has, follow from the least round that would be a               *)
(* counterexample.  The matching is without envy after every round, as far   *)
(* as it has come; and every round that finds an open pair takes one         *)
(* detection, so none is open after MaxObjects of them.                      *)

(* A set of naturals has a least element. *)
LEMMA LeastOf ==
  ASSUME NEW S, S \subseteq Nat, S # {}
  PROVE  \E n \in S : \A k \in S : n <= k
<1>1. \E n \in S : \A k \in S : ~ (<<k, n>> \in OpToRel(<, Nat))
  BY NatLessThanWellFounded, WFMin
<1>2. PICK n \in S : \A k \in S : ~ (<<k, n>> \in OpToRel(<, Nat))
  BY <1>1
<1>3. ASSUME NEW k \in S PROVE n <= k
  <2>1. ~ (k < n)
    BY <1>2 DEF OpToRel
  <2> QED BY <2>1
<1> QED BY <1>3

(* A finite set has a least element in every total order. *)
LEMMA LeastInOrder ==
  ASSUME NEW S, IsFiniteSet(S), S # {}, NEW R,
         \A x, y \in S : x # y => <<x, y>> \in R \/ <<y, x>> \in R,
         \A x, y, z \in S : <<x, y>> \in R /\ <<y, z>> \in R => <<x, z>> \in R
  PROVE  \E x \in S : \A y \in S \ {x} : <<x, y>> \in R
<1> DEFINE Has(T) == \E x \in T : \A y \in T \ {x} : <<x, y>> \in R
           bad == {T \in SUBSET S : T # {} /\ ~Has(T)}
<1> SUFFICES ASSUME bad # {} PROVE FALSE
  <2>1. S \notin bad => Has(S)
    OBVIOUS
  <2> QED BY <2>1
<1>1. \E T \in bad : \A U \in bad : ~ (<<U, T>> \in StrictSubsetOrdering(S))
  <2>1. \A T \in SUBSET S : IsFiniteSet(T)
    BY FS_Subset
  <2>2. bad \subseteq FiniteSubsetsOf(S)
    BY <2>1 DEF FiniteSubsetsOf
  <2> HIDE DEF bad
  <2> QED BY <2>2, FS_StrictSubsetOrderingWellFounded, WFMin
<1>2. PICK T \in bad : \A U \in bad : ~ (<<U, T>> \in StrictSubsetOrdering(S))
  BY <1>1
<1>3. PICK x \in T : TRUE
  OBVIOUS
<1>4. CASE T \ {x} = {}
  BY <1>4
<1>5. CASE T \ {x} # {}
  <2>1. <<T \ {x}, T>> \in StrictSubsetOrdering(S)
    BY DEF StrictSubsetOrdering
  <2>2. Has(T \ {x})
    BY <1>2, <1>5, <2>1
  <2>3. PICK y \in T \ {x} : \A z \in (T \ {x}) \ {y} : <<y, z>> \in R
    BY <2>2
  <2>4. CASE <<x, y>> \in R
    <3>1. ASSUME NEW z \in T \ {x} PROVE <<x, z>> \in R
      BY <2>3, <2>4
    <3> QED BY <3>1
  <2>5. CASE <<y, x>> \in R
    <3>1. ASSUME NEW z \in T \ {y} PROVE <<y, z>> \in R
      BY <2>3, <2>5
    <3> QED BY <3>1
  <2> QED BY <2>4, <2>5
<1> QED BY <1>4, <1>5

(* The rounds of a matching are well defined.                               *)
Rounds(dets, n, f) == f = [k \in 0..n |-> IF k = 0 THEN {} ELSE OneMore(dets, f[k - 1])]

LEMMA RoundsExist == ASSUME NEW dets, NEW n \in Nat PROVE \E f : Rounds(dets, n, f)
<1> DEFINE bad == {k \in Nat : ~ \E f : Rounds(dets, k, f)}
<1> SUFFICES ASSUME bad # {} PROVE FALSE
  <2>1. n \notin bad => \E f : Rounds(dets, n, f)
    OBVIOUS
  <2> QED BY <2>1
<1>1. bad \subseteq Nat
  OBVIOUS
<1>2. \E k \in bad : \A j \in bad : k <= j
  <2> HIDE DEF bad
  <2> QED BY <1>1, LeastOf
<1>3. PICK k \in bad : \A j \in bad : k <= j
  BY <1>2
<1>4. CASE k = 0
  <2> DEFINE g == [j \in 0..0 |-> {}]
  <2>1. g = [j \in 0..0 |-> IF j = 0 THEN {} ELSE OneMore(dets, g[j - 1])]
    <3>1. \A j \in 0..0 : j = 0
      OBVIOUS
    <3> QED BY <3>1
  <2> HIDE DEF g
  <2> QED BY <1>4, <2>1 DEF Rounds
<1>5. CASE k # 0
  <2>1. k - 1 \in Nat /\ k - 1 \notin bad
    BY <1>1, <1>3, <1>5
  <2>2. PICK f : Rounds(dets, k - 1, f)
    BY <2>1
  <2>3. /\ DOMAIN f = 0 .. k - 1
        /\ \A j \in 0 .. k - 1 : f[j] = IF j = 0 THEN {} ELSE OneMore(dets, f[j - 1])
    BY <2>2 DEF Rounds
  <2> DEFINE g == [j \in 0..k |-> IF j = k THEN OneMore(dets, f[k - 1]) ELSE f[j]]
  <2>4. ASSUME NEW j \in 0..k
        PROVE  g[j] = IF j = 0 THEN {} ELSE OneMore(dets, g[j - 1])
    <3>1. CASE j = k
      <4>1. k - 1 \in 0..k /\ k - 1 # k
        BY <2>1
      <4>2. g[k - 1] = f[k - 1] /\ g[k] = OneMore(dets, f[k - 1])
        BY <4>1, <2>1
      <4> QED BY <1>5, <3>1, <4>2
    <3>2. CASE j # k /\ j # 0
      <4>1. j \in 0 .. k - 1 /\ j - 1 \in 0..k /\ j - 1 # k
        BY <2>1, <3>2
      <4>2. g[j] = f[j] /\ g[j - 1] = f[j - 1]
        BY <3>2, <4>1
      <4> QED BY <2>3, <3>2, <4>1, <4>2
    <3>3. CASE j = 0
      <4>1. j \in 0 .. k - 1 /\ j # k
        BY <2>1, <3>3
      <4> QED BY <2>3, <3>3, <4>1
    <3> QED BY <3>1, <3>2, <3>3
  <2>5. g = [j \in 0..k |-> g[j]]
    OBVIOUS
  <2> HIDE DEF g
  <2>6. Rounds(dets, k, g)
    <3>1. [j \in 0..k |-> g[j]]
            = [j \in 0..k |-> IF j = 0 THEN {} ELSE OneMore(dets, g[j - 1])]
      BY <2>4
    <3> QED BY <2>5, <3>1 DEF Rounds
  <2> QED BY <1>3, <2>6
<1> QED BY <1>4, <1>5

LEMMA MatchingIsLastRound ==
  ASSUME SceneAssumption, NEW dets
  PROVE  \E f : Rounds(dets, MaxObjects, f) /\ Matching(dets) = f[MaxObjects]
<1> DEFINE m == CHOOSE f : Rounds(dets, MaxObjects, f)
<1>1. Rounds(dets, MaxObjects, m)
  BY RoundsExist DEF SceneAssumption
<1>2. Matching(dets) = m[MaxObjects]
  BY DEF Matching, Rounds
<1> HIDE DEF m
<1> QED BY <1>1, <1>2

(* How far a track is from a detection, and the pairs within the threshold. *)
Way(x) == Distance(tracks[x[1]].at, x[2])
InReach(dets) == {x \in (DOMAIN tracks) \X dets : Way(x) <= Reach}
FreeOf(dets, T) == {p \in dets : \A y \in T : y[2] # p}

(* What the tracker knows of its tracks.                                    *)
TracksInv ==
  /\ nextId \in Nat
  /\ DOMAIN tracks \subseteq 0..(nextId - 1)
  /\ \A t \in DOMAIN tracks : tracks[t].at \in Points /\ tracks[t].lost \in 0..MaxAge

(* After k rounds the pairs are a matching without envy, and all that could *)
(* still be paired are at most MaxObjects - k detections.                   *)
Greedy(dets, k, T) ==
  /\ T \subseteq InReach(dets)
  /\ \A x, y \in T : x[1] = y[1] \/ x[2] = y[2] => x = y
  /\ \A z \in InReach(dets) :
       \/ z \in OpenPairs(dets, T)
       \/ \E y \in T : (y[1] = z[1] \/ y[2] = z[2]) /\ Way(y) <= Way(z)
  /\ OpenPairs(dets, T) = {} \/ Cardinality(FreeOf(dets, T)) <= MaxObjects - k

LEMMA DistanceIsInt ==
  ASSUME SceneAssumption, NEW p \in Points, NEW q \in Points
  PROVE  Distance(p, q) \in Int
<1>1. p \in Int \X Int /\ q \in Int \X Int
  BY DEF SceneAssumption
<1> QED BY <1>1 DEF Distance, Square

(* The closest of the open pairs is one of them, and none is closer.        *)
LEMMA ClosestIsLeast ==
  ASSUME SceneAssumption, TracksInv, NEW dets \in SUBSET Points, NEW S \in SUBSET InReach(dets),
         S # {}
  PROVE  Closest(S) \in S /\ \A y \in S : Way(Closest(S)) <= Way(y)
<1> DEFINE R == {e \in S \X S : Before(e[1], e[2])}
<1>1. /\ \A x \in S : Way(x) \in Int /\ x[1] \in Int /\ x[2] \in Int \X Int
      /\ \A x \in S : x = <<x[1], x[2]>>
  <2> SUFFICES ASSUME NEW x \in S
               PROVE  Way(x) \in Int /\ x[1] \in Int /\ x[2] \in Int \X Int /\ x = <<x[1], x[2]>>
    OBVIOUS
  <2>1. x \in (DOMAIN tracks) \X dets
    BY DEF InReach
  <2>2. x[1] \in Int /\ tracks[x[1]].at \in Points /\ x[2] \in Points
    BY <2>1 DEF TracksInv
  <2>3. Way(x) \in Int
    BY <2>2, DistanceIsInt DEF Way
  <2>4. x = <<x[1], x[2]>>
    BY <2>1
  <2>5. x[2] \in Int \X Int
    BY <2>2 DEF SceneAssumption
  <2> QED BY <2>2, <2>3, <2>4, <2>5
<1>2. \A x, y \in S : Before(x, y) <=>
        \/ Way(x) < Way(y)
        \/ Way(x) = Way(y) /\ x[1] < y[1]
        \/ Way(x) = Way(y) /\ x[1] = y[1] /\ x[2][1] < y[2][1]
        \/ Way(x) = Way(y) /\ x[1] = y[1] /\ x[2][1] = y[2][1] /\ x[2][2] < y[2][2]
  BY DEF Before, Way, Earlier
<1>3. \A x, y \in S : x # y => Before(x, y) \/ Before(y, x)
  <2> SUFFICES ASSUME NEW x \in S, NEW y \in S, x # y PROVE Before(x, y) \/ Before(y, x)
    OBVIOUS
  <2>1. x[1] # y[1] \/ x[2][1] # y[2][1] \/ x[2][2] # y[2][2]
    BY <1>1
  <2>2. /\ Way(x) \in Int /\ Way(y) \in Int /\ x[1] \in Int /\ y[1] \in Int
        /\ x[2][1] \in Int /\ x[2][2] \in Int /\ y[2][1] \in Int /\ y[2][2] \in Int
    BY <1>1
  <2> QED BY <1>2, <2>1, <2>2
<1>4. \A x, y, z \in S : Before(x, y) /\ Before(y, z) => Before(x, z)
  <2> SUFFICES ASSUME NEW x \in S, NEW y \in S, NEW z \in S, Before(x, y), Before(y, z)
               PROVE  Before(x, z)
    OBVIOUS
  <2>1. \A u \in S : /\ Way(u) \in Int /\ u[1] \in Int
                     /\ u[2][1] \in Int /\ u[2][2] \in Int
    BY <1>1
  <2> QED BY <1>2, <2>1
<1>5. IsFiniteSet(S)
  <2>1. IsFiniteSet(DOMAIN tracks)
    <3>1. IsFiniteSet(0..(nextId - 1))
      BY FS_Interval DEF TracksInv
    <3>2. DOMAIN tracks \in SUBSET (0..(nextId - 1))
      BY DEF TracksInv
    <3> QED BY <3>1, <3>2, FS_Subset
  <2>2. IsFiniteSet(dets)
    BY FS_Subset DEF SceneAssumption
  <2>3. IsFiniteSet((DOMAIN tracks) \X dets)
    BY <2>1, <2>2, FS_Product
  <2>4. S \in SUBSET ((DOMAIN tracks) \X dets)
    BY DEF InReach
  <2> QED BY <2>3, <2>4, FS_Subset
<1>6. \A x, y \in S : <<x, y>> \in R <=> Before(x, y)
  OBVIOUS
<1> HIDE DEF R
<1>7. \E x \in S : \A y \in S \ {x} : <<x, y>> \in R
  <2>1. \A x, y \in S : x # y => <<x, y>> \in R \/ <<y, x>> \in R
    BY <1>3, <1>6
  <2>2. \A x, y, z \in S : <<x, y>> \in R /\ <<y, z>> \in R => <<x, z>> \in R
    BY <1>4, <1>6
  <2> QED BY <1>5, <2>1, <2>2, LeastInOrder
<1>8. \E x \in S : \A y \in S \ {x} : Before(x, y)
  BY <1>6, <1>7
<1>9. Closest(S) \in S /\ \A y \in S \ {Closest(S)} : Before(Closest(S), y)
  BY <1>8 DEF Closest
<1>10. ASSUME NEW y \in S PROVE Way(Closest(S)) <= Way(y)
  <2>1. Closest(S) \in S /\ Way(Closest(S)) \in Int /\ Way(y) \in Int
    BY <1>1, <1>9
  <2>2. CASE y = Closest(S)
    BY <2>1, <2>2
  <2>3. CASE y # Closest(S)
    BY <1>2, <1>9, <2>1, <2>3
  <2> QED BY <2>2, <2>3
<1> QED BY <1>9, <1>10

(* A round keeps the matching greedy. *)
LEMMA OneMoreRound ==
  ASSUME SceneAssumption, TracksInv, NEW dets \in SUBSET Points, NEW k \in Nat, NEW T,
         Greedy(dets, k, T)
  PROVE  Greedy(dets, k + 1, OneMore(dets, T))
<1>0. MaxObjects \in Nat
  BY DEF SceneAssumption
<1>1. CASE OpenPairs(dets, T) = {}
  BY <1>1 DEF Greedy, OneMore
<1>2. CASE OpenPairs(dets, T) # {}
  <2> DEFINE x == Closest(OpenPairs(dets, T))
             U == T \cup {x}
  <2>1. OpenPairs(dets, T) \in SUBSET InReach(dets)
    BY DEF OpenPairs, InReach, Way
  <2>2. /\ x \in OpenPairs(dets, T) /\ x \in InReach(dets)
        /\ \A z \in OpenPairs(dets, T) : Way(x) <= Way(z)
    BY <1>2, <2>1, ClosestIsLeast
  <2>3. OneMore(dets, T) = U
    BY <1>2 DEF OneMore
  <2> HIDE DEF x
  <2>4. \A y \in T : x[1] # y[1] /\ x[2] # y[2]
    BY <2>2 DEF OpenPairs
  <2>5. \A y, z \in U : y[1] = z[1] \/ y[2] = z[2] => y = z
    BY <2>4 DEF Greedy
  <2>6. ASSUME NEW z \in InReach(dets)
        PROVE  \/ z \in OpenPairs(dets, U)
               \/ \E y \in U : (y[1] = z[1] \/ y[2] = z[2]) /\ Way(y) <= Way(z)
    <3>1. CASE z \notin OpenPairs(dets, T)
      BY <3>1 DEF Greedy
    <3>2. CASE z \in OpenPairs(dets, T) /\ (x[1] = z[1] \/ x[2] = z[2])
      BY <2>2, <3>2
    <3>3. CASE z \in OpenPairs(dets, T) /\ ~ (x[1] = z[1] \/ x[2] = z[2])
      <4>0. \A y \in T : z[1] # y[1] /\ z[2] # y[2]
        BY <3>3 DEF OpenPairs
      <4>1. \A y \in U : z[1] # y[1] /\ z[2] # y[2]
        BY <3>3, <4>0
      <4>2. z \in OpenPairs(dets, U)
        BY <3>3, <4>1 DEF OpenPairs
      <4> QED BY <4>2
    <3> QED BY <3>1, <3>2, <3>3
  <2>7. Cardinality(FreeOf(dets, U)) <= MaxObjects - (k + 1)
    <3>1. FreeOf(dets, U) = FreeOf(dets, T) \ {x[2]}
      BY DEF FreeOf
    <3>2. x[2] \in FreeOf(dets, T)
      BY <2>2 DEF FreeOf, OpenPairs
    <3>3. IsFiniteSet(FreeOf(dets, T))
      <4>1. FreeOf(dets, T) \in SUBSET Points
        BY DEF FreeOf
      <4> QED BY <4>1, FS_Subset DEF SceneAssumption
    <3>4. Cardinality(FreeOf(dets, T)) \in Nat
      BY <3>3, FS_CardinalityType
    <3>5. Cardinality(FreeOf(dets, U)) = Cardinality(FreeOf(dets, T)) - 1
      <4> DEFINE F == FreeOf(dets, T)
                 p == x[2]
      <4>1. IsFiniteSet(F) /\ p \in F
        BY <3>2, <3>3
      <4> HIDE DEF F, p
      <4>2. Cardinality(F \ {p}) = Cardinality(F) - 1
        BY <4>1, FS_RemoveElement
      <4> QED BY <3>1, <4>2 DEF F, p
    <3>6. Cardinality(FreeOf(dets, T)) <= MaxObjects - k
      BY <1>2 DEF Greedy
    <3> QED BY <1>0, <3>4, <3>5, <3>6
  <2>8. U \subseteq InReach(dets)
    BY <2>2 DEF Greedy
  <2> HIDE DEF U
  <2> QED BY <2>3, <2>5, <2>6, <2>7, <2>8 DEF Greedy
<1> QED BY <1>1, <1>2

LEMMA MatchingIsGreedy ==
  ASSUME SceneAssumption, TracksInv, NEW dets \in Detections
  PROVE  Greedy(dets, MaxObjects, Matching(dets))
<1>0. MaxObjects \in Nat
  BY DEF SceneAssumption
<1>1. PICK f : Rounds(dets, MaxObjects, f) /\ Matching(dets) = f[MaxObjects]
  BY MatchingIsLastRound
<1>2. \A k \in 0..MaxObjects : f[k] = IF k = 0 THEN {} ELSE OneMore(dets, f[k - 1])
  BY <1>1 DEF Rounds
<1>3. dets \in SUBSET Points /\ IsFiniteSet(dets) /\ Cardinality(dets) <= MaxObjects
  <2>1. dets \in SUBSET Points /\ Cardinality(dets) <= MaxObjects
    BY <1>0 DEF Detections, kSubset
  <2> QED BY <2>1, FS_Subset DEF SceneAssumption
<1> DEFINE bad == {k \in 0..MaxObjects : ~Greedy(dets, k, f[k])}
<1> SUFFICES ASSUME bad # {} PROVE FALSE
  BY <1>0, <1>1
<1>4. PICK k \in bad : \A j \in bad : k <= j
  <2>1. bad \subseteq Nat
    BY <1>0
  <2> HIDE DEF bad
  <2> QED BY <2>1, LeastOf
<1>5. CASE k = 0
  <2>1. f[0] = {}
    BY <1>0, <1>2
  <2>2. FreeOf(dets, {}) = dets
    BY DEF FreeOf
  <2>3. OpenPairs(dets, {}) = InReach(dets)
    BY DEF OpenPairs, InReach, Way
  <2>4. Cardinality(FreeOf(dets, {})) <= MaxObjects - 0
    BY <1>0, <1>3, <2>2
  <2>5. Greedy(dets, 0, {})
    BY <2>3, <2>4 DEF Greedy
  <2> QED BY <1>4, <1>5, <2>1, <2>5
<1>6. CASE k # 0
  <2>1. k - 1 \in Nat /\ k - 1 \in 0..MaxObjects /\ k - 1 \notin bad /\ (k - 1) + 1 = k
    BY <1>0, <1>4, <1>6
  <2>2. Greedy(dets, k - 1, f[k - 1])
    BY <2>1
  <2>3. f[k] = OneMore(dets, f[k - 1])
    BY <1>2, <1>4, <1>6
  <2>4. Greedy(dets, (k - 1) + 1, OneMore(dets, f[k - 1]))
    BY <1>3, <2>1, <2>2, OneMoreRound
  <2> QED BY <1>4, <2>1, <2>3, <2>4
<1> QED BY <1>5, <1>6

(* A matching without envy. *)
LEMMA MatchingHasNoEnvy ==
  ASSUME SceneAssumption, TracksInv, NEW dets \in Detections
  PROVE  /\ Matching(dets) \subseteq InReach(dets)
         /\ \A x, y \in Matching(dets) : x[1] = y[1] \/ x[2] = y[2] => x = y
         /\ \A z \in InReach(dets) :
              \E y \in Matching(dets) : (y[1] = z[1] \/ y[2] = z[2]) /\ Way(y) <= Way(z)
<1> DEFINE M == Matching(dets)
<1>1. Greedy(dets, MaxObjects, M)
  BY MatchingIsGreedy
<1> HIDE DEF M
<1>2. OpenPairs(dets, M) = {}
  <2>1. IsFiniteSet(FreeOf(dets, M))
    <3>1. FreeOf(dets, M) \in SUBSET Points
      BY DEF FreeOf, Detections, kSubset
    <3> QED BY <3>1, FS_Subset DEF SceneAssumption
  <2>2. Cardinality(FreeOf(dets, M)) \in Nat
    BY <2>1, FS_CardinalityType
  <2>3. CASE Cardinality(FreeOf(dets, M)) <= MaxObjects - MaxObjects
    <3>1. Cardinality(FreeOf(dets, M)) = 0
      BY <2>2, <2>3 DEF SceneAssumption
    <3>2. FreeOf(dets, M) = {}
      BY <2>1, <3>1, FS_EmptySet
    <3> QED BY <3>2 DEF FreeOf, OpenPairs
  <2> QED BY <1>1, <2>3 DEF Greedy
<1>3. /\ M \subseteq InReach(dets)
      /\ \A x, y \in M : x[1] = y[1] \/ x[2] = y[2] => x = y
      /\ \A z \in InReach(dets) :
           \E y \in M : (y[1] = z[1] \/ y[2] = z[2]) /\ Way(y) <= Way(z)
  BY <1>1, <1>2 DEF Greedy
<1> QED BY <1>3 DEF M

(* What a frame's update makes of the matching.                             *)
LEMMA UpdateIsStable ==
  ASSUME SceneAssumption, TracksInv, NEW dets \in Detections, Update(dets)
  PROVE  /\ TracksInv'
         /\ \A t \in DOMAIN tracks, u \in DOMAIN tracks' :
              tracks'[u].lost = 0 /\ t # u /\ Distance(tracks[t].at, tracks'[u].at) <= Reach =>
                \/ /\ t \in DOMAIN tracks' /\ tracks'[t].lost = 0
                   /\ Distance(tracks[t].at, tracks'[t].at)
                        <= Distance(tracks[t].at, tracks'[u].at)
                \/ /\ u \in DOMAIN tracks
                   /\ Distance(tracks[u].at, tracks'[u].at)
                        <= Distance(tracks[t].at, tracks'[u].at)
<1> DEFINE pairs == Matching(dets)
           matched == {t \in DOMAIN tracks : \E p \in dets : <<t, p>> \in pairs}
           others == {p \in dets : \A t \in DOMAIN tracks : <<t, p>> \notin pairs}
           kept == {t \in (DOMAIN tracks) \ matched : tracks[t].lost < MaxAge}
           born == {NewId(others, p) : p \in others}
<1>1. dets \subseteq Points /\ IsFiniteSet(dets)
  <2>1. dets \in SUBSET Points
    BY DEF Detections, kSubset
  <2> QED BY <2>1, FS_Subset DEF SceneAssumption
<1>2. /\ DOMAIN tracks' = matched \cup kept \cup born
      /\ nextId' = nextId + Cardinality(others)
      /\ \A t \in DOMAIN tracks' :
           tracks'[t] = IF t \in matched THEN Seen(t, CHOOSE p \in dets : <<t, p>> \in pairs)
                        ELSE IF t \in kept THEN [tracks[t] EXCEPT !.lost = @ + 1]
                        ELSE Born(CHOOSE p \in others : NewId(others, p) = t)
  BY DEF Update
<1>3. /\ pairs \subseteq InReach(dets)
      /\ \A x, y \in pairs : x[1] = y[1] \/ x[2] = y[2] => x = y
      /\ \A z \in InReach(dets) :
           \E y \in pairs : (y[1] = z[1] \/ y[2] = z[2]) /\ Way(y) <= Way(z)
  BY MatchingHasNoEnvy
<1>4. \A y \in pairs : y[1] \in DOMAIN tracks /\ y[2] \in dets /\ y = <<y[1], y[2]>>
  BY <1>3 DEF InReach
<1> HIDE DEF pairs
<1>5. ASSUME NEW t \in matched
      PROVE  \E p \in dets : /\ <<t, p>> \in pairs /\ tracks'[t].at = p
                             /\ tracks'[t].lost = 0
  <2> DEFINE p == CHOOSE p \in dets : <<t, p>> \in pairs
  <2>1. p \in dets /\ <<t, p>> \in pairs
    OBVIOUS
  <2>2. tracks'[t] = Seen(t, p)
    BY <1>2
  <2> HIDE DEF p
  <2>3. tracks'[t].at = p /\ tracks'[t].lost = 0
    BY <2>2 DEF Seen
  <2> QED BY <2>1, <2>3
<1>6. ASSUME NEW t \in kept, t \notin matched
      PROVE  tracks'[t].at = tracks[t].at /\ tracks'[t].lost = tracks[t].lost + 1
  <2>1. tracks'[t] = [tracks[t] EXCEPT !.lost = @ + 1]
    BY <1>2, <1>6
  <2> QED BY <2>1
<1>7. ASSUME NEW t \in born, t \notin matched, t \notin kept
      PROVE  \E p \in others : tracks'[t].at = p /\ tracks'[t].lost = 0
  <2> DEFINE p == CHOOSE p \in others : NewId(others, p) = t
  <2>1. p \in others
    OBVIOUS
  <2>2. tracks'[t] = Born(p)
    BY <1>2, <1>7
  <2> HIDE DEF p
  <2>3. tracks'[t].at = p /\ tracks'[t].lost = 0
    BY <2>2 DEF Born
  <2> QED BY <2>1, <2>3
<1>8. \A p \in others : p \in dets /\ \A t \in DOMAIN tracks : <<t, p>> \notin pairs
  OBVIOUS
<1>9. /\ \A t \in matched : t \in DOMAIN tracks
      /\ \A t \in kept : t \in DOMAIN tracks /\ tracks[t].lost < MaxAge
      /\ \A t \in DOMAIN tracks, p \in dets : <<t, p>> \in pairs => t \in matched
  OBVIOUS
<1>10. /\ nextId' \in Nat /\ nextId <= nextId'
       /\ \A t \in born : t \in 0 .. nextId' - 1
  <2>1. others \in SUBSET Points /\ IsFiniteSet(others)
    BY <1>1, <1>8, FS_Subset
  <2>2. born = {NewId(others, p) : p \in others}
    OBVIOUS
  <2> HIDE DEF others, born
  <2>3. ASSUME NEW p \in others PROVE NewId(others, p) \in 0 .. nextId' - 1
    <3> DEFINE B == {q \in others : Earlier(q, p)}
    <3>1. B \in SUBSET (others \ {p})
      <4>1. ~Earlier(p, p)
        <5>1. p \in Int \X Int
          BY <2>1 DEF SceneAssumption
        <5> QED BY <5>1 DEF Earlier
      <4> QED BY <4>1
    <3>2. NewId(others, p) = nextId + Cardinality(B)
      BY DEF NewId
    <3> HIDE DEF B
    <3>3. IsFiniteSet(others \ {p}) /\ Cardinality(others \ {p}) = Cardinality(others) - 1
      BY <2>1, FS_RemoveElement
    <3>4. IsFiniteSet(B) /\ Cardinality(B) <= Cardinality(others \ {p})
      BY <3>1, <3>3, FS_Subset
    <3>5. Cardinality(B) \in Nat /\ Cardinality(others) \in Nat
      BY <2>1, <3>4, FS_CardinalityType
    <3> QED BY <1>2, <3>2, <3>3, <3>4, <3>5 DEF TracksInv
  <2>4. Cardinality(others) \in Nat
    BY <2>1, FS_CardinalityType
  <2> QED BY <1>2, <2>2, <2>3, <2>4 DEF TracksInv
<1> HIDE DEF matched, others, kept, born
<1>11. TracksInv'
  <2>1. ASSUME NEW t \in DOMAIN tracks'
        PROVE  /\ t \in 0 .. nextId' - 1
               /\ tracks'[t].at \in Points /\ tracks'[t].lost \in 0..MaxAge
    <3>1. CASE t \in matched
      <4>1. tracks'[t].at \in dets /\ tracks'[t].lost = 0
        BY <1>5, <3>1
      <4>0. 0 \in 0..MaxAge
        BY DEF SceneAssumption
      <4>2. t \in 0 .. nextId' - 1
        BY <1>9, <1>10, <3>1 DEF TracksInv
      <4> QED BY <1>1, <4>0, <4>1, <4>2
    <3>2. CASE t \in kept /\ t \notin matched
      <4>1. tracks'[t].at = tracks[t].at /\ tracks'[t].lost = tracks[t].lost + 1
        BY <1>6, <3>2
      <4>2. /\ t \in DOMAIN tracks /\ tracks[t].at \in Points
            /\ tracks[t].lost \in 0..MaxAge /\ tracks[t].lost < MaxAge
        BY <1>9, <3>2 DEF TracksInv
      <4>3. t \in 0 .. nextId' - 1
        BY <1>10, <4>2 DEF TracksInv
      <4> QED BY <4>1, <4>2, <4>3 DEF SceneAssumption
    <3>3. CASE t \in born /\ t \notin matched /\ t \notin kept
      <4>1. tracks'[t].at \in dets /\ tracks'[t].lost = 0
        BY <1>7, <1>8, <3>3
      <4>0. 0 \in 0..MaxAge
        BY DEF SceneAssumption
      <4> QED BY <1>1, <1>10, <3>3, <4>0, <4>1
    <3> QED BY <1>2, <3>1, <3>2, <3>3
  <2> QED BY <1>10, <2>1 DEF TracksInv
<1>12. ASSUME NEW t \in DOMAIN tracks, NEW u \in DOMAIN tracks',
              tracks'[u].lost = 0, t # u,
              Distance(tracks[t].at, tracks'[u].at) <= Reach
       PROVE  \/ /\ t \in DOMAIN tracks' /\ tracks'[t].lost = 0
                 /\ Distance(tracks[t].at, tracks'[t].at)
                      <= Distance(tracks[t].at, tracks'[u].at)
              \/ /\ u \in DOMAIN tracks
                 /\ Distance(tracks[u].at, tracks'[u].at)
                      <= Distance(tracks[t].at, tracks'[u].at)
  <2>1. u \in matched \/ (u \in born /\ u \notin matched /\ u \notin kept)
    <3>1. ASSUME u \in kept, u \notin matched PROVE FALSE
      <4>1. tracks'[u].lost = tracks[u].lost + 1 /\ tracks[u].lost \in Nat
        BY <1>6, <1>9, <3>1 DEF TracksInv
      <4> QED BY <1>12, <4>1
    <3> QED BY <1>2, <3>1
  <2> DEFINE p == tracks'[u].at
  <2>2. p \in dets /\ (u \notin matched => p \in others) /\ (u \in matched => <<u, p>> \in pairs)
    <3>1. CASE u \in matched
      BY <1>5, <3>1
    <3>2. CASE u \notin matched
      BY <1>7, <1>8, <2>1, <3>2
    <3> QED BY <3>1, <3>2
  <2>3. <<t, p>> \in InReach(dets)
    BY <1>12, <2>2 DEF InReach, Way
  <2>4. PICK y \in pairs : (y[1] = t \/ y[2] = p) /\ Way(y) <= Way(<<t, p>>)
    BY <1>3, <2>3
  <2>5. /\ y = <<y[1], y[2]>> /\ y[1] \in DOMAIN tracks /\ y[2] \in dets
        /\ Distance(tracks[y[1]].at, y[2]) <= Distance(tracks[t].at, p)
    BY <1>4, <2>4 DEF Way
  <2> HIDE DEF p
  <2>6. CASE y[1] = t
    <3>1. t \in matched /\ t \in DOMAIN tracks'
      BY <1>2, <1>9, <2>4, <2>5, <2>6
    <3>2. PICK q \in dets : <<t, q>> \in pairs /\ tracks'[t].at = q /\ tracks'[t].lost = 0
      BY <1>5, <3>1
    <3>3. <<t, q>> = y
      <4>1. <<t, q>>[1] = y[1]
        BY <2>6
      <4> QED BY <1>3, <2>4, <3>2, <4>1
    <3>4. y[2] = tracks'[t].at
      BY <3>2, <3>3
    <3> QED BY <2>5, <2>6, <3>1, <3>2, <3>4 DEF p
  <2>7. CASE y[2] = p
    <3>1. u \in matched
      BY <1>8, <2>2, <2>4, <2>5, <2>7
    <3>2. <<u, p>> = y
      <4>1. <<u, p>>[2] = y[2]
        BY <2>7
      <4> QED BY <1>3, <2>2, <2>4, <3>1, <4>1
    <3>3. y[1] = u /\ u \in DOMAIN tracks
      BY <1>9, <3>1, <3>2
    <3> QED BY <2>5, <2>7, <3>3 DEF p
  <2> QED BY <2>4, <2>6, <2>7
<1> QED BY <1>11, <1>12

(* The step that MatchingIsStable promises.                                 *)
NoEnvy ==
  frame' # frame =>
    \A t \in DOMAIN tracks, u \in DOMAIN tracks' :
         LET d == Distance(tracks[t].at, tracks'[u].at)
         IN tracks'[u].lost = 0 /\ t # u /\ d <= Reach =>
              \/ /\ t \in DOMAIN tracks' /\ tracks'[t].lost = 0
                 /\ Distance(tracks[t].at, tracks'[t].at) <= d
              \/ u \in DOMAIN tracks /\ Distance(tracks[u].at, tracks'[u].at) <= d

(* MatchingIsStable, for every geometry, number of objects and threshold.   *)
THEOREM NobodyEnvies == Spec => MatchingIsStable
<1>1. Init => TracksInv
  BY DEF Init, Empty, TracksInv
<1>2. TracksInv /\ [Next]_vars => TracksInv' /\ [NoEnvy]_vars
  <2> SUFFICES ASSUME TracksInv, [Next]_vars PROVE TracksInv' /\ NoEnvy
    OBVIOUS
  <2>1. CASE \E dets \in Detections : Frame(dets)
    <3>1. PICK dets \in Detections : Update(dets)
      BY <2>1 DEF Frame
    <3> QED BY <3>1, UpdateIsStable, SceneAssumption DEF NoEnvy
  <2>2. CASE \E s \in Scenes : UpdateRegions(s)
    <3>1. UNCHANGED <<frame, tracks, nextId>>
      BY <2>2 DEF UpdateRegions, Reconfigure, trackerVars
    <3> QED BY <3>1 DEF TracksInv, NoEnvy
  <2>3. CASE UNCHANGED vars
    <3>1. UNCHANGED <<frame, tracks, nextId>>
      BY <2>3 DEF vars, trackerVars
    <3> QED BY <3>1 DEF TracksInv, NoEnvy
  <2> QED BY <2>1, <2>2, <2>3 DEF Next
<1>3. [][NoEnvy]_vars <=> MatchingIsStable
  BY PTL DEF NoEnvy, MatchingIsStable
<1> QED BY <1>1, <1>2, <1>3, PTL DEF Spec

(* The types of a scene: ids are given once, and no track outlives MaxAge.  *)
THEOREM SceneTypeCorrect == Spec => []TypeOK
<1>1. Init => TypeOK
  BY SceneAssumption DEF Init, Empty, TypeOK, SceneAssumption
<1>2. TypeOK /\ [Next]_vars => TypeOK'
  <2> SUFFICES ASSUME TypeOK, [Next]_vars PROVE TypeOK'
    OBVIOUS
  <2>0. TracksInv
    BY DEF TypeOK, TracksInv
  <2>1. ASSUME NEW dets \in Detections, Frame(dets) PROVE TypeOK'
    <3>1. /\ frame' = frame + 1 /\ frame < MaxFrames /\ Update(dets)
          /\ known' = DOMAIN tracks' /\ scene' = scene /\ swaps' = swaps
      BY <2>1 DEF Frame, Process
    <3>2. TracksInv'
      BY <2>0, <3>1, UpdateIsStable, SceneAssumption
    <3> QED BY <3>1, <3>2, SceneAssumption DEF TypeOK, TracksInv, SceneAssumption
  <2>2. ASSUME NEW s \in Scenes, UpdateRegions(s) PROVE TypeOK'
    <3>1. /\ swaps < MaxSwaps /\ swaps' = swaps + 1 /\ scene' = s
          /\ UNCHANGED <<frame, tracks, nextId, known>>
      BY <2>2 DEF UpdateRegions, Reconfigure, Swap, trackerVars
    <3> QED BY <3>1, SceneAssumption DEF TypeOK, SceneAssumption
  <2>3. CASE UNCHANGED vars
    BY <2>3 DEF vars, trackerVars, engineVars, TypeOK
  <2> QED BY <2>1, <2>2, <2>3 DEF Next
<1> QED BY <1>1, <1>2, PTL DEF Spec

------------------------------------------------------------------------------
(* The failover of a call.  A call that no other thread disturbed knows that *)
(* what it replaces is broken, and that what it has loaded works; so when it *)
(* gives up, or marks the fallback exhausted, no backup works.               *)

(* What a search in the order of the fallbacks returns. *)
LEMMA FirstFallback ==
  ASSUME NEW bad
  PROVE  /\ FirstOutside(Fallbacks, bad) = None <=> ToSet(Fallbacks) \subseteq bad
         /\ FirstOutside(Fallbacks, bad) # None => FirstOutside(Fallbacks, bad) \notin bad
<1> DEFINE good == {k \in DOMAIN Fallbacks : Fallbacks[k] \notin bad}
<1>1. DOMAIN Fallbacks = {1, 2} /\ Fallbacks[1] = "onnx" /\ Fallbacks[2] = "torch"
  BY DEF Fallbacks
<1>2. ToSet(Fallbacks) = {"onnx", "torch"}
  BY <1>1 DEF ToSet
<1>3. good # {} => Min(good) \in good
  <2> SUFFICES ASSUME good # {} PROVE Min(good) \in good
    OBVIOUS
  <2>1. \E x \in good : \A y \in good : x <= y
    BY <1>1
  <2> QED BY <2>1 DEF Min
<1>4. FirstOutside(Fallbacks, bad) = IF good = {} THEN None ELSE Fallbacks[Min(good)]
  BY DEF FirstOutside
<1>5. "onnx" # None /\ "torch" # None
  BY DEF None
<1>6. good = {} <=> ToSet(Fallbacks) \subseteq bad
  BY <1>1, <1>2
<1> HIDE DEF good
<1>7. CASE good = {}
  BY <1>4, <1>6, <1>7
<1>8. CASE good # {}
  <2>1. Min(good) \in DOMAIN Fallbacks /\ Fallbacks[Min(good)] \notin bad
    BY <1>3, <1>8 DEF good
  <2>2. Fallbacks[Min(good)] # None
    BY <1>1, <1>5, <2>1
  <2> QED BY <1>4, <1>6, <1>8, <2>1, <2>2
<1> QED BY <1>7, <1>8

\* The shapes of the fields the argument reads.
CallsOK ==
  /\ phase \in [Streams -> {"new", "read", "connect", "predict", "rebuild", "load",
                            "retry", "ended"}]
  /\ DOMAIN raced = Streams /\ DOMAIN hit = Streams /\ DOMAIN current = Streams

\* A thread is in its loop only while there is a provider.
Started(i) == phase[i] \notin {"new", "ended"}
Undisturbed(i) ==
  /\ Started(i) => provider # None
  /\ phase[i] = "rebuild" /\ ~raced[i] => provider \in broken
  /\ phase[i] = "load" /\ ~raced[i] => current[i] \in broken
  /\ phase[i] = "retry" /\ ~raced[i] /\ ~hit[i] => provider \notin broken

FailoverInv ==
  /\ CallsOK
  /\ \A i \in Streams : Undisturbed(i)
  /\ exhausted /\ ~spoilt => ToSet(Fallbacks) \subseteq broken
  /\ \A i \in lost : phase[i] = "ended"
  /\ lost \subseteq Streams /\ FailsOnlyWithoutBackup

LEMMA FailoverInit == IntakeInit => FailoverInv
BY DEF IntakeInit, FailoverInv, CallsOK, Undisturbed, Started, FailsOnlyWithoutBackup

(* Steps of a thread outside a call leave what the argument reads alone. *)
LEMMA LoopStep ==
  ASSUME FailoverInv, NEW i \in Streams,
         UNCHANGED <<detectorVars, faultVars, callVars>>,
         ~Failing(i), phase[i] # "ended", phase[i] = "new" => provider # None,
         \E w \in {"read", "connect", "predict", "ended"} : phase' = [phase EXCEPT ![i] = w]
  PROVE  FailoverInv'
<1>1. PICK w \in {"read", "connect", "predict", "ended"} : phase' = [phase EXCEPT ![i] = w]
  OBVIOUS
<1>2. \A j \in Streams : phase'[j] = IF j = i THEN w ELSE phase[j]
  BY <1>1 DEF FailoverInv, CallsOK
<1>3. CallsOK'
  BY <1>1 DEF FailoverInv, CallsOK, callVars
<1>4. ASSUME NEW j \in Streams PROVE Undisturbed(j)'
  BY <1>2, <1>4 DEF FailoverInv, Undisturbed, Started, Failing, detectorVars, faultVars, callVars
<1> QED BY <1>2, <1>3, <1>4
      DEF FailoverInv, FailsOnlyWithoutBackup, detectorVars, faultVars, callVars

LEMMA QuietStep ==
  ASSUME FailoverInv, UNCHANGED <<phase, detectorVars, faultVars, callVars>>
  PROVE  FailoverInv'
<1>1. \A i \in Streams : Undisturbed(i)'
  BY DEF FailoverInv, Undisturbed, Started, detectorVars, faultVars, callVars
<1> QED BY <1>1
      DEF FailoverInv, CallsOK, FailsOnlyWithoutBackup, detectorVars, faultVars, callVars

(* Opening and reading a source. *)
LEMMA SourceStep ==
  ASSUME FailoverInv, NEW i \in Streams,
         Open(i) \/ ReadCamera(i) \/ ReadFile(i) \/ ReadStream(i) \/ LoseStream(i) \/ Reconnect(i)
  PROVE  FailoverInv'
<1>1. UNCHANGED <<detectorVars, faultVars, callVars>>
  BY DEF Open, ReadCamera, ReadFile, ReadStream, LoseStream, Reconnect
<1>2. phase = [phase EXCEPT ![i] = phase[i]]
  BY DEF FailoverInv, CallsOK
<1>3. ASSUME NEW w, phase' = [phase EXCEPT ![i] = w], w \in {"read", "connect", "predict", "ended"},
             phase[i] \in {"read", "connect"} \/ (phase[i] = "new" /\ provider # None)
      PROVE  FailoverInv'
  BY <1>1, <1>3, LoopStep DEF Failing
<1>4. CASE Open(i)
  <2>1. phase' = [phase EXCEPT ![i] = "read"] \/ phase' = [phase EXCEPT ![i] = "ended"]
    BY <1>4 DEF Open, NoSource, OpenCamera, OpenFile, OpenStream, Opened, NotOpened, LeaveLoop
  <2>2. phase[i] = "new" /\ provider # None
    BY <1>4 DEF Open
  <2> QED BY <1>3, <2>1, <2>2
<1>5. CASE ReadCamera(i) \/ ReadFile(i) \/ ReadStream(i)
  <2>1. phase[i] = "read"
    BY <1>5 DEF ReadCamera, ReadFile, ReadStream
  <2>2. \/ phase' = [phase EXCEPT ![i] = "predict"]
        \/ phase' = [phase EXCEPT ![i] = "ended"] \/ phase' = phase
    BY <1>5 DEF ReadCamera, ReadFile, ReadStream, ReadOpen, Deliver, LeaveLoop
  <2>3. CASE phase' = phase
    BY <1>1, <2>3, QuietStep
  <2> QED BY <1>3, <2>1, <2>2, <2>3
<1>6. CASE LoseStream(i)
  <2>1. phase[i] = "read"
    BY <1>6 DEF LoseStream
  <2>2. phase' = [phase EXCEPT ![i] = "connect"] \/ phase' = [phase EXCEPT ![i] = "ended"]
    BY <1>6 DEF LoseStream, LeaveLoop
  <2> QED BY <1>3, <2>1, <2>2
<1>7. CASE Reconnect(i)
  <2>1. phase[i] = "connect"
    BY <1>7 DEF Reconnect
  <2>2. phase' = [phase EXCEPT ![i] = "read"] \/ phase' = [phase EXCEPT ![i] = "ended"]
    BY <1>7 DEF Reconnect, LeaveLoop
  <2> QED BY <1>3, <2>1, <2>2
<1> QED BY <1>4, <1>5, <1>6, <1>7

(* A call that returns forgets what disturbed it. *)
LEMMA ReturnStep ==
  ASSUME FailoverInv, NEW i \in Streams, Started(i), Return(i),
         UNCHANGED <<detectorVars, faultVars>>
  PROVE  FailoverInv'
<1>1. PICK w \in {"read", "ended"} : phase' = [phase EXCEPT ![i] = w]
  BY DEF Return, LeaveLoop
<1>2. \A j \in Streams : phase'[j] = IF j = i THEN w ELSE phase[j]
  BY <1>1 DEF FailoverInv, CallsOK
<1>3. \A j \in Streams \ {i} :
        raced'[j] = raced[j] /\ hit'[j] = hit[j] /\ current'[j] = current[j]
  BY DEF Return, FailoverInv, CallsOK
<1>4. UNCHANGED <<spoilt, lost>>
  BY DEF Return
<1>5. CallsOK'
  BY <1>1 DEF FailoverInv, CallsOK, Return
<1>6. ASSUME NEW j \in Streams PROVE Undisturbed(j)'
  BY <1>2, <1>3, <1>6 DEF FailoverInv, Undisturbed, Started, detectorVars, faultVars
<1>7. i \notin lost
  BY DEF FailoverInv, Started
<1> QED BY <1>2, <1>3, <1>4, <1>5, <1>6, <1>7
      DEF FailoverInv, FailsOnlyWithoutBackup, detectorVars, faultVars

(* A call that raises is lost only with an excuse. *)
LEMMA FailStep ==
  ASSUME FailoverInv, NEW i \in Streams, Fail(i),
         UNCHANGED <<provider, faultVars>>, DOMAIN raced' = Streams,
         \A j \in Streams \ {i} : raced'[j] = raced[j], raced[i] => raced'[i],
         exhausted' /\ ~spoilt' => ToSet(Fallbacks) \subseteq broken,
         hit[i] \/ raced'[i] \/ ToSet(Fallbacks) \subseteq broken
  PROVE  FailoverInv'
<1>1. phase' = [phase EXCEPT ![i] = "ended"] /\ UNCHANGED <<current, hit>>
  BY DEF Fail, LeaveLoop
<1>2. \A j \in Streams : phase'[j] = IF j = i THEN "ended" ELSE phase[j]
  BY <1>1 DEF FailoverInv, CallsOK
<1>3. CallsOK'
  BY <1>1 DEF FailoverInv, CallsOK
<1>4. ASSUME NEW j \in Streams PROVE Undisturbed(j)'
  BY <1>1, <1>2, <1>4 DEF FailoverInv, Undisturbed, Started, faultVars
<1>5. lost' = lost \/ (lost' = lost \cup {i} /\ (hit[i] \/ raced'[i]))
  BY DEF Fail
<1>6. FailsOnlyWithoutBackup' /\ lost' \subseteq Streams
  BY <1>1, <1>5 DEF FailoverInv, FailsOnlyWithoutBackup
<1>7. \A j \in lost' : phase'[j] = "ended"
  BY <1>2, <1>5 DEF FailoverInv
<1> QED BY <1>3, <1>4, <1>6, <1>7 DEF FailoverInv, faultVars

LEMMA InferStep ==
  ASSUME FailoverInv, NEW i \in Streams, Infer(i)
  PROVE  FailoverInv'
<1>1. phase[i] = "predict" /\ UNCHANGED <<detectorVars, faultVars>>
  BY DEF Infer
<1>2. CASE Return(i)
  BY <1>1, <1>2, ReturnStep DEF Started
<1>3. CASE exhausted /\ Fail(i) /\ raced' = [raced EXCEPT ![i] = @ \/ spoilt] /\ UNCHANGED spoilt
  <2>1. DOMAIN raced' = Streams /\ (\A j \in Streams \ {i} : raced'[j] = raced[j])
    BY <1>3 DEF FailoverInv, CallsOK
  <2>2. raced'[i] = (raced[i] \/ spoilt)
    BY <1>3 DEF FailoverInv, CallsOK
  <2>3. exhausted /\ ~spoilt => ToSet(Fallbacks) \subseteq broken
    BY DEF FailoverInv
  <2>4. UNCHANGED <<provider, exhausted>>
    BY <1>1 DEF detectorVars
  <2> QED BY <1>1, <1>3, <2>1, <2>2, <2>3, <2>4, FailStep
<1>4. CASE provider \in broken /\ phase' = [phase EXCEPT ![i] = "rebuild"] /\ UNCHANGED callVars
  <2>1. \A j \in Streams : phase'[j] = IF j = i THEN "rebuild" ELSE phase[j]
    BY <1>4 DEF FailoverInv, CallsOK
  <2>2. CallsOK'
    BY <1>4 DEF FailoverInv, CallsOK, callVars
  <2>3. ASSUME NEW j \in Streams PROVE Undisturbed(j)'
    BY <1>1, <1>4, <2>1, <2>3
       DEF FailoverInv, Undisturbed, Started, callVars, detectorVars, faultVars
  <2> QED BY <1>1, <1>4, <2>1, <2>2, <2>3
        DEF FailoverInv, FailsOnlyWithoutBackup, callVars, detectorVars, faultVars
<1> QED BY <1>2, <1>3, <1>4 DEF Infer

LEMMA RebuildStep ==
  ASSUME FailoverInv, NEW i \in Streams, Rebuild(i)
  PROVE  FailoverInv'
<1>1. \A j \in Streams : phase'[j] = IF j = i THEN "load" ELSE phase[j]
  BY DEF FailoverInv, CallsOK, Rebuild
<1>2. \A j \in Streams : current'[j] = IF j = i THEN provider ELSE current[j]
  BY DEF FailoverInv, CallsOK, Rebuild
<1>3. CallsOK'
  BY DEF FailoverInv, CallsOK, Rebuild
<1>4. ASSUME NEW j \in Streams PROVE Undisturbed(j)'
  BY <1>1, <1>2, <1>4 DEF FailoverInv, Undisturbed, Started, Rebuild, detectorVars, faultVars
<1> QED BY <1>1, <1>3, <1>4
      DEF FailoverInv, FailsOnlyWithoutBackup, Rebuild, detectorVars, faultVars

(* A new provider works; every other call in its failover is told of it. *)
LEMMA TakeoverStep ==
  ASSUME FailoverInv, NEW i \in Streams, Load(i), Replacement(i) # None
  PROVE  FailoverInv'
<1>1. /\ provider' = Replacement(i) /\ UNCHANGED <<exhausted, spoilt, lost, current, hit, broken>>
      /\ phase' = [phase EXCEPT ![i] = "retry"]
      /\ raced' = [j \in Streams |-> raced[j] \/ (j # i /\ Failing(j))]
  BY DEF Load, faultVars
<1>2. provider' # None /\ provider' \notin broken
  BY <1>1, FirstFallback DEF Replacement
<1>3. \A j \in Streams : phase'[j] = IF j = i THEN "retry" ELSE phase[j]
  BY <1>1 DEF FailoverInv, CallsOK
<1>4. \A j \in Streams : raced'[j] = (raced[j] \/ (j # i /\ Failing(j)))
  BY <1>1
<1>5. CallsOK'
  BY <1>1 DEF FailoverInv, CallsOK
<1>6. ASSUME NEW j \in Streams PROVE Undisturbed(j)'
  <2>1. CASE j = i
    BY <1>1, <1>2, <1>3, <2>1 DEF Undisturbed
  <2>2. CASE j # i /\ Failing(j)
    BY <1>2, <1>4, <1>6, <2>2, Zenon DEF Undisturbed
  <2>3. CASE j # i /\ ~Failing(j)
    BY <1>2, <1>3, <2>3, Zenon DEF Undisturbed, Failing
  <2> QED BY <2>1, <2>2, <2>3
<1>7. i \notin lost
  BY DEF FailoverInv, Load
<1>8. FailsOnlyWithoutBackup'
  BY <1>1, <1>4 DEF FailoverInv, FailsOnlyWithoutBackup
<1> QED BY <1>1, <1>3, <1>5, <1>6, <1>7, <1>8 DEF FailoverInv

LEMMA LoadStep ==
  ASSUME FailoverInv, NEW i \in Streams, Load(i)
  PROVE  FailoverInv'
<1>1. CASE Replacement(i) # None
  BY <1>1, TakeoverStep
<1>2. CASE Replacement(i) = None
  <2>1. /\ phase[i] = "load" /\ exhausted' = TRUE /\ spoilt' = (spoilt \/ raced[i])
        /\ Fail(i) /\ UNCHANGED <<provider, raced, faultVars>>
    BY <1>2 DEF Load
  <2>2. ToSet(Fallbacks) \subseteq broken \cup {current[i]}
    BY <1>2, FirstFallback DEF Replacement
  <2>3. ~raced[i] => ToSet(Fallbacks) \subseteq broken
    BY <2>1, <2>2 DEF FailoverInv, Undisturbed
  <2>4. DOMAIN raced' = Streams
    BY <2>1 DEF FailoverInv, CallsOK
  <2> QED BY <2>1, <2>3, <2>4, FailStep
<1> QED BY <1>1, <1>2

LEMMA RetryStep ==
  ASSUME FailoverInv, NEW i \in Streams, Retry(i)
  PROVE  FailoverInv'
<1>1. phase[i] = "retry" /\ UNCHANGED <<detectorVars, faultVars>>
  BY DEF Retry
<1>2. CASE Return(i)
  BY <1>1, <1>2, ReturnStep DEF Started
<1>3. CASE provider \in broken /\ Fail(i) /\ UNCHANGED <<raced, spoilt>>
  <2>1. hit[i] \/ raced[i]
    BY <1>1, <1>3 DEF FailoverInv, Undisturbed
  <2>2. exhausted /\ ~spoilt => ToSet(Fallbacks) \subseteq broken
    BY DEF FailoverInv
  <2>3. DOMAIN raced' = Streams
    BY <1>3 DEF FailoverInv, CallsOK
  <2> QED BY <1>1, <1>3, <2>1, <2>2, <2>3, FailStep DEF detectorVars
<1> QED BY <1>2, <1>3 DEF Retry

(* The detector's life, and a backend that breaks. *)
LEMMA DetectorStep ==
  ASSUME FailoverInv, Build \/ Unload \/ (\E b \in Backends : Break(b))
  PROVE  FailoverInv'
<1>1. CASE Build
  <2>1. provider = None /\ UNCHANGED <<phase, callVars, faultVars, exhausted>>
    BY <1>1 DEF Build
  <2>2. ASSUME NEW j \in Streams PROVE Undisturbed(j)'
    BY <2>1, <2>2 DEF FailoverInv, Undisturbed, Started, callVars, faultVars
  <2> QED BY <2>1, <2>2 DEF FailoverInv, CallsOK, FailsOnlyWithoutBackup, callVars, faultVars
<1>2. CASE Unload
  <2>1. phase' = [j \in Streams |-> "new"]
    BY <1>2 DEF Unload
  <2>2. \A j \in Streams : phase'[j] = "new"
    BY <2>1
  <2> QED BY <1>2, <2>1, <2>2
        DEF Unload, FailoverInv, CallsOK, Undisturbed, Started, FailsOnlyWithoutBackup
<1>3. ASSUME NEW b \in Backends, Break(b) PROVE FailoverInv'
  <2>1. /\ broken' = broken \cup {b} /\ hit' = [j \in Streams |-> hit[j] \/ Failing(j)]
        /\ UNCHANGED <<phase, detectorVars, current, raced, spoilt, lost>>
    BY <1>3 DEF Break
  <2>2. \A j \in Streams : hit'[j] = (hit[j] \/ Failing(j))
    BY <2>1
  <2>3. ASSUME NEW j \in Streams PROVE Undisturbed(j)'
    BY <2>1, <2>2, <2>3 DEF FailoverInv, Undisturbed, Started, Failing, detectorVars
  <2>4. FailsOnlyWithoutBackup'
    BY <2>1, <2>2 DEF FailoverInv, FailsOnlyWithoutBackup
  <2> QED BY <2>1, <2>3, <2>4 DEF FailoverInv, CallsOK, detectorVars
<1> QED BY <1>1, <1>2, <1>3

LEMMA FailoverStep == FailoverInv /\ [IntakeNext]_intakeVars => FailoverInv'
<1> SUFFICES ASSUME FailoverInv, [IntakeNext]_intakeVars PROVE FailoverInv'
  OBVIOUS
<1>1. CASE Build \/ Unload \/ (\E b \in Backends : Break(b))
  BY <1>1, DetectorStep
<1>2. ASSUME NEW i \in Streams, Open(i) \/ Thread(i) PROVE FailoverInv'
  BY <1>2, SourceStep, InferStep, RebuildStep, LoadStep, RetryStep DEF Thread, Call
<1>3. ASSUME NEW i \in Streams, StopStream(i) \/ CloseSource(i) \/ Die(i) PROVE FailoverInv'
  BY <1>3, QuietStep DEF StopStream, CloseSource, Die
<1>4. CASE UNCHANGED intakeVars
  BY <1>4, QuietStep DEF intakeVars
<1> QED BY <1>1, <1>2, <1>3, <1>4 DEF IntakeNext

(* While a backup works no stream is lost to a broken backend, whatever the *)
(* order of the backends and however many streams share the detector, unless *)
(* a backend broke during the very call or another thread's failover crossed *)
(* it (_predict_with_fallback()).                                          *)
THEOREM BackupsSaveStreams == IntakeSpec => []FailsOnlyWithoutBackup
<1>1. IntakeSpec => []FailoverInv
  BY FailoverInit, FailoverStep, PTL DEF IntakeSpec
<1>2. FailoverInv => FailsOnlyWithoutBackup
  BY DEF FailoverInv
<1> QED BY <1>1, <1>2, PTL
=============================================================================
