---------------------------- MODULE ContextDelegate ----------------------------
(***************************************************************************)
(* What a decoder's ContextDelegate promises to callers who keep to         *)
(* context_delegate.h:21-66: no call ends the process, except that Run may  *)
(* refuse work of a kind the delegate does not support; Run executes the    *)
(* work enqueued since the last one and nothing of an earlier one; it       *)
(* makes at most one frame of that work, and each frame is output at most   *)
(* once, now or in a later Run, to the surface that was the target of its   *)
(* own work, whatever targets have been set since.                          *)
(***************************************************************************)

CONSTANTS
  Surfaces,
  Buffers,
  Frames,       \* names for frames that are made and not output yet
  Unsupported,  \* buffers that make Run refuse the work they are part of
  Nil

VARIABLES
  phase,     \* "idle", "running" while Run has not returned, or "refused" if it
             \* ended the process
  target,    \* the render target, Nil before there is one
  enqueued,  \* the buffers of the work enqueued
  executed,  \* those Run works on, until it has made the frame
  frames,    \* the target of each frame that is still to be output
  output     \* the surface a frame is being output to, Nil if none is

vars == <<phase, target, enqueued, executed, frames, output>>

NoFrames == [f \in {} |-> Nil]

Init ==
  /\ phase = "idle" /\ target = Nil
  /\ enqueued = {} /\ executed = {}
  /\ frames = NoFrames /\ output = Nil

SetRenderTarget(surface) ==
  /\ phase = "idle" /\ enqueued = {}
  /\ target' = surface
  /\ UNCHANGED <<phase, enqueued, executed, frames, output>>

\* VA-API users enqueue the buffers of a picture in several calls.
EnqueueWork(buffers) ==
  /\ phase = "idle" /\ target # Nil
  /\ buffers \cap enqueued = {}
  /\ enqueued' = enqueued \cup buffers
  /\ UNCHANGED <<phase, target, executed, frames, output>>

Run ==
  /\ phase = "idle" /\ phase' = "running"
  /\ executed' \in (SUBSET enqueued) \ {{}}
  /\ UNCHANGED <<target, enqueued, frames, output>>

\* The process ends in Run.
Refuse ==
  /\ phase = "idle" /\ phase' = "refused"
  /\ enqueued \cap Unsupported # {}
  /\ UNCHANGED <<target, enqueued, executed, frames, output>>

MakeFrame(f) ==
  /\ phase = "running" /\ executed # {}
  /\ f \notin DOMAIN frames
  /\ executed' = {}
  /\ frames' = [g \in DOMAIN frames \cup {f} |-> IF g = f THEN target ELSE frames[g]]
  /\ UNCHANGED <<phase, target, enqueued, output>>

StartOutput(f) ==
  /\ phase = "running" /\ output = Nil
  /\ f \in DOMAIN frames
  /\ output' = frames[f]
  /\ frames' = [g \in DOMAIN frames \ {f} |-> frames[g]]
  /\ UNCHANGED <<phase, target, enqueued, executed>>

EndOutput ==
  /\ output # Nil /\ output' = Nil
  /\ UNCHANGED <<phase, target, enqueued, executed, frames>>

\* A Run that fails drops all frames that are still to be output.
RunReturns ==
  /\ phase = "running" /\ phase' = "idle"
  /\ output = Nil
  /\ enqueued' = {} /\ executed' = {}
  /\ frames' \in {frames, NoFrames}
  /\ UNCHANGED <<target, output>>

\* The delegate is destroyed and another one constructed.
Replaced ==
  /\ phase = "idle"
  /\ target' = Nil /\ enqueued' = {} /\ frames' = NoFrames
  /\ UNCHANGED <<phase, executed, output>>

Next ==
  \/ \E surface \in Surfaces : SetRenderTarget(surface)
  \/ \E buffers \in (SUBSET Buffers) \ {{}} : EnqueueWork(buffers)
  \/ \E f \in Frames : MakeFrame(f) \/ StartOutput(f)
  \/ Run \/ Refuse \/ EndOutput \/ RunReturns \/ Replaced

Spec == Init /\ [][Next]_vars
================================================================================
