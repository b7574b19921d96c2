------------------------------ MODULE Channels ------------------------------
(***************************************************************************)
(* The two ways of an RPC client to its server, a pool of connections that *)
(* each serve one call, and one connection that is shared; and what goes   *)
(* through connections of any kind: how a stream is cut into frames, and   *)
(* how values are written in formats.  A behaviour is one of these, which  *)
(* the first state chooses.                                                *)
(***************************************************************************)
EXTENDS ConnPool, Pipeline, Formats, TLC

VARIABLE way   \* what is looked at

channelsVars == <<way, connPoolVars, pipelineVars, framingVars, formatVars>>

Init ==
  /\ way \in {"pool", "pipeline", "framing", "formats"}
  /\ ConnPoolInit /\ PipelineInit /\ FramingInit
  /\ way # "pool" => size = MaxConns
  /\ way # "framing" => format = "tcp" /\ frames = <<>>
  /\ IF way = "formats" THEN FormatInit ELSE FormatIdle

\* w is used, and nothing else changes.
Using(w) ==
  /\ way = w /\ UNCHANGED way
  /\ IF w = "pool" THEN TRUE ELSE UNCHANGED connPoolVars
  /\ IF w = "pipeline" THEN TRUE ELSE UNCHANGED pipelineVars
  /\ IF w = "framing" THEN TRUE ELSE UNCHANGED framingVars
  /\ IF w = "formats" THEN TRUE ELSE UNCHANGED formatVars

UsePool     == Using("pool") /\ ConnPoolNext
UsePipeline == Using("pipeline") /\ PipelineNext
UseFraming  == Using("framing") /\ FramingNext
UseFormats  == Using("formats") /\ FormatNext

Next == UsePool \/ UsePipeline \/ UseFraming \/ UseFormats

Spec == Init /\ [][Next]_channelsVars

\* Callers are interchangeable, and so are connections: the configuration
\* gives both ways the same of either.
Symm == Permutations(Callers) \cup Permutations(Conns)

\* A stream may be cut anywhere, and what is written in a format is read again as
\* what it was.
ChannelsInv == CuttingInv /\ FormatInv
=============================================================================
