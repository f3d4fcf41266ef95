----------------------------- MODULE Protocols -----------------------------
(***************************************************************************)
(* The two protocols the servers speak above a stream: the messages of a   *)
(* MsgServer and its client (Rpc), and the frames of a WebSocket           *)
(* (WSFrame).  A behaviour has one of them.                                *)
(***************************************************************************)
EXTENDS Rpc

CONSTANTS Half, Width2, Width8, Frames, Lead, MaxFrames  \* see WSFrame

VARIABLES spoken,     \* "messages" or "frames"
          frames, taken, cur_frame, output, open, tame   \* see WSFrame

W == INSTANCE WSFrame

ASSUME FramesAssumption == W!WSFrameAssumption

ws == <<frames, taken, cur_frame, output, open, tame>>

ProtocolsInit == spoken \in {"messages", "frames"} /\ Init /\ W!Init

ProtocolsNext ==
  \/ spoken = "messages" /\ Next /\ UNCHANGED <<spoken, ws>>
  \/ spoken = "frames" /\ W!Next /\ UNCHANGED <<spoken, vars>>

ProtocolsSpec == /\ ProtocolsInit /\ [][ProtocolsNext]_<<spoken, vars, ws>>
                 /\ WF_up(ServerTakes) /\ WF_down(ClientTakes)

\* WSFrame.on_read and make_frame_data: frames are answered right, whatever the
\* cuts (see the module).
FramesArrive == W!FramesArrive
=============================================================================
