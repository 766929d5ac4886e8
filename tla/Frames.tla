------------------------------- MODULE Frames -------------------------------
(***************************************************************************)
(* encode_frame, decode_frame and enforce_max_size, of which the relay,     *)
(* DCUtR and AutoNAT crates have a copy each.                               *)
(*                                                                         *)
(* Abstractions.  A message is [kind, body]; its frame is FrameLen units of *)
(* data, so that a transport can cut it anywhere.  A message of kind        *)
(* "malformed" has a body the decoder refuses, one of kind "garbage" starts *)
(* with no length at all.  Other units are data behind the frames.          *)
(***************************************************************************)
EXTENDS Naturals, Sequences

CONSTANTS
    FrameLen,  \* units of data in an encoded frame
    MaxSize,   \* MAX_MESSAGE_SIZE, in units
    None

ASSUME FramesAssumption == FrameLen \in Nat \ {0} /\ MaxSize \in Nat /\ MaxSize >= FrameLen

Message(kind, body) == [kind |-> kind, body |-> body]

EncodeFrame(msg) == [i \in 1 .. FrameLen |-> [msg |-> msg, part |-> i]]

Data(first, last) == [i \in 1 .. last + 1 - first |-> [data |-> first + i - 1]]

IsFrameUnit(u) == "msg" \in DOMAIN u

\* decode_frame
DecodeFrame(buf) ==
    CASE buf = << >> -> "Incomplete"
      [] buf # << >> /\ (~IsFrameUnit(buf[1]) \/ buf[1].part # 1 \/ buf[1].msg.kind = "garbage") ->
           "Error"
      [] OTHER -> IF Len(buf) < FrameLen THEN "Incomplete" ELSE "Complete"

\* A decoder gets no further than this: enforce_max_size counts the whole
\* buffer, with whatever has come in behind the frame; then the frame and the
\* message in it are decoded.
Decode(buf) ==
    CASE Len(buf) > MaxSize -> "MessageTooLarge"
      [] Len(buf) <= MaxSize /\ DecodeFrame(buf) = "Error" -> "Malformed"
      [] Len(buf) <= MaxSize /\ DecodeFrame(buf) = "Incomplete" -> "Incomplete"
      [] Len(buf) <= MaxSize /\ DecodeFrame(buf) = "Complete" ->
           IF buf[1].msg.kind = "malformed" THEN "Malformed" ELSE "Complete"

\* The message in front and what is left when it is drained.
FrontOf(buf) == buf[1].msg
RestOf(buf) == SubSeq(buf, FrameLen + 1, Len(buf))

\* What handle_input returns: the flow and whether there was no error.
Ok(flow) == [flow |-> flow, ok |-> TRUE]
Err(flow) == [flow |-> flow, ok |-> FALSE]
\* What poll_output returns: the flow and its output, if any.
Output(flow, kind, value) == [flow |-> flow, out |-> [kind |-> kind, value |-> value]]
Nothing(flow) == [flow |-> flow, out |-> None]
=============================================================================
