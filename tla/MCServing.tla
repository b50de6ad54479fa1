----------------------------- MODULE MCServing -----------------------------
(* Serving.tla for TLC: what an engine's server may send. *)
EXTENDS Serving

Says(text, why, usage) == [text |-> text, why |-> why, usage |-> usage]
Chunk(content, also)   == [content |-> content, rest |-> also]

(* Text alone; reasoning; text with the finish reason in the same chunk;    *)
(* the reason alone, or with reasoning; usage blocks of each form.          *)
SentChunks ==
    {Chunk(TRUE, Nothing),
     Chunk(TRUE, Says(FALSE, "stop", "absent")),
     Chunk(FALSE, Says(TRUE, "none", "absent")),
     Chunk(FALSE, Says(TRUE, "length", "absent")),
     Chunk(FALSE, Says(FALSE, "stop", "absent")),
     Chunk(FALSE, Says(FALSE, "none", "full")),
     Chunk(FALSE, Says(FALSE, "none", "partial")),
     Chunk(FALSE, Says(FALSE, "none", "malformed"))}
=============================================================================
