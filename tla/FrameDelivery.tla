--------------------------- MODULE FrameDelivery ---------------------------
(***************************************************************************)
(* What request_frame() (from.c:44-158) promises its callers, whatever the *)
(* line protocol below it looks like: the terminal owns a frame (metadata  *)
(* followed by data payloads), the caller receives a growing prefix of it, *)
(* and the boolean result is true only for a frame that arrived whole.     *)
(***************************************************************************)
EXTENDS Naturals, Sequences

CONSTANT Payload            \* what a metadata or data line carries

VARIABLES source,           \* what the terminal has put into the frame so far
          closed,           \* the terminal has declared the frame complete
          delivered,        \* metadata and body handed to the caller
          outcome           \* "pending", or the result of request_frame()

vars == <<source, closed, delivered, outcome>>

TypeOK == /\ source \in Seq(Payload)
          /\ closed \in BOOLEAN
          /\ delivered \in Seq(Payload)
          /\ outcome \in {"pending", "true", "false"}

Init == /\ source = <<>>
        /\ closed = FALSE
        /\ delivered = <<>>
        /\ outcome = "pending"

\* The terminal adds a payload to a frame it has not completed.
Extend == /\ ~closed
          /\ \E p \in Payload : source' = Append(source, p)
          /\ UNCHANGED <<closed, delivered, outcome>>

\* The terminal completes the frame.
Close == /\ ~closed
         /\ closed' = TRUE
         /\ UNCHANGED <<source, delivered, outcome>>

\* The caller is handed the next payload: none is skipped, repeated or altered.
Deliver == /\ outcome = "pending"
           /\ Len(delivered) < Len(source)
           /\ delivered' = Append(delivered, source[Len(delivered) + 1])
           /\ UNCHANGED <<source, closed, outcome>>

\* Success: only for a complete frame of which nothing is missing.
Succeed == /\ outcome = "pending"
           /\ closed
           /\ delivered = source
           /\ outcome' = "true"
           /\ UNCHANGED <<source, closed, delivered>>

\* Failure is allowed at any time; what was delivered stays delivered.
Fail == /\ outcome = "pending"
        /\ outcome' = "false"
        /\ UNCHANGED <<source, closed, delivered>>

Next == Extend \/ Close \/ Deliver \/ Succeed \/ Fail

Spec == Init /\ [][Next]_vars
=============================================================================
