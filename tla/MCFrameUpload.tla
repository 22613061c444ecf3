--------------------------- MODULE MCFrameUpload ---------------------------
\* Instances of FrameUpload for TLC.
EXTENDS FrameUpload

CONSTANTS none, p1, p2

MCPayload == {none, p1, p2}

\* Corruption that may turn a line into any but an "#E:" line.
KindsButEnd == Kinds \ {"E"}
=============================================================================
