------------------------------ MODULE MCCapture ------------------------------
(* A session of Claude, alone or with one of Kimi, and two of Kimi, which     *)
(* share a watermark file.  With two sessions, no faults.                     *)
EXTENDS Capture
CONSTANTS c1, k1, k2
HostOf == [s \in Sessions |-> IF s = c1 THEN "claude" ELSE "kimi"]
TogetherBound == {{c1}, {c1, k1}, {k1, k2}}
FaultBound == <<2, 0>>
RequestBound == <<2, 0>>
=============================================================================
