--------------------------- MODULE MCTimerThread ---------------------------
(* A one-shot timer of one block and a periodic timer of another. *)
EXTENDS TimerThread

CONSTANTS t1, t2, k1, k2, s1

MCTimers  == {t1, t2}
MCBlocks  == {k1, k2}
MCOwnerOf == [t \in MCTimers |-> IF t = t1 THEN k1 ELSE k2]
MCPeriod  == [t \in MCTimers |-> IF t = t1 THEN 0 ELSE 2]
MCOneSource  == {s1}
MCNoSource   == {}
MCBothClocks == {"WALL", "PACKET"}
MCWall       == {"WALL"}
=============================================================================
