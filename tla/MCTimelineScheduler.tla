----------------------- MODULE MCTimelineScheduler ------------------------
(* Three requests for one slot.                                            *)
EXTENDS TimelineScheduler

CONSTANTS r1, r2, r3, s1

FewRequests == {r1, r2, r3}
=============================================================================
