------------------------- MODULE MCRecordingSession -------------------------
(* RecordingSession on a small instance.                                    *)
EXTENDS RecordingSession
=============================================================================
