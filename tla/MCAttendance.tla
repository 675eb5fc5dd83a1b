---------------------------- MODULE MCAttendance -----------------------------
(* Two conversations, one of which the searched text finds. *)
EXTENDS Attendance

CONSTANTS a, b
=============================================================================
