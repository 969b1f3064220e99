----------------------------- MODULE MCTaskBoard -----------------------------
(***************************************************************************)
(* TaskBoard with two tasks or two lists, two moves and one form.          *)
(***************************************************************************)
EXTENDS TaskBoard

\* At most one of these at a time: another client wrote, a row lapsed or was
\* fetched unasked, the connection is gone.
OneDisturbance == others + lapses + (IF online THEN 0 ELSE 1) <= 1
=============================================================================
