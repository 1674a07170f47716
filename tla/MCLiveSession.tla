--------------------------- MODULE MCLiveSession ----------------------------
(* Two symbols and room for one message, so a sweep fills the queue; two    *)
(* errors halt; three or four bells, so a session, its night and the next.  *)
EXTENDS LiveSession

CONSTANTS A, B

MCWatched == <<A, B>>
=============================================================================
