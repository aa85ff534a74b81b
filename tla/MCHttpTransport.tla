--------------------------- MODULE MCHttpTransport ---------------------------
(* Small instances of HttpTransport.                                       *)
EXTENDS HttpTransport

CONSTANTS r1, r2, r3

\* The server asks for a moment, for longer than is granted, and for the past.
MCRetryAfters == {-1, 1, 4}
MCRequests == {r1, r2, r3}
TwoOfThree == {r1, r2}
OneOfTwo == {r1, r3}
=============================================================================
