--------------------------- MODULE MCAmqpTransport ---------------------------
(* Small instances of AmqpTransport for TLC. *)
EXTENDS AmqpTransport

CONSTANTS ping, info, img1, img2, odd, bad

\* An inquiry and image requests, of which one cannot be used.
ImageQueue == [m \in Messages |-> IF m = info THEN "GetAppInfo" ELSE "ProcessImage"]
ImageBody == [m \in Messages |-> IF m = odd THEN "bad" ELSE "good"]

\* Three pings, of which one is refused and the parser throws at another, and
\* image requests.
MixedQueue ==
  [m \in Messages |-> IF m \in {ping, odd, bad} THEN "Ping" ELSE "ProcessImage"]
MixedBody ==
  [m \in Messages |-> IF m = bad THEN "bad" ELSE IF m = odd THEN "garbled" ELSE "good"]
=============================================================================
