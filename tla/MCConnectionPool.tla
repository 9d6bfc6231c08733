--------------------------- MODULE MCConnectionPool ----------------------------
(* Two requests, a goroutine of the event path and the listener, over      *)
(* three connections.                                                      *)
EXTENDS ConnectionPool

CONSTANTS c1, c2, w1

==============================================================================
