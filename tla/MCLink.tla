------------------------------- MODULE MCLink -------------------------------
(***************************************************************************)
(* A link over which one end sends, on two threads, and a link over which  *)
(* both ends send, on one thread each.  Header and body may arrive in two  *)
(* parts; a socket holds a whole message and more on the first link and    *)
(* less than a message on the second.                                      *)
(***************************************************************************)
EXTENDS Link, TLC

CONSTANTS a, b, t1, t2

MCOneWay == t1 :> a @@ t2 :> a
MCBothWays == t1 :> a @@ t2 :> b
=============================================================================
