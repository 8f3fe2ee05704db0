--------------------------- MODULE MCConfigStore ----------------------------
(***************************************************************************)
(* Two ranks and one key, which is what the waiters of a key, its creation *)
(* and its removal need to meet.  One rank reads: it watches the key, and  *)
(* its GETs do not wait, time out, wait for ever or ask for a timeout the  *)
(* server refuses.  The other writes in every way there is.  Both remove.  *)
(***************************************************************************)
EXTENDS ConfigStore, TLC

CONSTANTS ok, k, reader, writer

Op(mt, value, expect, timeout, watch) ==
  [mt |-> mt, key |-> k, value |-> value, expect |-> expect,
   timeout |-> timeout, watch |-> watch]

Remove == Op("REMOVE", <<>>, <<>>, 0, FALSE)

MCReads == {Remove, Op("GET", <<>>, <<>>, -1, TRUE)} \cup
  {Op("GET", <<>>, <<>>, t, FALSE) : t \in {-1, 0, MaxTimeout, MaxTimeout + 1}}

MCWrites ==
  {Remove, Op("SET", <<ok>>, <<>>, 0, FALSE), Op("ADD", <<1>>, <<>>, 0, FALSE),
   Op("APPEND", <<ok>>, <<>>, 0, FALSE),
   Op("CAS", <<1>>, <<>>, 0, FALSE), Op("CAS", <<1>>, <<ok>>, 0, FALSE)}

MCOperations == reader :> MCReads @@ writer :> MCWrites

\* Both ranks read, with timeouts that end one after the other.
MCTimedReads == [c \in {reader, writer} |->
                   {Op("GET", <<>>, <<>>, t, FALSE) : t \in {1, MaxTimeout}}]
=============================================================================
