----------------------------- MODULE LinkPromise ----------------------------
(***************************************************************************)
(* What a link of acc_links promises to the threads that send over it and  *)
(* to the request handlers it calls (Link): the messages an end accepts,   *)
(* those it was handed and those it reports as not sent, and no word of    *)
(* queues, events and sockets.                                             *)
(***************************************************************************)
EXTENDS Integers, Sequences

CONSTANTS Ends,        \* the two ends of the link
          Threads,     \* the threads that send
          MaxSends     \* bound on the calls of one thread

VARIABLES accepted,     \* per end, the messages put into its queue
          delivered,    \* per end, what its request handler was called with
          reported      \* per end, the messages reported as MSG_LINK_BROKEN

Peer(e) == CHOOSE p \in Ends : p # e

Messages == Threads \X (1..MaxSends)

\* A message reported as not sent because the link broke (MSG_LINK_BROKEN of
\* HandleLinkBroken) was not delivered, so that its sender may send it again.
ReportedNotDelivered ==
  \A e \in Ends : \A i \in DOMAIN delivered[e] : delivered[e][i] \notin reported[Peer(e)]

\* The link is a channel: whole messages, once, in order.
AbstractChannel == INSTANCE Channel
ImplementsChannel == AbstractChannel!Spec
=============================================================================
