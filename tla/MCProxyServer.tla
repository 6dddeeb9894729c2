---------------------------- MODULE MCProxyServer ----------------------------
(***************************************************************************)
(* ProxyServer with a few connections, and a statement of the repository   *)
(* that its history does not keep.                                         *)
(***************************************************************************)
EXTENDS ProxyServer, TLC

CONSTANTS c1, c2
MCConns == {c1, c2}

\* Two that may type, interchangeable; or one that may and one that only reads.
AllFull     == [c \in MCConns |-> "full"]
OneReadOnly == [c \in MCConns |-> IF c = c1 THEN "full" ELSE "readonly"]
Alike == Permutations(MCConns)

\* server.py:431-434, "whatever the device says from now on waits in this client's queue
\* (...), and the replay is what came before": between the two, a client that asked for
\* more history than there is, and is about to be shown it, misses nothing of it.
NothingLostAtJoin ==
  \A c \in clients :
    /\ pc[c] = "joining" /\ Len(toSend[c]) > 1 /\ Head(toSend[c]) = Other
    /\ chunks <= ReplayMax /\ reader = "reading" /\ pending = <<>> /\ Subscribed
    => LiveComing(c) = 1..chunks
=============================================================================
