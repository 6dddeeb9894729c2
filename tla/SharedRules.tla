----------------------------- MODULE SharedRules -----------------------------
(***************************************************************************)
(* What the clients of a shared session may do to its triggers             *)
(* (proxy/server.py, SPEC S47), and the connection they do it through.     *)
(*                                                                         *)
(* A handler thread per connection serves its requests in order.  A watch  *)
(* is added at once.  A rule that acts is put to the session's owner by a  *)
(* thread of its own, which adds, approves and answers in three steps,     *)
(* whatever has become of the connection and of the share.                 *)
(*                                                                         *)
(* A connection is the two streams toServer and toClient; the queue the    *)
(* server keeps for a client and what is on its way to it are one.  How    *)
(* connections are accepted and end on the server is in ProxyServer; here  *)
(* a connection is up, closed (by either end), or silent: half open, and   *)
(* nothing comes through any more.  Requests are numbered; answers do not  *)
(* carry the number, "about" is there to state properties.                 *)
(***************************************************************************)
EXTENDS Naturals, Sequences, FiniteSets

CONSTANTS
  MaxWatches,   \* TriggerPolicy.max_watches
  Asks,         \* whether the owner supplies TriggerPolicy.propose
  QueueMax,     \* the messages kept for a client that does not read
  States,       \* the states of the device a status may tell of
  MaxConns,     \* bound: connections made
  MaxRequests,  \* bound: requests sent
  MaxSaid       \* bound: messages published of what the device does

ASSUME PolicyAssumption == MaxWatches \in Nat /\ Asks \in BOOLEAN /\ QueueMax \in Nat \ {0}
ASSUME StatesAssumption == "connected" \in States
ASSUME ShareBounds == MaxConns \in Nat \ {0} /\ MaxRequests \in Nat /\ MaxSaid \in Nat

Conns    == 1..MaxConns
Requests == 1..MaxRequests

VARIABLES
  share,      \* the proxy: on, stopping (its clients are shut down), off
  link,       \* each connection: none, up, silent, closed
  handler,    \* its handler thread: none, serving, leaving, gone
  toServer,   \* requests on their way
  toClient,   \* messages queued for it or on their way
  rules,      \* the rules in the session's table that clients added
  proposal,   \* where the thread that decides on each proposal is
  device,     \* the state of the device last published
  said,       \* messages published so far
  late        \* ghost: proposals whose rule was added after the client's rules were removed

server == <<share, link, handler, toServer, toClient, rules, proposal, device, said, late>>

RuleKinds    == {"watch", "rule"}
RequestKinds == {"watch_add", "watch_remove", "watch_list", "rule_propose"}

\* A request as sent; target is the watch that watch_remove names.
Request == [is : RequestKinds, about : Requests, target : Requests]
Answer  == [is : {"watch_ok", "watch_fail", "watch_list"}, about : Requests, status : {"done"}]
             \union [is : {"proposal"}, about : Requests,
                     status : {"refused", "pending", "declined", "accepted"}]
Told    == [is : {"line", "prompt", "pong", "trigger"}] \union [is : {"status"}, state : States]

ShareTypeOK ==
  /\ share \in {"on", "stopping", "off"}
  /\ link \in [Conns -> {"none", "up", "silent", "closed"}]
  /\ handler \in [Conns -> {"none", "serving", "leaving", "gone"}]
  /\ toServer \in [Conns -> Seq(Request)]
  /\ toClient \in [Conns -> Seq(Answer \union Told)] /\ \A c \in Conns : Len(toClient[c]) <= QueueMax
  /\ rules \subseteq [id : Requests, kind : RuleKinds, conn : Conns, approved : BOOLEAN]
  /\ proposal \in [Requests -> [step : {"none", "asking", "added", "approved", "done"},
                                conn : Conns]]
  /\ device \in States
  /\ said \in 0..MaxSaid
  /\ late \subseteq Requests

ShareInit ==
  /\ share    = "on"
  /\ link     = [c \in Conns |-> "none"]
  /\ handler  = [c \in Conns |-> "none"]
  /\ toServer = [c \in Conns |-> <<>>]
  /\ toClient = [c \in Conns |-> <<>>]
  /\ rules    = {}
  /\ proposal = [r \in Requests |-> [step |-> "none", conn |-> 1]]
  /\ device   \in States
  /\ said     = 0
  /\ late     = {}

-----------------------------------------------------------------------------
(* Messages to clients *)

\* _reply(): what does not fit in the queue is dropped, and nobody is told.
Reply(c, msg) ==
  toClient' = IF link[c] = "up" /\ Len(toClient[c]) < QueueMax
                THEN [toClient EXCEPT ![c] = Append(@, msg)] ELSE toClient

\* A connection that is closed: the client may still read what had been sent, which is a
\* beginning of what it had not read.
CloseLink(c, sent) ==
  /\ sent \in 0..Len(toClient[c])
  /\ link'     = [link EXCEPT ![c] = "closed"]
  /\ toClient' = [toClient EXCEPT ![c] = SubSeq(@, 1, sent)]

\* _on_event(): one message for each client; one whose queue is full is dropped.
Publish(msg) ==
  /\ said < MaxSaid
  /\ said' = said + 1
  /\ LET served == {c \in Conns : link[c] = "up"}
         full   == {c \in served : Len(toClient[c]) = QueueMax}
     IN /\ toClient' = [c \in Conns |-> IF c \in served \ full THEN Append(toClient[c], msg)
                                        ELSE toClient[c]]
        /\ link' = [c \in Conns |-> IF c \in full THEN "closed" ELSE link[c]]
  /\ UNCHANGED <<share, handler, toServer, rules, proposal, late>>

\* The device ends a line, begins one (a prompt), or makes a rule fire.
DeviceSays(kind) ==
  /\ device = "connected"
  /\ Publish([is |-> kind])
  /\ UNCHANGED device

\* The session publishes a status; device_health() tells the same from then on.
StatusChanges(state) ==
  /\ state # device
  /\ Publish([is |-> "status", state |-> state])
  /\ device' = state

-----------------------------------------------------------------------------
(* A handler thread *)

\* The next request is taken off the stream and answered.
Serve(c, kind) ==
  /\ handler[c] = "serving"
  /\ toServer[c] # <<>>
  /\ Head(toServer[c]).is = kind
  /\ toServer' = [toServer EXCEPT ![c] = Tail(@)]
  /\ UNCHANGED <<share, link, handler, device, said>>

About(c) == Head(toServer[c]).about

\* _own_watches()
Own(c) == {r \in rules : r.conn = c /\ r.kind = "watch"}

AnswerWatch(c, is) == Reply(c, [is |-> is, about |-> About(c), status |-> "done"])

\* No watch is one too many, and one that normalise() refuses is added no more than those.
RefuseWatch(c) ==
  /\ Serve(c, "watch_add")
  /\ AnswerWatch(c, "watch_fail")
  /\ UNCHANGED <<rules, proposal, late>>

AddWatch(c) ==
  /\ Serve(c, "watch_add")
  /\ Cardinality(Own(c)) < MaxWatches
  /\ rules' = rules \union {[id |-> About(c), kind |-> "watch", conn |-> c, approved |-> FALSE]}
  /\ AnswerWatch(c, "watch_ok")
  /\ UNCHANGED <<proposal, late>>

\* Only a client's own watches are its to remove.
RemoveWatch(c) ==
  /\ Serve(c, "watch_remove")
  /\ LET named == {r \in Own(c) : r.id = Head(toServer[c]).target}
     IN /\ rules' = rules \ named
        /\ AnswerWatch(c, IF named = {} THEN "watch_fail" ELSE "watch_ok")
  /\ UNCHANGED <<proposal, late>>

ListWatches(c) ==
  /\ Serve(c, "watch_list")
  /\ AnswerWatch(c, "watch_list")
  /\ UNCHANGED <<rules, proposal, late>>

Tell(p, status) ==
  Reply(proposal[p].conn, [is |-> "proposal", about |-> p, status |-> status])

\* For one that may not send, nobody to ask, or a rule normalise() refuses.
RefuseProposal(c) ==
  /\ Serve(c, "rule_propose")
  /\ Reply(c, [is |-> "proposal", about |-> About(c), status |-> "refused"])
  /\ UNCHANGED <<rules, proposal, late>>

\* The client is told that it is pending before the owner is asked.
TakeProposal(c) ==
  /\ Asks
  /\ Serve(c, "rule_propose")
  /\ Reply(c, [is |-> "proposal", about |-> About(c), status |-> "pending"])
  /\ proposal' = [proposal EXCEPT ![About(c)] = [step |-> "asking", conn |-> c]]
  /\ UNCHANGED <<rules, late>>

\* Bug: the rules of a client are left behind when it goes.
LeavesAtOnce(c) ==
  /\ handler[c] = "leaving"
  /\ handler' = [handler EXCEPT ![c] = "gone"]
  /\ UNCHANGED <<share, link, toServer, toClient, rules, proposal, device, said, late>>

\* The end of _handle_client(): what the client added goes with it.
RemoveLeft(c) ==
  /\ handler[c] = "leaving"
  /\ handler' = [handler EXCEPT ![c] = "gone"]
  /\ rules'   = {r \in rules : r.conn # c}
  /\ UNCHANGED <<share, link, toServer, toClient, proposal, device, said, late>>

\* The reader loop ends; requests that came before the end of the stream may be served first.
Leave(c) ==
  /\ handler[c] = "serving"
  /\ link[c] = "closed"
  /\ handler'  = [handler EXCEPT ![c] = "leaving"]
  /\ toServer' = [toServer EXCEPT ![c] = <<>>]
  /\ UNCHANGED <<share, link, toClient, rules, proposal, device, said, late>>

-----------------------------------------------------------------------------
(* The thread that decides on a proposal *)

Step(p, from, to) ==
  /\ proposal[p].step = from
  /\ proposal' = [proposal EXCEPT ![p].step = to]
  /\ UNCHANGED <<share, link, handler, toServer, device, said>>

\* The owner, who may take long, says no; that the callback fails comes to the same.
Decline(p) ==
  /\ Step(p, "asking", "done")
  /\ Tell(p, "declined")
  /\ UNCHANGED <<rules, late>>

\* Or yes, and triggers.add() puts the rule in the table, not approved yet.
AddAgreed(p) ==
  /\ Step(p, "asking", "added")
  /\ rules' = rules \union
       {[id |-> p, kind |-> "rule", conn |-> proposal[p].conn, approved |-> FALSE]}
  /\ late' = IF share = "off" \/ handler[proposal[p].conn] = "gone" THEN late \union {p} ELSE late
  /\ UNCHANGED toClient

\* triggers.approve() of a rule that is still there.
ApproveAdded(p) ==
  /\ \E r \in rules :
       /\ r.id = p
       /\ rules' = (rules \ {r}) \union {[r EXCEPT !.approved = TRUE]}
  /\ Step(p, "added", "approved")
  /\ UNCHANGED <<toClient, late>>

\* It was removed in between: approve() raises, and the thread ends without an answer.
ApproveRaises(p) ==
  /\ \A r \in rules : r.id # p
  /\ Step(p, "added", "done")
  /\ UNCHANGED <<toClient, rules, late>>

\* Bug: accepted is told as soon as the rule is in the table.
AnswersWhenAdded(p) ==
  /\ proposal[p].step \in {"added", "approved"}
  /\ proposal' = [proposal EXCEPT ![p].step = "done"]
  /\ Tell(p, "accepted")
  /\ UNCHANGED <<share, link, handler, toServer, device, said, rules, late>>

AnswerAccepted(p) ==
  /\ Step(p, "approved", "done")
  /\ Tell(p, "accepted")
  /\ UNCHANGED <<rules, late>>

Decide(p) ==
  \/ Decline(p) \/ AddAgreed(p) \/ ApproveAdded(p) \/ ApproveRaises(p) \/ AnswerAccepted(p)

-----------------------------------------------------------------------------
(* The share *)

\* stop(): the clients are shut down; what their sockets had taken may still arrive.
StopShare ==
  /\ share = "on"
  /\ share' = "stopping"
  /\ link'  = [c \in Conns |-> IF link[c] = "none" THEN "none" ELSE "closed"]
  /\ \E sent \in [Conns -> 0..QueueMax] :
       /\ \A c \in Conns : sent[c] <= Len(toClient[c])
       /\ toClient' = [c \in Conns |-> SubSeq(toClient[c], 1, sent[c])]
  /\ UNCHANGED <<handler, toServer, rules, proposal, device, said, late>>

\* remove_where(): every rule the clients of this share added.
StopRemovesRules ==
  /\ share = "stopping"
  /\ share' = "off"
  /\ rules' = {}
  /\ UNCHANGED <<link, handler, toServer, toClient, proposal, device, said, late>>

\* The network goes: neither end is told.
LinkGoesSilent(c) ==
  /\ link[c] = "up"
  /\ link' = [link EXCEPT ![c] = "silent"]
  /\ UNCHANGED <<share, handler, toServer, toClient, rules, proposal, device, said, late>>

ServerHandles(c) ==
  \/ RefuseWatch(c) \/ AddWatch(c) \/ RemoveWatch(c) \/ ListWatches(c)
  \/ RefuseProposal(c) \/ TakeProposal(c) \/ Leave(c) \/ RemoveLeft(c)

-----------------------------------------------------------------------------
(* What the server promises *)

\* PROTOCOL.md:172-173: a client's watches end when it disconnects, and what an AI added when
\* the share stops.  The one thing left is a rule whose owner agreed after that, which the
\* code adds all the same (server.py:583-593).
NothingOutlivesItsClient ==
  \A r \in rules :
    share = "off" \/ handler[r.conn] = "gone" =>
      \/ r.kind = "rule" /\ r.id \in late
      \/ share = "off" /\ handler[r.conn] \in {"serving", "leaving"}
=============================================================================
