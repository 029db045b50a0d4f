----------------------------- MODULE DummyNode -----------------------------
(***************************************************************************)
(* The sensor nodes on the IP side (dummynode_SSimp/src/dummynode.c,       *)
(* operations.c).  A node process listens on two ports, announces itself   *)
(* with one UDP Hello, takes one connection for events and one for         *)
(* operations, and serves them until it exits.  The Hello datagrams queue  *)
(* at the gateway's discovery socket; what a node has sent on its two      *)
(* connections waits in the kernel until the gateway reads it.             *)
(***************************************************************************)
CONSTANTS Node,         \* node processes
          LossyNodes,   \* nodes whose Hello the network may lose
          SilentNodes   \* nodes started with simerror: they ignore operations

ASSUME NodeAssumption == LossyNodes \subseteq Node /\ SilentNodes \subseteq Node

VARIABLES
  node,     \* life of each node process
  helloq,   \* nodes whose Hello is queued at the discovery socket
  evq,      \* nodes with an event waiting in the event connection
  opq       \* what waits in the operation connection of each node

nodeVars == << node, helloq, evq, opq >>

(* "half": the event connection was made, the one for operations was not.  *)
NodeState == { "off", "listening", "half", "up", "gone" }

NodeTypeOK ==
  /\ node \in [Node -> NodeState]
  /\ helloq \in SUBSET Node
  /\ evq \in SUBSET Node
  /\ opq \in [Node -> { "idle", "request", "reply" }]

NodeInit ==
  /\ node = [n \in Node |-> "off"]
  /\ helloq = {}
  /\ evq = {}
  /\ opq = [n \in Node |-> "idle"]

NodeStart_ForgetsHello(n) ==
  /\ node[n] = "off"
  /\ node' = [node EXCEPT ![n] = "listening"]
  /\ UNCHANGED << helloq, evq, opq >>

(* Both listeners are open and send_hello_msg is called, this once.  *)
NodeStart(n) ==
  /\ node[n] = "off"
  /\ node' = [node EXCEPT ![n] = "listening"]
  /\ \/ helloq' = helloq \cup { n }
     \/ n \in LossyNodes /\ UNCHANGED helloq
  /\ UNCHANGED << evq, opq >>

(* Thirteen milliseconds without anything to read: send_event. *)
NodeEvent(n) ==
  /\ node[n] \in { "half", "up" }
  /\ opq[n] # "request"
  /\ n \notin evq
  /\ evq' = evq \cup { n }
  /\ UNCHANGED << node, helloq, opq >>

(* handle_request reads the operation and sends the reply.  *)
NodeAnswer(n) ==
  /\ node[n] = "up"
  /\ n \notin SilentNodes
  /\ opq[n] = "request"
  /\ opq' = [opq EXCEPT ![n] = "reply"]
  /\ UNCHANGED << node, helloq, evq >>

(* The process exits: on SIGINT, or because a request or an event could    *)
(* not be read or sent.  What it sent before can still be read.            *)
NodeExit(n) ==
  /\ node[n] \in { "listening", "half", "up" }
  /\ node' = [node EXCEPT ![n] = "gone"]
  /\ UNCHANGED << helloq, evq, opq >>

NodeStep(n) == NodeStart(n) \/ NodeEvent(n) \/ NodeAnswer(n) \/ NodeExit(n)
=============================================================================
