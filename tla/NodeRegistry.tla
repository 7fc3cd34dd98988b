---------------------------- MODULE NodeRegistry ----------------------------
(***************************************************************************)
(* src/src/gateway/node-registry.ts with the sockets around it: nodes that *)
(* connect, register, drop and connect again, invocations that wait for    *)
(* their result, and the node host of src/src/node-host/runner.ts, which   *)
(* runs a command, reports the event and then sends the result.            *)
(***************************************************************************)
EXTENDS Naturals, FiniteSets

CONSTANTS
  Node, Request,
  Conn,      \* connections, numbered as they are opened
  None,      \* no session
  NodeOf,    \* [Conn -> Node]
  TargetOf   \* [Request -> Node] where the command is to run

ASSUME ConnAssumption == Conn \subseteq Nat /\ None \notin Conn
ASSUME NodeOfAssumption == NodeOf \in [Conn -> Node]
ASSUME TargetOfAssumption == TargetOf \in [Request -> Node]

VARIABLES
  client,    \* [Conn -> {"new", "open", "closed"}] the node's end of a connection
  gateway,   \* [Conn -> the gateway's end]; "late": closed during the handshake
  nodesById, \* [Node -> Conn \cup {None}]
  byConn,    \* keys of nodesByConn
  pending,   \* keys of pendingInvokes
  answer,    \* [Request -> Answer] what an invocation returned
  wire,      \* SUBSET (Conn \X Request) commands on their way to a node
  run,       \* [Request -> RunStep] what the node host does with a command
  ran,       \* commands that have been run
  uplink,    \* messages on their way to the gateway: <<connection, kind, command>>
  causes     \* history: connections that overlapped, handshakes that came late

nodeVars == <<client, gateway, nodesById, byConn, pending, answer, wire, run, ran, uplink, causes>>
sockets == <<client, gateway, nodesById, byConn, causes>>

Answer == {"none", "ok", "refused", "timeout", "disconnected", "not connected"}
RunStep == {"none", "running", "refusing", "reporting", "acknowledged", "done"}

NodeTypeOK ==
  /\ client \in [Conn -> {"new", "open", "closed"}]
  /\ gateway \in [Conn -> {"new", "handshake", "late", "open", "closed"}]
  /\ nodesById \in [Node -> Conn \cup {None}]
  /\ byConn \subseteq Conn
  /\ pending \subseteq Request
  /\ answer \in [Request -> Answer]
  /\ wire \subseteq Conn \X Request
  /\ run \in [Request -> RunStep]
  /\ ran \subseteq Request
  /\ uplink \subseteq Conn \X {"event", "result"} \X Request
  /\ causes \subseteq {"overlap", "late"}

NodeInit ==
  /\ client = [c \in Conn |-> "new"] /\ gateway = [c \in Conn |-> "new"]
  /\ nodesById = [n \in Node |-> None] /\ byConn = {}
  /\ pending = {} /\ answer = [r \in Request |-> "none"]
  /\ wire = {} /\ uplink = {}
  /\ run = [r \in Request |-> "none"] /\ ran = {}
  /\ causes = {}

At(n) == {r \in Request : TargetOf[r] = n}
Siblings(c) == {d \in Conn \ {c} : NodeOf[d] = NodeOf[c]}

-----------------------------------------------------------------------------
(***************************************************************************)
(* Connections.                                                            *)
(***************************************************************************)
\* The node host has one client; it connects again when its socket has closed.
Connect(c) ==
  /\ client[c] = "new" /\ \A d \in Conn : d < c => client[d] # "new"
  /\ \A d \in Siblings(c) : client[d] # "open"
  /\ client' = [client EXCEPT ![c] = "open"]
  /\ gateway' = [gateway EXCEPT ![c] = "handshake"]
  /\ UNCHANGED <<nodesById, byConn, pending, answer, wire, run, ran, uplink, causes>>

\* The handshake ends after several awaits, none of which looks at the socket again.
Register(c) ==
  /\ gateway[c] \in {"handshake", "late"}
  /\ gateway' = [gateway EXCEPT ![c] = IF @ = "late" THEN "closed" ELSE "open"]
  /\ nodesById' = [nodesById EXCEPT ![NodeOf[c]] = c]
  /\ byConn' = byConn \cup {c}
  /\ causes' = causes \cup (IF gateway[c] = "late" THEN {"late"} ELSE {})
                      \cup (IF Siblings(c) \cap byConn # {} THEN {"overlap"} ELSE {})
  /\ UNCHANGED <<client, pending, answer, wire, run, ran, uplink>>

\* Mutant: the session is left behind.
UnregisterHalf(c) ==
  /\ byConn' = byConn \ {c}
  /\ UNCHANGED <<nodesById, pending, answer>>

\* Mutant: what is pending is forgotten, with its timers.
UnregisterSilently(c) ==
  /\ byConn' = byConn \ {c}
  /\ IF c \in byConn
       THEN /\ nodesById' = [nodesById EXCEPT ![NodeOf[c]] = None]
            /\ pending' = pending \ At(NodeOf[c])
            /\ UNCHANGED answer
       ELSE UNCHANGED <<nodesById, pending, answer>>

\* unregister: it takes the node's session, whichever connection it is of, and
\* rejects what the node was asked.
Unregister(c) ==
  /\ byConn' = byConn \ {c}
  /\ IF c \in byConn
       THEN LET rejected == pending \cap At(NodeOf[c]) IN
            /\ nodesById' = [nodesById EXCEPT ![NodeOf[c]] = None]
            /\ pending' = pending \ rejected
            /\ answer' = [r \in Request |-> IF r \in rejected THEN "disconnected" ELSE answer[r]]
       ELSE UNCHANGED <<nodesById, pending, answer>>

\* The gateway sees the socket close, maybe long after the node has left it.
GatewayCloses(c) ==
  /\ gateway[c] \in {"handshake", "open"}
  /\ IF gateway[c] = "handshake"
       THEN /\ gateway' = [gateway EXCEPT ![c] = "late"]
            /\ UNCHANGED <<nodesById, byConn, pending, answer>>
       ELSE gateway' = [gateway EXCEPT ![c] = "closed"] /\ Unregister(c)
  /\ uplink' = {m \in uplink : m[1] # c}
  /\ wire' = {m \in wire : m[1] # c}
  /\ UNCHANGED <<client, run, ran, causes>>

\* Requests of the node host that wait for an answer on its connection fail, and
\* so does the result it sends next: it has no connection then.
GiveUp(rs) ==
  run' = [r \in Request |-> IF r \in rs /\ run[r] \in {"reporting", "acknowledged"}
                              THEN "done" ELSE run[r]]

\* The node's end closes: a stall it noticed, a network it lost.
ClientCloses(c) ==
  /\ client[c] = "open"
  /\ client' = [client EXCEPT ![c] = "closed"]
  /\ GiveUp(At(NodeOf[c]))
  /\ wire' = {m \in wire : m[1] # c}
  /\ UNCHANGED <<gateway, nodesById, byConn, pending, answer, ran, uplink, causes>>

\* The node host dies with the commands it runs.
NodeDies(n) ==
  /\ \E c \in Conn : NodeOf[c] = n /\ client[c] = "open"
  /\ client' = [c \in Conn |-> IF NodeOf[c] = n /\ client[c] = "open" THEN "closed" ELSE client[c]]
  /\ run' = [r \in Request |-> IF r \in At(n) /\ run[r] # "none" THEN "done" ELSE run[r]]
  /\ wire' = {m \in wire : NodeOf[m[1]] # n}
  /\ UNCHANGED <<gateway, nodesById, byConn, pending, answer, ran, uplink, causes>>

-----------------------------------------------------------------------------
(***************************************************************************)
(* Invocations.                                                            *)
(***************************************************************************)
\* A frame sent on a socket that has closed vanishes without an error.
Invoke(r) ==
  LET c == nodesById[TargetOf[r]] IN
  /\ IF c = None
       THEN answer' = [answer EXCEPT ![r] = "not connected"] /\ UNCHANGED <<pending, wire>>
       ELSE /\ pending' = pending \cup {r}
            /\ wire' = IF gateway[c] = "open" /\ client[c] = "open" THEN wire \cup {<<c, r>>} ELSE wire
            /\ UNCHANGED answer
  /\ UNCHANGED <<sockets, run, ran, uplink>>

\* Thirty seconds, or the caller's timeoutMs.
InvokeTimesOut(r) ==
  /\ r \in pending
  /\ pending' = pending \ {r}
  /\ answer' = [answer EXCEPT ![r] = "timeout"]
  /\ UNCHANGED <<sockets, wire, run, ran, uplink>>

\* The node host gets a command and runs it, or its own policy refuses.
StartRun(r, refuses) ==
  /\ \E c \in Conn : client[c] = "open" /\ <<c, r>> \in wire
                     /\ wire' = wire \ {<<c, r>>}
  /\ run' = [run EXCEPT ![r] = IF refuses THEN "refusing" ELSE "running"]
  /\ ran' = IF refuses THEN ran ELSE ran \cup {r}
  /\ UNCHANGED <<sockets, pending, answer, uplink>>

\* Mutant: the result is sent at once, next to the event.
ReportBoth(r) ==
  /\ run[r] \in {"running", "refusing"}
  /\ run' = [run EXCEPT ![r] = "done"]
  /\ uplink' = uplink \cup {<<c, k, r>> : c \in {d \in Conn : client[d] = "open"
                                             /\ NodeOf[d] = TargetOf[r] /\ gateway[d] = "open"},
                                          k \in {"event", "result"}}
  /\ UNCHANGED <<sockets, pending, answer, wire, ran>>

\* The command has ended: the event goes first, on the connection of now.  Without
\* one, or before its hello, event and result are both lost.
Report(r) ==
  /\ run[r] \in {"running", "refusing"}
  /\ LET lines == {c \in Conn : client[c] = "open" /\ NodeOf[c] = TargetOf[r]
                                /\ gateway[c] \in {"open", "closed"}}
     IN  /\ run' = [run EXCEPT ![r] = IF lines = {} THEN "done" ELSE "reporting"]
         /\ uplink' = uplink \cup {<<c, "event", r>> : c \in {d \in lines : gateway[d] = "open"}}
  /\ UNCHANGED <<sockets, pending, answer, wire, ran>>

\* The gateway takes the event in, and answers on the same connection.
HandleEvent(r) ==
  /\ \E c \in Conn :
       /\ <<c, "event", r>> \in uplink
       /\ uplink' = uplink \ {<<c, "event", r>>}
       /\ run' = IF run[r] = "reporting" /\ client[c] = "open"
                   THEN [run EXCEPT ![r] = "acknowledged"] ELSE run
  /\ UNCHANGED <<sockets, pending, answer, wire, ran>>

\* The node hears the answer, then sends the result.
SendResult(r) ==
  /\ run[r] = "acknowledged"
  /\ run' = [run EXCEPT ![r] = "done"]
  /\ uplink' = uplink \cup {<<c, "result", r>> :
                              c \in {d \in Conn : client[d] = "open" /\ NodeOf[d] = TargetOf[r]
                                                  /\ gateway[d] = "open"}}
  /\ UNCHANGED <<sockets, pending, answer, wire, ran>>

\* handleInvokeResult; what comes late is dropped.
HandleResult(r) ==
  /\ \E c \in Conn : <<c, "result", r>> \in uplink /\ uplink' = uplink \ {<<c, "result", r>>}
  /\ pending' = pending \ {r}
  /\ answer' = IF r \in pending
                 THEN [answer EXCEPT ![r] = IF r \in ran THEN "ok" ELSE "refused"] ELSE answer
  /\ UNCHANGED <<sockets, wire, run, ran>>

SocketStep ==
  \/ \E c \in Conn : Connect(c) \/ Register(c) \/ GatewayCloses(c) \/ ClientCloses(c)
  \/ \E n \in Node : NodeDies(n)
=============================================================================
