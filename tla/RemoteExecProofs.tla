-------------------------- MODULE RemoteExecProofs --------------------------
(***************************************************************************)
(* Proofs about NodeRegistry and RemoteExec.                               *)
(***************************************************************************)
EXTENDS RemoteExec, TLAPS

USE ConnAssumption, NodeOfAssumption, TargetOfAssumption, AskedAssumption

\* The initial state is typed.
LEMMA InitTypes == Init => TypeOK
BY DEF Init, TypeOK, NodeInit, NodeTypeOK, Answer, RunStep

\* The steps of sockets and of the node keep the types of the registry.
LEMMA SocketTypes == NodeTypeOK /\ SocketStep => NodeTypeOK'
<1> SUFFICES ASSUME NodeTypeOK, SocketStep PROVE NodeTypeOK'
  OBVIOUS
<1> USE DEF NodeTypeOK, Answer, RunStep
<1>1. ASSUME NEW c \in Conn, Connect(c) PROVE NodeTypeOK'
  BY <1>1 DEF Connect
<1>2. ASSUME NEW c \in Conn, Register(c) PROVE NodeTypeOK'
  BY <1>2 DEF Register
<1>3. ASSUME NEW c \in Conn, GatewayCloses(c) PROVE NodeTypeOK'
  <2>1. CASE gateway[c] = "handshake"
    BY <1>3, <2>1 DEF GatewayCloses
  <2>2. CASE gateway[c] = "open"
    <3>1. gateway' = [gateway EXCEPT ![c] = "closed"] /\ Unregister(c)
      BY <1>3, <2>2 DEF GatewayCloses
    <3>2. /\ nodesById' \in [Node -> Conn \cup {None}] /\ byConn' \subseteq Conn
          /\ pending' \subseteq Request /\ answer' \in [Request -> Answer]
      BY <3>1 DEF Unregister
    <3> QED
      BY <1>3, <3>1, <3>2 DEF GatewayCloses
  <2> QED
    BY <1>3, <2>1, <2>2 DEF GatewayCloses
<1>4. ASSUME NEW c \in Conn, ClientCloses(c) PROVE NodeTypeOK'
  BY <1>4 DEF ClientCloses, GiveUp
<1>5. ASSUME NEW n \in Node, NodeDies(n) PROVE NodeTypeOK'
  BY <1>5 DEF NodeDies
<1> QED
  BY <1>1, <1>2, <1>3, <1>4, <1>5 DEF SocketStep

\* What a message to the gateway may be.
LEMMA ReportEffect ==
  ASSUME NodeTypeOK, NEW r \in Request, Report(r)
  PROVE  /\ run[r] \in {"running", "refusing"}
         /\ \E s \in {"done", "reporting"} : run' = [run EXCEPT ![r] = s]
         /\ \A m \in uplink' : m \in uplink \/ \E c \in Conn : m = <<c, "event", r>>
         /\ UNCHANGED <<client, gateway, nodesById, byConn, causes>>
         /\ UNCHANGED <<pending, answer, wire, ran>>
<1> DEFINE lines == {c \in Conn : client[c] = "open" /\ NodeOf[c] = TargetOf[r]
                                  /\ gateway[c] \in {"open", "closed"}}
<1>1. /\ run' = [run EXCEPT ![r] = IF lines = {} THEN "done" ELSE "reporting"]
      /\ uplink' = uplink \cup {<<c, "event", r>> : c \in {d \in lines : gateway[d] = "open"}}
  BY DEF Report
<1>2. lines \subseteq Conn
  OBVIOUS
<1> HIDE DEF lines
<1>3. \E s \in {"done", "reporting"} : run' = [run EXCEPT ![r] = s]
  BY <1>1
<1>4. \A m \in uplink' : m \in uplink \/ \E c \in Conn : m = <<c, "event", r>>
  BY <1>1, <1>2
<1> QED
  BY <1>3, <1>4 DEF Report, sockets

\* What a result sent changes.
LEMMA SendEffect ==
  ASSUME NodeTypeOK, NEW r \in Request, SendResult(r)
  PROVE  /\ run[r] = "acknowledged"
         /\ run' = [run EXCEPT ![r] = "done"]
         /\ \A m \in uplink' : m \in uplink \/ \E c \in Conn : m = <<c, "result", r>>
         /\ UNCHANGED <<client, gateway, nodesById, byConn, causes>>
         /\ UNCHANGED <<pending, answer, wire, ran>>
<1>1. \A m \in uplink' : m \in uplink \/ \E c \in Conn : m = <<c, "result", r>>
  BY DEF SendResult
<1> QED
  BY <1>1 DEF SendResult, sockets

\* What an invocation changes: at most one command more on the wire.
LEMMA InvokeEffect ==
  ASSUME NodeTypeOK, NEW r \in Request, Invoke(r)
  PROVE  /\ \A m \in wire' : m \in wire \/ \E c \in Conn : m = <<c, r>>
         /\ pending' \subseteq pending \cup {r}
         /\ answer' = answer \/ answer' = [answer EXCEPT ![r] = "not connected"]
         /\ UNCHANGED <<client, gateway, nodesById, byConn, causes>>
         /\ UNCHANGED <<run, ran, uplink>>
<1> DEFINE c == nodesById[TargetOf[r]]
<1>1. c \in Conn \cup {None}
  BY DEF NodeTypeOK
<1>2. IF c = None
        THEN answer' = [answer EXCEPT ![r] = "not connected"] /\ UNCHANGED <<pending, wire>>
        ELSE /\ pending' = pending \cup {r}
             /\ wire' = IF gateway[c] = "open" /\ client[c] = "open" THEN wire \cup {<<c, r>>} ELSE wire
             /\ UNCHANGED answer
  BY DEF Invoke
<1>3. UNCHANGED <<sockets, run, ran, uplink>>
  BY DEF Invoke
<1> HIDE DEF c
<1>4. CASE c = None
  BY <1>2, <1>3, <1>4 DEF sockets
<1>5. CASE c \in Conn
  BY <1>2, <1>3, <1>5 DEF sockets
<1> QED
  BY <1>1, <1>4, <1>5

\* What a command or a message sent adds keeps the types of the wire.
LEMMA WireTypes ==
  ASSUME NEW r \in Request, wire \subseteq Conn \X Request,
         \A m \in wire' : m \in wire \/ \E c \in Conn : m = <<c, r>>
  PROVE  wire' \subseteq Conn \X Request
OBVIOUS

\* The same for messages to the gateway.
LEMMA UplinkTypes ==
  ASSUME NEW r \in Request, NEW k \in {"event", "result"},
         uplink \subseteq Conn \X {"event", "result"} \X Request,
         \A m \in uplink' : m \in uplink \/ \E c \in Conn : m = <<c, k, r>>
  PROVE  uplink' \subseteq Conn \X {"event", "result"} \X Request
OBVIOUS

\* Invocations, runs and their messages keep the types of the registry.
LEMMA RunTypes ==
  ASSUME NodeTypeOK, NEW r \in Request, NEW refuses,
         \/ Invoke(r) \/ InvokeTimesOut(r) \/ StartRun(r, refuses) \/ Report(r)
         \/ HandleEvent(r) \/ SendResult(r) \/ HandleResult(r)
  PROVE  NodeTypeOK'
<1> USE DEF NodeTypeOK, Answer, RunStep, sockets
<1>1. CASE Invoke(r)
  <2>1. \A m \in wire' : m \in wire \/ \E c \in Conn : m = <<c, r>>
    BY <1>1, InvokeEffect
  <2>2. wire' \subseteq Conn \X Request
    BY <2>1, WireTypes
  <2>3. pending' \subseteq Request
    BY <1>1, InvokeEffect
  <2>4. answer' \in [Request -> Answer]
    BY <1>1, InvokeEffect
  <2> QED
    BY <1>1, <2>2, <2>3, <2>4, InvokeEffect
<1>2. CASE InvokeTimesOut(r)
  BY <1>2 DEF InvokeTimesOut
<1>3. CASE StartRun(r, refuses)
  BY <1>3 DEF StartRun
<1>4. CASE Report(r)
  <2>1. \A m \in uplink' : m \in uplink \/ \E c \in Conn : m = <<c, "event", r>>
    BY <1>4, ReportEffect
  <2>2. uplink' \subseteq Conn \X {"event", "result"} \X Request
    BY <2>1, UplinkTypes
  <2>3. run' \in [Request -> RunStep]
    BY <1>4, ReportEffect
  <2> QED
    BY <1>4, <2>2, <2>3, ReportEffect
<1>5. CASE HandleEvent(r)
  BY <1>5 DEF HandleEvent
<1>6. CASE SendResult(r)
  <2>1. \A m \in uplink' : m \in uplink \/ \E c \in Conn : m = <<c, "result", r>>
    BY <1>6, SendEffect
  <2>2. uplink' \subseteq Conn \X {"event", "result"} \X Request
    BY <2>1, UplinkTypes
  <2> QED
    BY <1>6, <2>2, SendEffect
<1>7. CASE HandleResult(r)
  BY <1>7 DEF HandleResult
<1> QED
  BY <1>1, <1>2, <1>3, <1>4, <1>5, <1>6, <1>7

\* The part of the type invariant that is about the tool.
ToolTypes ==
  /\ tool \in [Request -> {"idle", "asking", "invoking", "done"}]
  /\ waiting \subseteq Asked
  /\ outcome \in [Request -> {"none", "allow", "deny", "expired"}]
  /\ chats \in [Request -> {"none", "asked", "resolved", "expired"}]
  /\ told \in [Request -> SUBSET Note]
  /\ fallback \in [Request -> Fallback \cup {"unused"}]
  /\ strictRuns \subseteq Request

\* Telling the agent of something keeps the type of what it has been told.
LEMMA TellTypes ==
  ASSUME NEW r \in Request, NEW n \in Note, told \in [Request -> SUBSET Note], Tell(r, n)
  PROVE  told' \in [Request -> SUBSET Note]
BY DEF Tell

\* Every step keeps the types.
LEMMA StepTypes == TypeOK /\ [Next]_vars => TypeOK'
<1> SUFFICES ASSUME TypeOK, [Next]_vars PROVE TypeOK'
  OBVIOUS
<1>a. NodeTypeOK /\ ToolTypes
  BY DEF TypeOK, ToolTypes
<1>b. NodeTypeOK' /\ ToolTypes' => TypeOK'
  BY DEF TypeOK, ToolTypes
<1> USE DEF ToolTypes, toolVars, Note, Fallback
<1>1. CASE UNCHANGED vars
  <2>1. UNCHANGED nodeVars /\ UNCHANGED toolVars /\ UNCHANGED strictRuns
    BY <1>1 DEF vars
  <2> QED
    BY <2>1, <1>a, <1>b DEF nodeVars, NodeTypeOK
<1>2. CASE SocketStep /\ UNCHANGED <<toolVars, strictRuns>>
  BY <1>2, <1>a, <1>b, SocketTypes
<1>3. ASSUME NEW r \in Request,
             Ask(r) \/ Expire(r) \/ ForwardExpires(r) \/ CallFails(r)
               \/ \E d \in {"allow", "deny"} : Decide(r, d)
      PROVE  TypeOK'
  <2>1. UNCHANGED nodeVars
    BY <1>3 DEF Ask, Expire, ForwardExpires, CallFails, Decide
  <2>2. ToolTypes'
    <3>1. CASE Ask(r)
      BY <3>1, <1>a DEF Ask
    <3>2. CASE Expire(r)
      <4>1. PICK f \in Fallback : fallback' = [fallback EXCEPT ![r] = f]
        BY <3>2 DEF Expire
      <4>2. fallback' \in [Request -> Fallback \cup {"unused"}]
        BY <4>1, <1>a
      <4> QED
        BY <3>2, <4>2, <1>a DEF Expire
    <3>3. CASE ForwardExpires(r)
      BY <3>3, <1>a DEF ForwardExpires
    <3>4. CASE CallFails(r)
      BY <3>4, <1>a DEF CallFails, Tell
    <3>5. ASSUME NEW d \in {"allow", "deny"}, Decide(r, d) PROVE ToolTypes'
      <4>1. outcome' \in [Request -> {"none", "allow", "deny", "expired"}]
        BY <3>5, <1>a DEF Decide
      <4>2. chats' \in [Request -> {"none", "asked", "resolved", "expired"}]
        BY <3>5, <1>a DEF Decide
      <4> QED
        BY <3>5, <4>1, <4>2, <1>a DEF Decide
    <3> QED
      BY <1>3, <3>1, <3>2, <3>3, <3>4, <3>5
  <2> QED
    BY <1>a, <1>b, <2>1, <2>2 DEF nodeVars, NodeTypeOK
<1>4. ASSUME NEW r \in Request, InvokeAtOnce(r) PROVE TypeOK'
  BY <1>4, <1>a, <1>b, RunTypes DEF InvokeAtOnce
<1>5. ASSUME NEW r \in Request, HearDecision(r) PROVE TypeOK'
  <2>1. told' \in [Request -> SUBSET Note] /\ tool' \in [Request -> {"idle", "asking", "invoking", "done"}]
    <3>1. CASE Denied(r)
      <4>1. Tell(r, "denied by decision") /\ tool' = [tool EXCEPT ![r] = "done"]
        BY <1>5, <3>1 DEF HearDecision
      <4> QED
        BY <4>1, <1>a, TellTypes
    <3>2. CASE ~Denied(r)
      BY <1>5, <3>2, <1>a DEF HearDecision
    <3> QED
      BY <3>1, <3>2
  <2>2. ToolTypes'
    BY <1>5, <2>1, <1>a DEF HearDecision
  <2>3. UNCHANGED nodeVars \/ Invoke(r)
    BY <1>5 DEF HearDecision
  <2>4. NodeTypeOK'
    BY <2>3, <1>a, RunTypes DEF nodeVars, NodeTypeOK
  <2> QED
    BY <2>2, <2>4, <1>b
<1>6. ASSUME NEW r \in Request, HearAnswer(r) PROVE TypeOK'
  <2>1. told' \in [Request -> SUBSET Note]
    <3>1. CASE answer[r] # "ok" \/ r \notin Asked
      <4>1. \E n \in Note : Tell(r, n)
        BY <1>6, <3>1 DEF HearAnswer
      <4> QED
        BY <4>1, <1>a, TellTypes
    <3>2. CASE answer[r] = "ok" /\ r \in Asked
      BY <1>6, <3>2, <1>a DEF HearAnswer
    <3> QED
      BY <3>1, <3>2
  <2>2. ToolTypes' /\ UNCHANGED nodeVars
    BY <1>6, <2>1, <1>a DEF HearAnswer
  <2> QED
    BY <2>2, <1>a, <1>b DEF nodeVars, NodeTypeOK
<1>7. ASSUME NEW r \in Request, NodeStarts(r) PROVE TypeOK'
  <2>1. PICK refuses \in BOOLEAN, strict \in BOOLEAN :
          /\ StartRun(r, refuses)
          /\ strictRuns' = IF strict /\ ~refuses THEN strictRuns \cup {r} ELSE strictRuns
    BY <1>7 DEF NodeStarts
  <2>2. NodeTypeOK'
    <3>1. StartRun(r, refuses)
      BY <2>1
    <3> QED
      BY <3>1, <1>a, RunTypes
  <2>3. strictRuns' \subseteq Request
    BY <2>1, <1>a
  <2>4. ToolTypes'
    BY <1>7, <2>3, <1>a DEF NodeStarts
  <2> QED
    BY <2>2, <2>4, <1>b
<1>8. ASSUME NEW r \in Request, HearEvent(r) PROVE TypeOK'
  BY <1>8, <1>a, <1>b, RunTypes DEF HearEvent, Tell
<1>9. ASSUME NEW r \in Request,
             (NodeWork(r) \/ InvokeTimesOut(r)) /\ UNCHANGED <<toolVars, strictRuns>>
      PROVE  TypeOK'
  BY <1>9, <1>a, <1>b, RunTypes DEF NodeWork
<1> QED
  BY <1>1, <1>2, <1>3, <1>4, <1>5, <1>6, <1>7, <1>8, <1>9 DEF Next, Timers, NodeWork

\* The type invariant of the exec tool, the registry and the node.
THEOREM ExecTypes == Spec => []TypeOK
BY InitTypes, StepTypes, PTL DEF Spec

(***************************************************************************)
(* The registry and the sockets.                                           *)
(***************************************************************************)
\* Without an overlap or a late handshake the two maps say what the sockets say.
MapsMatch ==
  /\ \A c \in Conn : c \in byConn <=> gateway[c] = "open"
  /\ \A c \in byConn : nodesById[NodeOf[c]] = c
  /\ \A node \in Node : nodesById[node] # None =>
       nodesById[node] \in byConn /\ NodeOf[nodesById[node]] = node

SocketInv ==
  /\ \A c \in Conn : client[c] = "new" => gateway[c] = "new"
  /\ causes = {} => MapsMatch

\* No connection, no session.
LEMMA SocketInit == Init => SocketInv
BY DEF Init, NodeInit, SocketInv, MapsMatch

\* Only the steps of sockets touch the sockets and the registry's maps.
LEMMA SocketsTouched == [Next]_vars => SocketStep \/ UNCHANGED sockets
<1> SUFFICES ASSUME [Next]_vars PROVE SocketStep \/ UNCHANGED sockets
  OBVIOUS
<1>1. CASE UNCHANGED vars
  BY <1>1 DEF vars, nodeVars, sockets
<1>2. ASSUME NEW r \in Request,
             \/ Ask(r) \/ Expire(r) \/ ForwardExpires(r) \/ CallFails(r) \/ HearAnswer(r)
             \/ \E d \in {"allow", "deny"} : Decide(r, d)
      PROVE  UNCHANGED sockets
  <2>1. UNCHANGED nodeVars
    BY <1>2 DEF Ask, Expire, ForwardExpires, CallFails, HearAnswer, Decide
  <2> QED
    BY <2>1 DEF nodeVars, sockets
<1>3. ASSUME NEW r \in Request, InvokeAtOnce(r) \/ HearDecision(r) PROVE UNCHANGED sockets
  <2>1. UNCHANGED nodeVars \/ Invoke(r)
    BY <1>3 DEF InvokeAtOnce, HearDecision
  <2> QED
    BY <2>1 DEF Invoke, nodeVars, sockets
<1>4. ASSUME NEW r \in Request, NodeStarts(r) PROVE UNCHANGED sockets
  BY <1>4 DEF NodeStarts, StartRun
<1>5. ASSUME NEW r \in Request, HearEvent(r) PROVE UNCHANGED sockets
  BY <1>5 DEF HearEvent, HandleEvent
<1>6. ASSUME NEW r \in Request, NodeWork(r) \/ InvokeTimesOut(r) PROVE UNCHANGED sockets
  BY <1>6 DEF NodeWork, Report, SendResult, HandleResult, InvokeTimesOut
<1> QED
  BY <1>1, <1>2, <1>3, <1>4, <1>5, <1>6 DEF Next, Timers

\* A connection, a registration and the end of a connection keep the maps true.
LEMMA SocketStepKeeps == NodeTypeOK /\ SocketInv /\ SocketStep => SocketInv'
<1> SUFFICES ASSUME NodeTypeOK, SocketInv, SocketStep PROVE SocketInv'
  OBVIOUS
<1>a. \A c \in Conn : client'[c] = "new" => gateway'[c] = "new"
  BY DEF SocketStep, Connect, Register, GatewayCloses, ClientCloses, NodeDies, SocketInv, NodeTypeOK
<1>b. SUFFICES ASSUME causes' = {} PROVE MapsMatch'
  BY <1>a DEF SocketInv
<1> USE DEF NodeTypeOK
<1>1. ASSUME NEW c \in Conn, Connect(c) PROVE MapsMatch'
  BY <1>b, <1>1 DEF Connect, SocketInv, MapsMatch
<1>2. ASSUME NEW c \in Conn, Register(c) PROVE MapsMatch'
  <2>1. causes = {} /\ gateway[c] = "handshake" /\ Siblings(c) \cap byConn = {}
    BY <1>b, <1>2 DEF Register
  <2>2. /\ gateway' = [gateway EXCEPT ![c] = "open"] /\ byConn' = byConn \cup {c}
        /\ nodesById' = [nodesById EXCEPT ![NodeOf[c]] = c]
    BY <1>2, <2>1 DEF Register
  <2>3. MapsMatch /\ c \notin byConn
    BY <2>1 DEF SocketInv, MapsMatch
  <2>4. \A b \in byConn : NodeOf[b] # NodeOf[c]
    BY <2>1, <2>3 DEF Siblings
  <2>5. \A b \in Conn : b \in byConn' <=> gateway'[b] = "open"
    BY <2>2, <2>3 DEF MapsMatch
  <2>6. \A b \in byConn' : nodesById'[NodeOf[b]] = b
    BY <2>2, <2>3, <2>4 DEF MapsMatch
  <2>7. \A node \in Node : nodesById'[node] # None =>
          nodesById'[node] \in byConn' /\ NodeOf[nodesById'[node]] = node
    BY <2>2, <2>3 DEF MapsMatch
  <2> QED
    BY <2>5, <2>6, <2>7 DEF MapsMatch
<1>3. ASSUME NEW c \in Conn, GatewayCloses(c) PROVE MapsMatch'
  <2>1. MapsMatch
    BY <1>b, <1>3 DEF GatewayCloses, SocketInv
  <2>2. CASE gateway[c] = "handshake"
    <3>1. gateway' = [gateway EXCEPT ![c] = "late"] /\ UNCHANGED <<nodesById, byConn>>
      BY <1>3, <2>2 DEF GatewayCloses
    <3> QED
      BY <2>1, <2>2, <3>1 DEF MapsMatch
  <2>3. CASE gateway[c] = "open"
    <3>1. c \in byConn
      BY <2>1, <2>3 DEF MapsMatch
    <3>2. /\ gateway' = [gateway EXCEPT ![c] = "closed"]
          /\ byConn' = byConn \ {c} /\ nodesById' = [nodesById EXCEPT ![NodeOf[c]] = None]
      <4>1. gateway' = [gateway EXCEPT ![c] = "closed"] /\ Unregister(c)
        BY <1>3, <2>3 DEF GatewayCloses
      <4> QED
        BY <3>1, <4>1 DEF Unregister
    <3>3. ASSUME NEW b \in byConn, NodeOf[b] = NodeOf[c] PROVE b = c
      BY <2>1, <3>1, <3>3 DEF MapsMatch
    <3>4. ASSUME NEW b \in Conn PROVE b \in byConn' <=> gateway'[b] = "open"
      <4>1. b \in byConn <=> gateway[b] = "open"
        BY <2>1 DEF MapsMatch
      <4>2. gateway'[b] = IF b = c THEN "closed" ELSE gateway[b]
        BY <3>2
      <4>3. b \in byConn' <=> b \in byConn /\ b # c
        BY <3>2
      <4> QED
        BY <4>1, <4>2, <4>3
    <3>5. \A b \in byConn' : nodesById'[NodeOf[b]] = b
      BY <2>1, <3>2, <3>3 DEF MapsMatch
    <3>6. \A node \in Node : nodesById'[node] # None =>
            nodesById'[node] \in byConn' /\ NodeOf[nodesById'[node]] = node
      <4> SUFFICES ASSUME NEW node \in Node, nodesById'[node] # None
                   PROVE  nodesById'[node] \in byConn' /\ NodeOf[nodesById'[node]] = node
        OBVIOUS
      <4>1. node # NodeOf[c] /\ nodesById'[node] = nodesById[node]
        BY <3>2
      <4>2. nodesById[node] \in byConn /\ NodeOf[nodesById[node]] = node
        BY <2>1, <4>1 DEF MapsMatch
      <4> QED
        BY <3>2, <4>1, <4>2
    <3> QED
      BY <3>4, <3>5, <3>6 DEF MapsMatch
  <2> QED
    BY <1>3, <2>2, <2>3 DEF GatewayCloses
<1>4. ASSUME NEW c \in Conn, ClientCloses(c) PROVE MapsMatch'
  BY <1>b, <1>4 DEF ClientCloses, SocketInv, MapsMatch
<1>5. ASSUME NEW n \in Node, NodeDies(n) PROVE MapsMatch'
  BY <1>b, <1>5 DEF NodeDies, SocketInv, MapsMatch
<1> QED
  BY <1>1, <1>2, <1>3, <1>4, <1>5 DEF SocketStep

\* A node can be invoked exactly while the gateway has a socket to it, unless
\* connections of it overlapped or a handshake ended after its socket.
THEOREM RegistryTruthful == Spec => []SessionsMatchSockets
<1>1. TypeOK /\ SocketInv /\ [Next]_vars => SocketInv'
  <2> SUFFICES ASSUME TypeOK, SocketInv, [Next]_vars PROVE SocketInv'
    OBVIOUS
  <2>1. CASE SocketStep
    BY <2>1, SocketStepKeeps DEF TypeOK
  <2>2. CASE UNCHANGED sockets
    BY <2>2 DEF sockets, SocketInv, MapsMatch
  <2> QED
    BY <2>1, <2>2, SocketsTouched
<1>2. TypeOK /\ SocketInv => SessionsMatchSockets
  <2> SUFFICES ASSUME TypeOK, SocketInv, causes = {}, NEW c \in Conn
               PROVE  nodesById[NodeOf[c]] = c <=> gateway[c] = "open"
    BY DEF SessionsMatchSockets
  <2> QED
    BY DEF SocketInv, MapsMatch, TypeOK, NodeTypeOK
<1> QED
  BY <1>1, <1>2, SocketInit, ExecTypes, PTL DEF Spec

(***************************************************************************)
(* Approvals.                                                              *)
(***************************************************************************)
\* A command on its way to a node, or run there.
Sent(r) == r \in ran \/ \E c \in Conn : <<c, r>> \in wire

\* The decision, or the fallback that stood in for it, allows the command.
Permitted(r) ==
  outcome[r] = "allow" \/ (outcome[r] = "expired" /\ fallback[r] \in {"allowlist", "full"})

\* A decision is final: it is open while the record is pending or not made, and
\* only a command whose decision permits it has left the gateway.
ApprovalInv ==
  /\ \A r \in waiting : outcome[r] = "none" /\ tool[r] # "idle"
  /\ \A r \in Asked : tool[r] = "idle" => outcome[r] = "none"
  /\ \A r \in Request : outcome[r] = "expired" => fallback[r] \in Fallback
  /\ \A r \in Asked : Sent(r) => Permitted(r)
  /\ \A r \in strictRuns : r \in ran /\ Approved(r)

\* Nothing is asked for, sent or run at first.
LEMMA ApprovalInit == Init => ApprovalInv
BY DEF Init, NodeInit, ApprovalInv, Sent

\* A step that sends no command and decides nothing keeps the invariant.
LEMMA NothingSent ==
  ASSUME TypeOK, ApprovalInv, ran' = ran, wire' \subseteq wire,
         UNCHANGED <<waiting, outcome, fallback, strictRuns>>,
         \A r \in Request : tool'[r] = "idle" => tool[r] = "idle"
  PROVE  ApprovalInv'
<1>1. ASSUME NEW r \in Asked, Sent(r)' PROVE Permitted(r)'
  <2>1. Sent(r)
    BY <1>1 DEF Sent
  <2> QED
    BY <2>1 DEF ApprovalInv, Permitted
<1>2. \A r \in strictRuns' : r \in ran' /\ Approved(r)'
  BY DEF ApprovalInv, Approved
<1>3. \A r \in waiting' : outcome'[r] = "none" /\ tool'[r] # "idle"
  BY DEF ApprovalInv, TypeOK
<1> QED
  BY <1>1, <1>2, <1>3 DEF ApprovalInv

\* A command goes out when its decision permits it.
LEMMA CommandSent ==
  ASSUME NodeTypeOK, ApprovalInv, NEW r \in Request, Invoke(r),
         r \in Asked => Permitted(r),
         UNCHANGED <<waiting, outcome, fallback, strictRuns>>,
         tool' = [tool EXCEPT ![r] = "invoking"]
  PROVE  ApprovalInv'
<1>1. ran' = ran /\ \A m \in wire' : m \in wire \/ \E c \in Conn : m = <<c, r>>
  BY InvokeEffect
<1>2. ASSUME NEW s \in Asked, Sent(s)' PROVE Permitted(s)'
  <2>1. CASE s = r
    BY <2>1 DEF Permitted
  <2>2. CASE s # r
    <3>1. Sent(s)
      BY <1>1, <1>2, <2>2 DEF Sent
    <3> QED
      BY <3>1 DEF ApprovalInv, Permitted
  <2> QED
    BY <2>1, <2>2
<1>3. \A s \in strictRuns' : s \in ran' /\ Approved(s)'
  BY <1>1 DEF ApprovalInv, Approved
<1> QED
  BY <1>2, <1>3 DEF ApprovalInv

\* A decision is taken once, for a command that has not left the gateway.
LEMMA DecisionKeeps ==
  ASSUME TypeOK, ApprovalInv, NEW r \in waiting,
         NEW d \in {"allow", "deny", "expired"}, outcome' = [outcome EXCEPT ![r] = d],
         \A s \in Request \ {r} : fallback'[s] = fallback[s],
         d = "expired" => fallback'[r] \in Fallback,
         waiting' = waiting \ {r}, UNCHANGED <<nodeVars, tool, strictRuns>>
  PROVE  ApprovalInv'
<1>1. r \in Asked /\ outcome[r] = "none" /\ tool[r] # "idle"
  BY DEF TypeOK, ApprovalInv
<1>2. ~Sent(r) /\ r \notin strictRuns
  BY <1>1 DEF ApprovalInv, Permitted, Approved
<1>3. \A s \in Request \ {r} : outcome'[s] = outcome[s]
  BY DEF TypeOK
<1>4. outcome'[r] = d
  BY <1>1 DEF TypeOK
<1>5. UNCHANGED <<ran, wire>>
  BY DEF nodeVars
<1>6. ASSUME NEW s \in Asked, Sent(s)' PROVE Permitted(s)'
  <2>1. Sent(s) /\ s # r
    BY <1>2, <1>5, <1>6 DEF Sent
  <2>2. Permitted(s)
    BY <2>1 DEF ApprovalInv
  <2> QED
    BY <1>3, <2>1, <2>2 DEF Permitted
<1>7. ASSUME NEW s \in strictRuns' PROVE s \in ran' /\ Approved(s)'
  <2>1. s \in strictRuns /\ s \in Request /\ s # r
    BY <1>2, <1>7 DEF TypeOK
  <2> QED
    BY <1>3, <1>5, <2>1 DEF Approved, ApprovalInv
<1>8. \A s \in waiting' : outcome'[s] = "none" /\ tool'[s] # "idle"
  BY <1>3 DEF ApprovalInv, TypeOK
<1>9. \A s \in Asked : tool'[s] = "idle" => outcome'[s] = "none"
  BY <1>1, <1>3 DEF ApprovalInv
<1>10. \A s \in Request : outcome'[s] = "expired" => fallback'[s] \in Fallback
  BY <1>3, <1>4 DEF ApprovalInv
<1> QED
  BY <1>6, <1>7, <1>8, <1>9, <1>10 DEF ApprovalInv

\* Every step keeps it.
LEMMA ApprovalStep == TypeOK /\ ApprovalInv /\ [Next]_vars => ApprovalInv'
<1> SUFFICES ASSUME TypeOK, ApprovalInv, [Next]_vars PROVE ApprovalInv'
  OBVIOUS
<1>a. NodeTypeOK /\ tool \in [Request -> {"idle", "asking", "invoking", "done"}]
  BY DEF TypeOK
<1>1. CASE UNCHANGED vars
  BY <1>1, NothingSent DEF vars, nodeVars, toolVars
<1>2. CASE SocketStep /\ UNCHANGED <<toolVars, strictRuns>>
  <2>1. ran' = ran /\ wire' \subseteq wire
    BY <1>2 DEF SocketStep, Connect, Register, GatewayCloses, ClientCloses, NodeDies
  <2> QED
    BY <1>2, <2>1, NothingSent DEF toolVars
<1>3. ASSUME NEW r \in Request, Ask(r) PROVE ApprovalInv'
  <2>1. /\ r \in Asked /\ tool[r] = "idle" /\ tool' = [tool EXCEPT ![r] = "asking"]
        /\ waiting' = waiting \cup {r}
        /\ UNCHANGED <<ran, wire, outcome, fallback, strictRuns>>
    BY <1>3 DEF Ask, nodeVars
  <2>2. \A s \in Asked : Sent(s)' => Permitted(s)'
    BY <2>1 DEF ApprovalInv, Sent, Permitted
  <2>3. \A s \in strictRuns' : s \in ran' /\ Approved(s)'
    BY <2>1 DEF ApprovalInv, Approved
  <2>4. \A s \in waiting' : outcome'[s] = "none" /\ tool'[s] # "idle"
    BY <1>a, <2>1 DEF ApprovalInv, TypeOK
  <2> QED
    BY <1>a, <2>1, <2>2, <2>3, <2>4 DEF ApprovalInv
<1>4. ASSUME NEW r \in Request, NEW d \in {"allow", "deny"}, Decide(r, d) PROVE ApprovalInv'
  BY <1>4, DecisionKeeps DEF Decide, ApprovalInv
<1>5. ASSUME NEW r \in Request, Expire(r) PROVE ApprovalInv'
  <2>1. PICK f \in Fallback : fallback' = [fallback EXCEPT ![r] = f]
    BY <1>5 DEF Expire
  <2>2. fallback'[r] \in Fallback /\ \A s \in Request \ {r} : fallback'[s] = fallback[s]
    BY <2>1 DEF TypeOK
  <2> QED
    BY <1>5, <2>2, DecisionKeeps DEF Expire
<1>6. ASSUME NEW r \in Request, ForwardExpires(r) \/ CallFails(r) \/ HearAnswer(r)
      PROVE  ApprovalInv'
  <2>1. UNCHANGED <<nodeVars, waiting, outcome, fallback, strictRuns>>
    BY <1>6 DEF ForwardExpires, CallFails, HearAnswer
  <2>2. tool' = tool \/ tool' = [tool EXCEPT ![r] = "done"]
    BY <1>6 DEF ForwardExpires, CallFails, HearAnswer
  <2> QED
    BY <1>a, <2>1, <2>2, NothingSent DEF nodeVars
<1>7. ASSUME NEW r \in Request, HearDecision(r) PROVE ApprovalInv'
  <2>1. CASE Denied(r)
    <3>1. /\ tool' = [tool EXCEPT ![r] = "done"]
          /\ UNCHANGED <<nodeVars, waiting, outcome, fallback, strictRuns>>
      BY <1>7, <2>1 DEF HearDecision
    <3> QED
      BY <1>a, <3>1, NothingSent DEF nodeVars
  <2>2. CASE ~Denied(r)
    <3>1. /\ tool' = [tool EXCEPT ![r] = "invoking"] /\ Invoke(r)
          /\ UNCHANGED <<waiting, outcome, fallback, strictRuns>>
      BY <1>7, <2>2 DEF HearDecision
    <3>2. Permitted(r)
      BY <1>7, <2>2 DEF HearDecision, Denied, Permitted, ApprovalInv, TypeOK, Fallback
    <3> QED
      BY <1>a, <3>1, <3>2, CommandSent
  <2> QED
    BY <2>1, <2>2
<1>8. ASSUME NEW r \in Request, InvokeAtOnce(r) PROVE ApprovalInv'
  BY <1>8, <1>a, CommandSent DEF InvokeAtOnce
<1>9. ASSUME NEW r \in Request, NodeStarts(r) PROVE ApprovalInv'
  <2>1. PICK strict \in BOOLEAN, refuses \in BOOLEAN :
          /\ strict /\ ~Approved(r) => refuses
          /\ StartRun(r, refuses)
          /\ strictRuns' = IF strict /\ ~refuses THEN strictRuns \cup {r} ELSE strictRuns
    BY <1>9 DEF NodeStarts
  <2>2. Sent(r) /\ wire' \subseteq wire
    BY <2>1 DEF StartRun, Sent
  <2>3. ran \subseteq ran' /\ ran' \subseteq ran \cup {r}
    BY <2>1 DEF StartRun
  <2>4. UNCHANGED <<tool, waiting, outcome, fallback>>
    BY <1>9 DEF NodeStarts, toolVars
  <2>5. ASSUME NEW s \in Asked, Sent(s)' PROVE Permitted(s)'
    <3>1. Sent(s)
      BY <2>2, <2>3, <2>5 DEF Sent
    <3> QED
      BY <2>4, <3>1 DEF ApprovalInv, Permitted
  <2>6. ASSUME NEW s \in strictRuns' PROVE s \in ran' /\ Approved(s)'
    <3>1. CASE s \in strictRuns
      BY <2>3, <2>4, <3>1 DEF ApprovalInv, Approved
    <3>2. CASE s \notin strictRuns
      <4>1. s = r /\ Approved(r) /\ ~refuses
        BY <2>1, <2>6, <3>2
      <4>2. r \in ran'
        BY <2>1, <4>1 DEF StartRun
      <4> QED
        BY <2>4, <4>1, <4>2 DEF Approved
    <3> QED
      BY <3>1, <3>2
  <2> QED
    BY <2>4, <2>5, <2>6 DEF ApprovalInv
<1>10. ASSUME NEW r \in Request, HearEvent(r) PROVE ApprovalInv'
  BY <1>10, NothingSent DEF HearEvent, HandleEvent
<1>11. ASSUME NEW r \in Request, NodeWork(r) PROVE ApprovalInv'
  BY <1>11, NothingSent DEF NodeWork, Report, SendResult, HandleResult, toolVars
<1>12. ASSUME NEW r \in Request, InvokeTimesOut(r) /\ UNCHANGED <<toolVars, strictRuns>>
       PROVE  ApprovalInv'
  BY <1>12, NothingSent DEF InvokeTimesOut, toolVars
<1> QED
  BY <1>1, <1>2, <1>3, <1>4, <1>5, <1>6, <1>7, <1>8, <1>9, <1>10, <1>11, <1>12 DEF Next, Timers

\* No node runs a command that was denied, or left open by a fallback that does not
\* allow it, and a node with a strict policy of its own runs only what was approved.
THEOREM ApprovedOnly == Spec => []OnlyApprovedRuns
<1>1. ApprovalInv => OnlyApprovedRuns
  BY DEF ApprovalInv, OnlyApprovedRuns, Sent, Permitted
<1> QED
  BY <1>1, ApprovalInit, ApprovalStep, ExecTypes, PTL DEF Spec

(***************************************************************************)
(* What the agent hears of a command that went well.                       *)
(***************************************************************************)
Going(r, c) == <<c, r>> \in wire
Uplinked(r, k) == \E c \in Conn : <<c, k, r>> \in uplink

\* A command is sent once, on one connection; its event is taken in before its
\* result is sent.
Reported(r) ==
  /\ tool[r] \in {"idle", "asking"} => run[r] = "none" /\ \A c \in Conn : ~Going(r, c)
  /\ \A c \in Conn : Going(r, c) => run[r] = "none"
  /\ \A b, c \in Conn : Going(r, b) /\ Going(r, c) => b = c
  /\ run[r] = "none" => r \notin ran /\ ~Uplinked(r, "event") /\ ~Uplinked(r, "result")
  /\ r \in ran /\ (run[r] = "acknowledged" \/ Uplinked(r, "result")) => "finished" \in told[r]
  /\ r \in Asked /\ answer[r] = "ok" => "finished" \in told[r]

ReportInv == \A r \in Request : Reported(r)

\* Nothing is reported at first.
LEMMA ReportInit == Init => ReportInv
BY DEF Init, NodeInit, ReportInv, Reported, Going, Uplinked

\* Nothing new happened to request s: no command, message, run or success.
Quiet(s) ==
  /\ tool'[s] \in {"idle", "asking"} => tool[s] \in {"idle", "asking"}
  /\ run'[s] = run[s] \/ (run[s] # "none" /\ run'[s] = "done")
  /\ s \in ran' <=> s \in ran
  /\ \A c \in Conn : <<c, s>> \in wire' => <<c, s>> \in wire
  /\ \A c \in Conn, k \in {"event", "result"} : <<c, k, s>> \in uplink' => <<c, k, s>> \in uplink
  /\ told[s] \subseteq told'[s]
  /\ answer'[s] = "ok" => answer[s] = "ok"

\* What is quiet for a request keeps what it has reported.
LEMMA QuietKeeps ==
  ASSUME NEW s \in Request, Reported(s), Quiet(s)
  PROVE  Reported(s)'
<1>1. \A k \in {"event", "result"} : Uplinked(s, k)' => Uplinked(s, k)
  BY DEF Quiet, Uplinked
<1>2. \A c \in Conn : Going(s, c)' => Going(s, c)
  BY DEF Quiet, Going
<1>3. "finished" \in told[s] => "finished" \in told'[s]
  BY DEF Quiet
<1> QED
  BY <1>1, <1>2, <1>3 DEF Quiet, Reported

\* The steps that are quiet for every request.
LEMMA SocketsQuiet ==
  ASSUME TypeOK, SocketStep, UNCHANGED toolVars, NEW s \in Request
  PROVE  Quiet(s)
<1> USE DEF Quiet, toolVars
<1>a. NodeTypeOK
  BY DEF TypeOK
<1>1. ASSUME NEW c \in Conn, Connect(c) PROVE Quiet(s)
  BY <1>1 DEF Connect
<1>2. ASSUME NEW c \in Conn, Register(c) PROVE Quiet(s)
  BY <1>2 DEF Register
<1>3. ASSUME NEW c \in Conn, GatewayCloses(c) PROVE Quiet(s)
  <2>1. answer'[s] = answer[s] \/ answer'[s] = "disconnected"
    <3>1. CASE gateway[c] = "handshake"
      BY <1>3, <3>1 DEF GatewayCloses
    <3>2. CASE gateway[c] = "open"
      <4>1. Unregister(c)
        BY <1>3, <3>2 DEF GatewayCloses
      <4> QED
        BY <4>1 DEF Unregister
    <3> QED
      BY <1>3, <3>1, <3>2 DEF GatewayCloses
  <2>2. uplink' \subseteq uplink /\ wire' \subseteq wire /\ run' = run /\ ran' = ran
    BY <1>3 DEF GatewayCloses
  <2> QED
    BY <2>1, <2>2
<1>4. ASSUME NEW c \in Conn, ClientCloses(c) PROVE Quiet(s)
  <2>1. run'[s] = run[s] \/ (run[s] # "none" /\ run'[s] = "done")
    BY <1>4 DEF ClientCloses, GiveUp
  <2> QED
    BY <1>4, <2>1 DEF ClientCloses
<1>5. ASSUME NEW n \in Node, NodeDies(n) PROVE Quiet(s)
  <2>1. run'[s] = run[s] \/ (run[s] # "none" /\ run'[s] = "done")
    BY <1>5 DEF NodeDies
  <2> QED
    BY <1>5, <2>1 DEF NodeDies
<1> QED
  BY <1>1, <1>2, <1>3, <1>4, <1>5 DEF SocketStep

\* So are the steps of approvals and of the tool that send no command.
LEMMA ToolQuiet ==
  ASSUME TypeOK, UNCHANGED nodeVars, NEW r \in Request,
         \/ UNCHANGED tool
         \/ tool[r] = "idle" /\ tool' = [tool EXCEPT ![r] = "asking"]
         \/ tool' = [tool EXCEPT ![r] = "done"],
         UNCHANGED told \/ \E note \in Note : Tell(r, note),
         NEW s \in Request
  PROVE  Quiet(s)
<1>1. told[s] \subseteq told'[s]
  BY DEF Tell, TypeOK
<1>2. tool'[s] \in {"idle", "asking"} => tool[s] \in {"idle", "asking"}
  BY DEF TypeOK
<1> QED
  BY <1>1, <1>2 DEF Quiet, nodeVars

\* A command goes out on one connection only.
LEMMA OneSent ==
  ASSUME NodeTypeOK, NEW r \in Request, Invoke(r), \A c \in Conn : ~Going(r, c)
  PROVE  \A b, c \in Conn : Going(r, b)' /\ Going(r, c)' => b = c
<1> DEFINE target == nodesById[TargetOf[r]]
<1>1. wire' = wire \/ wire' = wire \cup {<<target, r>>}
  BY DEF Invoke
<1> HIDE DEF target
<1> QED
  BY <1>1 DEF Going

\* An invocation is the first thing that happens to a request.
LEMMA InvokeReports ==
  ASSUME TypeOK, ReportInv, NEW r \in Request, Invoke(r), tool[r] \in {"idle", "asking"},
         tool' = [tool EXCEPT ![r] = "invoking"], UNCHANGED told
  PROVE  ReportInv'
<1>a. NodeTypeOK
  BY DEF TypeOK
<1>1. /\ \A m \in wire' : m \in wire \/ \E c \in Conn : m = <<c, r>>
      /\ answer' = answer \/ answer' = [answer EXCEPT ![r] = "not connected"]
      /\ UNCHANGED <<run, ran, uplink>>
  BY <1>a, InvokeEffect
<1>2. ASSUME NEW s \in Request, s # r PROVE Reported(s)'
  <2>1. \A c \in Conn : <<c, s>> \in wire' => <<c, s>> \in wire
    BY <1>1, <1>2
  <2>2. tool'[s] = tool[s] /\ answer'[s] = answer[s]
    BY <1>a, <1>1, <1>2 DEF TypeOK, NodeTypeOK
  <2>3. Quiet(s)
    BY <1>1, <2>1, <2>2 DEF Quiet
  <2> QED
    BY <2>3, QuietKeeps DEF ReportInv
<1>3. Reported(r)'
  <2>1. run[r] = "none" /\ \A c \in Conn : ~Going(r, c)
    BY DEF ReportInv, Reported
  <2>2. \A b, c \in Conn : Going(r, b)' /\ Going(r, c)' => b = c
    BY <1>a, <2>1, OneSent
  <2>3. tool'[r] = "invoking" /\ run'[r] = "none"
    BY <1>1, <2>1 DEF TypeOK
  <2>4. r \notin ran' /\ ~Uplinked(r, "event")' /\ ~Uplinked(r, "result")'
    BY <1>1, <2>1 DEF ReportInv, Reported, Uplinked
  <2>5. answer'[r] = "ok" => answer[r] = "ok"
    BY <1>a, <1>1 DEF NodeTypeOK
  <2>6. r \in Asked /\ answer'[r] = "ok" => "finished" \in told'[r]
    BY <2>5 DEF ReportInv, Reported
  <2> QED
    BY <2>2, <2>3, <2>4, <2>6 DEF Reported
<1> QED
  BY <1>2, <1>3 DEF ReportInv

\* The node gets the command: it is not on the wire any more.
LEMMA StartReports ==
  ASSUME TypeOK, ReportInv, NEW r \in Request, NEW refuses \in BOOLEAN, StartRun(r, refuses),
         UNCHANGED toolVars
  PROVE  ReportInv'
<1>a. NodeTypeOK
  BY DEF TypeOK
<1>1. PICK b \in Conn : <<b, r>> \in wire /\ wire' = wire \ {<<b, r>>}
  BY DEF StartRun
<1>2. /\ \E step \in {"running", "refusing"} : run' = [run EXCEPT ![r] = step]
      /\ ran \subseteq ran' /\ ran' \subseteq ran \cup {r}
      /\ UNCHANGED <<answer, uplink, tool, told>>
  BY DEF StartRun, toolVars
<1>3. ASSUME NEW s \in Request, s # r PROVE Reported(s)'
  <2>1. run'[s] = run[s]
    BY <1>a, <1>2, <1>3 DEF NodeTypeOK
  <2>2. Quiet(s)
    BY <1>1, <1>2, <1>3, <2>1 DEF Quiet
  <2> QED
    BY <2>2, QuietKeeps DEF ReportInv
<1>4. Reported(r)'
  <2>1. Going(r, b)
    BY <1>1 DEF Going
  <2>2. run[r] = "none" /\ tool[r] \notin {"idle", "asking"}
    BY <2>1 DEF ReportInv, Reported
  <2>3. \A c \in Conn : ~Going(r, c)'
    <3>1. \A c \in Conn : Going(r, c) => c = b
      BY <2>1 DEF ReportInv, Reported
    <3> QED
      BY <1>1, <3>1 DEF Going
  <2>4. run'[r] \in {"running", "refusing"}
    BY <1>a, <1>2 DEF NodeTypeOK
  <2>5. ~Uplinked(r, "result")'
    BY <1>2, <2>2 DEF ReportInv, Reported, Uplinked
  <2>6. r \in Asked /\ answer'[r] = "ok" => "finished" \in told'[r]
    BY <1>2 DEF ReportInv, Reported
  <2> QED
    BY <1>2, <2>2, <2>3, <2>4, <2>5, <2>6 DEF Reported
<1> QED
  BY <1>3, <1>4 DEF ReportInv

\* A step of request r that has been started and has to do with its messages.
LEMMA MessageReports ==
  ASSUME TypeOK, ReportInv, NEW r \in Request, UNCHANGED <<wire, ran, tool>>,
         run[r] # "none",
         run'[r] # "none", \A s \in Request \ {r} : run'[s] = run[s],
         \A m \in uplink' : m \in uplink \/ \E c \in Conn, k \in {"event", "result"} : m = <<c, k, r>>,
         \A s \in Request : told[s] \subseteq told'[s],
         \A s \in Request \ {r} : answer'[s] = answer[s],
         r \in ran /\ (run'[r] = "acknowledged" \/ Uplinked(r, "result")') => "finished" \in told'[r],
         r \in Asked /\ answer'[r] = "ok" => "finished" \in told'[r]
  PROVE  ReportInv'
<1>1. ASSUME NEW s \in Request, s # r PROVE Reported(s)'
  <2>1. \A c \in Conn, k \in {"event", "result"} : <<c, k, s>> \in uplink' => <<c, k, s>> \in uplink
    BY <1>1
  <2>2. Quiet(s)
    BY <1>1, <2>1 DEF Quiet
  <2> QED
    BY <2>2, QuietKeeps DEF ReportInv
<1>2. Reported(r)'
  <2>1. tool[r] \notin {"idle", "asking"} /\ \A c \in Conn : ~Going(r, c)
    BY DEF ReportInv, Reported
  <2>2. \A c \in Conn : ~Going(r, c)'
    BY <2>1 DEF Going
  <2> QED
    BY <2>1, <2>2 DEF Reported
<1> QED
  BY <1>1, <1>2 DEF ReportInv

\* Every step keeps the order of command, event and result.
LEMMA ReportStep == TypeOK /\ ReportInv /\ [Next]_vars => ReportInv'
<1> SUFFICES ASSUME TypeOK, ReportInv, [Next]_vars PROVE ReportInv'
  OBVIOUS
<1>a. NodeTypeOK
  BY DEF TypeOK
<1>q. (\A s \in Request : Quiet(s)) => ReportInv'
  BY QuietKeeps DEF ReportInv
<1>1. CASE UNCHANGED vars
  <2>1. UNCHANGED <<nodeVars, tool, told>>
    BY <1>1 DEF vars, toolVars
  <2> QED
    BY <2>1, <1>q DEF Quiet, nodeVars
<1>2. CASE SocketStep /\ UNCHANGED <<toolVars, strictRuns>>
  BY <1>2, <1>q, SocketsQuiet
<1>3. ASSUME NEW r \in Request,
             \/ Ask(r) \/ Expire(r) \/ ForwardExpires(r) \/ CallFails(r) \/ HearAnswer(r)
             \/ \E d \in {"allow", "deny"} : Decide(r, d)
             \/ HearDecision(r) /\ Denied(r)
      PROVE  ReportInv'
  <2>1. UNCHANGED nodeVars
    BY <1>3 DEF Ask, Expire, ForwardExpires, CallFails, HearAnswer, Decide, HearDecision
  <2>2. \/ UNCHANGED tool
        \/ tool[r] = "idle" /\ tool' = [tool EXCEPT ![r] = "asking"]
        \/ tool' = [tool EXCEPT ![r] = "done"]
    BY <1>3 DEF Ask, Expire, ForwardExpires, CallFails, HearAnswer, Decide, HearDecision
  <2>3. UNCHANGED told \/ \E note \in Note : Tell(r, note)
    <3>1. CASE HearAnswer(r)
      BY <3>1 DEF HearAnswer, Note
    <3>2. CASE CallFails(r)
      BY <3>2 DEF CallFails, Note
    <3>3. CASE HearDecision(r) /\ Denied(r)
      BY <3>3 DEF HearDecision, Note
    <3> QED
      BY <1>3, <3>1, <3>2, <3>3 DEF Ask, Expire, ForwardExpires, Decide
  <2> QED
    BY <1>q, <2>1, <2>2, <2>3, ToolQuiet
<1>4. ASSUME NEW r \in Request, InvokeAtOnce(r) \/ (HearDecision(r) /\ ~Denied(r))
      PROVE  ReportInv'
  <2>1. /\ Invoke(r) /\ tool[r] \in {"idle", "asking"} /\ UNCHANGED told
        /\ tool' = [tool EXCEPT ![r] = "invoking"]
    BY <1>4 DEF InvokeAtOnce, HearDecision
  <2> QED
    BY <2>1, InvokeReports
<1>5. ASSUME NEW r \in Request, NodeStarts(r) PROVE ReportInv'
  <2>1. UNCHANGED toolVars /\ \E refuses \in BOOLEAN : StartRun(r, refuses)
    BY <1>5 DEF NodeStarts
  <2> QED
    BY <2>1, StartReports
<1>6. ASSUME NEW r \in Request, HearEvent(r) PROVE ReportInv'
  <2>1. /\ Tell(r, IF r \in ran THEN "finished" ELSE "refused") /\ UNCHANGED tool
        /\ HandleEvent(r)
    BY <1>6 DEF HearEvent
  <2>2. Uplinked(r, "event") /\ uplink' \subseteq uplink /\ UNCHANGED <<wire, ran, answer>>
    BY <2>1 DEF HandleEvent, Uplinked
  <2>3. run' = run \/ run' = [run EXCEPT ![r] = "acknowledged"]
    BY <2>1 DEF HandleEvent
  <2>4. run[r] # "none"
    BY <2>2 DEF ReportInv, Reported
  <2>5. run'[r] # "none" /\ \A s \in Request \ {r} : run'[s] = run[s]
    BY <1>a, <2>3, <2>4 DEF NodeTypeOK
  <2>6. r \in ran => "finished" \in told'[r]
    BY <2>1 DEF Tell, TypeOK
  <2>7. \A s \in Request : told[s] \subseteq told'[s]
    BY <2>1 DEF Tell, TypeOK
  <2>8. r \in Asked /\ answer'[r] = "ok" => "finished" \in told'[r]
    BY <2>2, <2>7 DEF ReportInv, Reported
  <2> QED
    BY <2>1, <2>2, <2>4, <2>5, <2>6, <2>7, <2>8, MessageReports
<1>7. ASSUME NEW r \in Request, Report(r), UNCHANGED toolVars PROVE ReportInv'
  <2>1. /\ run[r] \in {"running", "refusing"}
        /\ \E step \in {"done", "reporting"} : run' = [run EXCEPT ![r] = step]
        /\ \A m \in uplink' : m \in uplink \/ \E c \in Conn : m = <<c, "event", r>>
        /\ UNCHANGED <<wire, ran, answer, tool, told>>
    BY <1>7, <1>a, ReportEffect DEF toolVars
  <2>2. run'[r] \in {"done", "reporting"} /\ \A s \in Request \ {r} : run'[s] = run[s]
    BY <1>a, <2>1 DEF NodeTypeOK
  <2>3. Uplinked(r, "result")' => Uplinked(r, "result")
    BY <2>1 DEF Uplinked
  <2>4. r \in ran /\ (run'[r] = "acknowledged" \/ Uplinked(r, "result")') => "finished" \in told'[r]
    BY <2>1, <2>2, <2>3 DEF ReportInv, Reported
  <2>5. r \in Asked /\ answer'[r] = "ok" => "finished" \in told'[r]
    BY <2>1 DEF ReportInv, Reported
  <2> QED
    BY <2>1, <2>2, <2>4, <2>5, MessageReports
<1>8. ASSUME NEW r \in Request, SendResult(r), UNCHANGED toolVars PROVE ReportInv'
  <2>1. /\ run[r] = "acknowledged" /\ run' = [run EXCEPT ![r] = "done"]
        /\ \A m \in uplink' : m \in uplink \/ \E c \in Conn : m = <<c, "result", r>>
        /\ UNCHANGED <<wire, ran, answer, tool, told>>
    BY <1>8, <1>a, SendEffect DEF toolVars
  <2>2. run'[r] = "done" /\ \A s \in Request \ {r} : run'[s] = run[s]
    BY <1>a, <2>1 DEF NodeTypeOK
  <2>3. r \in ran => "finished" \in told'[r]
    BY <2>1 DEF ReportInv, Reported
  <2>4. r \in Asked /\ answer'[r] = "ok" => "finished" \in told'[r]
    BY <2>1 DEF ReportInv, Reported
  <2> QED
    BY <2>1, <2>2, <2>3, <2>4, MessageReports
<1>9. ASSUME NEW r \in Request, HandleResult(r), UNCHANGED toolVars PROVE ReportInv'
  <2>1. /\ Uplinked(r, "result") /\ uplink' \subseteq uplink
        /\ UNCHANGED <<wire, ran, run, tool, told>>
    BY <1>9 DEF HandleResult, Uplinked, toolVars
  <2>2. answer' = answer \/ answer' = [answer EXCEPT ![r] = IF r \in ran THEN "ok" ELSE "refused"]
    BY <1>9 DEF HandleResult
  <2>3. run[r] # "none"
    BY <2>1 DEF ReportInv, Reported
  <2>4. r \in ran => "finished" \in told'[r]
    BY <2>1 DEF ReportInv, Reported
  <2>5. r \in Asked /\ answer'[r] = "ok" => "finished" \in told'[r]
    BY <1>a, <2>1, <2>2, <2>4 DEF ReportInv, Reported, NodeTypeOK
  <2>6. \A s \in Request \ {r} : answer'[s] = answer[s]
    BY <1>a, <2>2 DEF NodeTypeOK
  <2> QED
    BY <2>1, <2>3, <2>4, <2>5, <2>6, MessageReports
<1>10. ASSUME NEW r \in Request, InvokeTimesOut(r), UNCHANGED toolVars PROVE ReportInv'
  <2>1. answer' = [answer EXCEPT ![r] = "timeout"] /\ UNCHANGED <<wire, run, ran, uplink, tool, told>>
    BY <1>10 DEF InvokeTimesOut, toolVars
  <2>2. \A s \in Request : answer'[s] = "ok" => answer[s] = "ok"
    BY <1>a, <2>1 DEF NodeTypeOK
  <2> QED
    BY <1>q, <2>1, <2>2 DEF Quiet
<1> QED
  BY <1>1, <1>2, <1>3, <1>4, <1>5, <1>6, <1>7, <1>8, <1>9, <1>10 DEF Next, Timers, NodeWork

\* The tool is silent about an approved command that went well, and may be: when
\* the result arrives the agent has been told by the node's event.
THEOREM SuccessTold == Spec => []SuccessIsReported
<1>1. ReportInv => SuccessIsReported
  BY AskedAssumption DEF ReportInv, Reported, SuccessIsReported
<1> QED
  BY <1>1, ReportInit, ReportStep, ExecTypes, PTL DEF Spec
=============================================================================
