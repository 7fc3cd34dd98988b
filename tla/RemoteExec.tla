----------------------------- MODULE RemoteExec -----------------------------
(***************************************************************************)
(* The exec tool with host=node (src/src/agents/bash-tools.exec.ts): it    *)
(* asks for an approval (src/src/gateway/exec-approval-manager.ts and its  *)
(* handlers, with the chats of src/src/infra/exec-approval-forwarder.ts),  *)
(* invokes the node, and leaves the good news to the node's own event.     *)
(***************************************************************************)
EXTENDS NodeRegistry

CONSTANTS
  Asked,     \* requests that require an ask; the others are invoked at once
  Forwarded  \* those that are forwarded to chats

ASSUME AskedAssumption == Forwarded \subseteq Asked /\ Asked \subseteq Request

VARIABLES
  tool,      \* [Request -> {"idle", "asking", "invoking", "done"}]
  waiting,   \* keys of ExecApprovalManager.pending
  outcome,   \* [Request -> what waitForDecision resolved with]
  chats,     \* [Request -> {"none", "asked", "resolved", "expired"}]
  told,      \* [Request -> SUBSET Note] what the agent has been told
  fallback,  \* [Request -> askFallback, once it has decided]
  strictRuns \* history: commands run while the node's own policy wanted an approval

toolVars == <<tool, waiting, outcome, chats, told, fallback>>
vars == <<nodeVars, toolVars, strictRuns>>

Note == {"denied by decision", "request failed", "invoke failed", "finished", "refused"}
Fallback == {"deny", "allowlist", "full"}

TypeOK ==
  /\ NodeTypeOK
  /\ tool \in [Request -> {"idle", "asking", "invoking", "done"}]
  /\ waiting \subseteq Asked
  /\ outcome \in [Request -> {"none", "allow", "deny", "expired"}]
  /\ chats \in [Request -> {"none", "asked", "resolved", "expired"}]
  /\ told \in [Request -> SUBSET Note]
  /\ fallback \in [Request -> Fallback \cup {"unused"}]
  /\ strictRuns \subseteq Request

Init ==
  /\ NodeInit
  /\ tool = [r \in Request |-> "idle"]
  /\ waiting = {} /\ outcome = [r \in Request |-> "none"]
  /\ chats = [r \in Request |-> "none"]
  /\ told = [r \in Request |-> {}]
  /\ fallback = [r \in Request |-> "unused"] /\ strictRuns = {}

Tell(r, note) == told' = [told EXCEPT ![r] = @ \cup {note}]

-----------------------------------------------------------------------------
(***************************************************************************)
(* The approval.                                                           *)
(***************************************************************************)
\* exec.approval.request: the record is pending and the chats are asked.
Ask(r) ==
  /\ r \in Asked /\ tool[r] = "idle"
  /\ tool' = [tool EXCEPT ![r] = "asking"]
  /\ waiting' = waiting \cup {r}
  /\ chats' = [chats EXCEPT ![r] = IF r \in Forwarded THEN "asked" ELSE "none"]
  /\ UNCHANGED <<nodeVars, outcome, told, fallback, strictRuns>>

\* exec.approval.resolve of an operator; an id no longer pending is an error.
Decide(r, d) ==
  /\ r \in waiting
  /\ waiting' = waiting \ {r}
  /\ outcome' = [outcome EXCEPT ![r] = d]
  /\ chats' = [chats EXCEPT ![r] = IF @ = "asked" THEN "resolved" ELSE @]
  /\ UNCHANGED <<nodeVars, tool, told, fallback, strictRuns>>

\* The timer of waitForDecision: askFallback, whatever the agent's is, will decide.
Expire(r) ==
  /\ r \in waiting
  /\ waiting' = waiting \ {r}
  /\ outcome' = [outcome EXCEPT ![r] = "expired"]
  /\ \E f \in Fallback : fallback' = [fallback EXCEPT ![r] = f]
  /\ UNCHANGED <<nodeVars, tool, chats, told, strictRuns>>

\* The forwarder has a timer of its own for the same moment.
ForwardExpires(r) ==
  /\ chats[r] = "asked"
  /\ chats' = [chats EXCEPT ![r] = "expired"]
  /\ UNCHANGED <<nodeVars, tool, waiting, outcome, told, fallback, strictRuns>>

-----------------------------------------------------------------------------
(***************************************************************************)
(* The tool.                                                               *)
(***************************************************************************)
\* Mutant: only a deny is a deny.
DeniedOnly(r) == outcome[r] = "deny"

Denied(r) == outcome[r] = "deny" \/ (outcome[r] = "expired" /\ fallback[r] = "deny")

\* approved, as it is sent with the invocation.
Approved(r) == outcome[r] = "allow" \/ (outcome[r] = "expired" /\ fallback[r] = "full")

\* The answer of exec.approval.request: tell of the denial, or invoke the node.
HearDecision(r) ==
  /\ tool[r] = "asking" /\ outcome[r] # "none"
  /\ IF Denied(r)
       THEN /\ tool' = [tool EXCEPT ![r] = "done"] /\ Tell(r, "denied by decision")
            /\ UNCHANGED nodeVars
       ELSE tool' = [tool EXCEPT ![r] = "invoking"] /\ Invoke(r) /\ UNCHANGED told
  /\ UNCHANGED <<waiting, outcome, chats, fallback, strictRuns>>

InvokeAtOnce(r) ==
  /\ r \notin Asked /\ tool[r] = "idle"
  /\ tool' = [tool EXCEPT ![r] = "invoking"]
  /\ Invoke(r)
  /\ UNCHANGED <<waiting, outcome, chats, told, fallback, strictRuns>>

\* The answer of node.invoke: the outcome of the tool call, but of a command that
\* was asked for only the failure is told.
HearAnswer(r) ==
  /\ tool[r] = "invoking" /\ answer[r] # "none"
  /\ tool' = [tool EXCEPT ![r] = "done"]
  /\ CASE answer[r] # "ok" -> Tell(r, "invoke failed")
       [] answer[r] = "ok" /\ r \in Asked -> UNCHANGED told
       [] OTHER -> Tell(r, "finished")
  /\ UNCHANGED <<nodeVars, waiting, outcome, chats, fallback, strictRuns>>

\* The tool's own call times out or loses the gateway; the gateway's part goes on.
CallFails(r) ==
  /\ tool[r] \in {"asking", "invoking"}
  /\ tool' = [tool EXCEPT ![r] = "done"]
  /\ Tell(r, IF tool[r] = "asking" THEN "request failed" ELSE "invoke failed")
  /\ UNCHANGED <<nodeVars, waiting, outcome, chats, fallback, strictRuns>>

-----------------------------------------------------------------------------
\* The node's policy of the moment: a strict one refuses what is not approved, any
\* may refuse.
NodeStarts(r) ==
  /\ \E strict, refuses \in BOOLEAN :
       /\ strict /\ ~Approved(r) => refuses
       /\ StartRun(r, refuses)
       /\ strictRuns' = IF strict /\ ~refuses THEN strictRuns \cup {r} ELSE strictRuns
  /\ UNCHANGED toolVars

\* exec.finished and exec.denied become system events of the session.
HearEvent(r) ==
  /\ HandleEvent(r)
  /\ Tell(r, IF r \in ran THEN "finished" ELSE "refused")
  /\ UNCHANGED <<tool, waiting, outcome, chats, fallback, strictRuns>>

NodeWork(r) ==
  (Report(r) \/ SendResult(r) \/ HandleResult(r)) /\ UNCHANGED <<toolVars, strictRuns>>

Timers(r) ==
  \/ Expire(r) \/ ForwardExpires(r) \/ HearDecision(r) \/ HearAnswer(r)
  \/ InvokeTimesOut(r) /\ UNCHANGED <<toolVars, strictRuns>>

Next ==
  \/ SocketStep /\ UNCHANGED <<toolVars, strictRuns>>
  \/ \E r \in Request :
       \/ Ask(r) \/ InvokeAtOnce(r) \/ CallFails(r) \/ NodeStarts(r) \/ HearEvent(r)
       \/ NodeWork(r) \/ Timers(r)
       \/ \E d \in {"allow", "deny"} : Decide(r, d)

Spec == Init /\ [][Next]_vars

\* Timers fire and the gateway's answers arrive; nodes and operators owe nothing.
FairSpec == Spec /\ WF_vars(\E r \in Request : Timers(r))

-----------------------------------------------------------------------------
\* No node runs a command that was denied, or that was left unanswered with no
\* fallback that allows it; and what a strict policy ran was approved.
OnlyApprovedRuns ==
  /\ \A r \in ran \cap Asked :
       outcome[r] = "allow" \/ (outcome[r] = "expired" /\ fallback[r] \in {"allowlist", "full"})
  /\ strictRuns \subseteq {r \in ran : Approved(r)}

\* The tool says nothing of an approved command that went well: when the result
\* arrives, the node's own event has been taken in before.
SuccessIsReported == \A r \in Asked : answer[r] = "ok" => "finished" \in told[r]

\* A node can be invoked exactly while the gateway has a socket to it, unless
\* connections of a node overlapped or a handshake ended after its socket.
SessionsMatchSockets ==
  causes = {} => \A c \in Conn : nodesById[NodeOf[c]] = c <=> gateway[c] = "open"

\* The same without exceptions: a node is listed and invoked while it is connected.
SessionsFollowSockets ==
  \A c \in Conn : gateway[c] = "open" /\ client[c] = "open" => nodesById[NodeOf[c]] = c

\* Whatever the node and the operators do, the agent is told something of every
\* command, and every chat that was asked learns that the question is closed.
EveryExecReported ==
  []<>(\A r \in Request : /\ tool[r] = "idle" \/ told[r] # {}
                          /\ chats[r] # "asked")

\* Exec denied means that the command has not been run.
DeniedNeverRan ==
  \A r \in Asked : told[r] \cap {"denied by decision", "request failed", "invoke failed"} # {}
                     => r \notin ran

\* Exec approval expired means that no decision is taken any more.
ExpiredIsFinal == \A r \in Asked : chats[r] = "expired" => outcome[r] \in {"none", "expired"}
=============================================================================
