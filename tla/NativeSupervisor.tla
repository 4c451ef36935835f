-------------------------- MODULE NativeSupervisor --------------------------
(***************************************************************************)
(* The supervised native session (src/soc_agent/security_ai/ebpf_tc): an   *)
(* ordinary-user controller asks a root sidecar, over one sequenced        *)
(* socket, to start and stop a Zeek container or a DNS worker, and closes  *)
(* the session from the sidecar's final record.                            *)
(*                                                                         *)
(* Three threads of the controller share the client: the collector's       *)
(* runner, the heartbeat that observes, and the close.  The sidecar calls  *)
(* the Docker daemon step by step; each call may be refused, or take       *)
(* effect and lose its answer.  A receive of the controller may time out   *)
(* while the sidecar is still busy: its answer then comes late.  The       *)
(* sidecar, the broker and the controller may each die.                    *)
(***************************************************************************)
EXTENDS Integers, Sequences

CONSTANT MaxPolls   \* STATUS requests of a session, which the code does not bound

ASSUME SupervisorAssumption == MaxPolls \in Nat

VARIABLES
  collector,   \* what the session's image carries: the Zeek container or the DNS worker
  container,   \* the container, as the daemon has it
  policy,      \* the policy directory that is mounted into the container
  capture,     \* DaemonCapture: the stream of the container
  dns,         \* the DNS worker
  ops,         \* RootOperations: what the sidecar knows of them
  core,        \* SupervisorCore: stop_attempted, error, cleanup failures, closed
  sidecar,     \* where the sidecar stands and the command it serves
  requests,    \* the two directions of the socket
  replies,
  client,      \* SupervisorClient: sequence, stopping, final
  pending,     \* the request whose answer the holder of the client's lock awaits
  polls,       \* STATUS requests so far
  runner,      \* StreamProcess, or the DNS session, over its one run
  session,     \* SupervisedSession: where close stands and what it has seen
  controller   \* the controller process is alive

daemon == <<container, policy, capture, dns>>
root == <<ops, core, sidecar>>
socket == <<requests, replies>>
user == <<client, pending, polls, runner, session>>
vars == <<collector, daemon, root, socket, user, controller>>

-----------------------------------------------------------------------------
Commands == {"START_ZEEK", "START_DNS", "STATUS", "STOP_ZEEK", "STOP"}
StartStages == {"policy", "create", "verify", "attach", "start"}
StopStages == {"dns", "zeek", "ownership", "docker_stop", "stopped_identity", "drain",
               "remove_identity", "docker_remove", "verify_absent", "stopped"}
FinishStages == {"await", "quiesce", "inspect", "close", "send"}
Stages == StartStages \cup StopStages \cup FinishStages
          \cup {"select", "start_dns", "status", "reply", "gone"}
Outcomes == {"ok", "lost", "refused"}   \* a lost answer is of a call that took effect
Gone == {"none", "removed"}
NoRequest == [by |-> "nobody", command |-> "STATUS", sent |-> FALSE]

NoOps == [attempted |-> FALSE, known |-> FALSE, stopped |-> FALSE,
          halted |-> FALSE, removed |-> FALSE, failed |-> FALSE]
NoCore == [stopTried |-> FALSE, error |-> FALSE, failed |-> FALSE, closed |-> FALSE]
NoClient == [sequence |-> 0, stopping |-> FALSE, final |-> "none"]
NoSession == [close |-> "open", failure |-> FALSE, error |-> FALSE,
              cleanup |-> "NOT_OBSERVED", broken |-> FALSE]

Init ==
  /\ collector \in {"zeek", "dns"}
  /\ container = "none" /\ policy = "none" /\ capture = "none" /\ dns = "idle"
  /\ ops = NoOps /\ core = NoCore
  /\ sidecar = [at |-> "select", serving |-> "STATUS", sequence |-> 0]
  /\ requests = <<>> /\ replies = <<>>
  /\ client = NoClient /\ pending = NoRequest /\ polls = 0 /\ runner = "idle"
  /\ session = NoSession
  /\ controller = TRUE

-----------------------------------------------------------------------------
(* The sidecar: one command at a time.                                     *)

At(stage) == sidecar.at = stage
Goes(stage) == sidecar' = [sidecar EXCEPT !.at = stage]
Finishing == sidecar.serving = "FINISH"

\* Wrong on purpose, for a run that must reject it: finish does not hear of a failed stop command.
RaisesUnrecorded ==
  /\ core' = [core EXCEPT !.error = TRUE]
  /\ Goes("reply")

\* An exception inside dispatch: the answer carries it and the loop ends.
Raises ==
  /\ core' = [core EXCEPT !.error = TRUE,
                          !.failed = @ \/ sidecar.serving \in {"STOP", "STOP_ZEEK"}]
  /\ Goes("reply")

\* Where dispatch sends a command; a second stop is none.
Dispatched(command) ==
  CASE command = "START_ZEEK" -> "policy"
    [] command = "START_DNS" -> "start_dns"
    [] command \in {"STOP", "STOP_ZEEK"} /\ ~core.stopTried -> "dns"
    [] OTHER -> "status"

Serve ==
  /\ At("select") /\ requests # <<>>
  /\ LET r == Head(requests) IN
       /\ sidecar' = [at |-> Dispatched(r.command), serving |-> r.command,
                      sequence |-> r.sequence]
       /\ core' = [core EXCEPT !.stopTried = @ \/ r.command \in {"STOP", "STOP_ZEEK"}]
  /\ requests' = Tail(requests)
  /\ UNCHANGED <<collector, daemon, ops, replies, user, controller>>

StartDNS ==
  /\ At("start_dns")
  /\ \/ /\ dns = "idle" /\ dns' = "running"
        /\ Goes("status") /\ UNCHANGED core
     \/ Raises /\ UNCHANGED dns
  /\ UNCHANGED <<collector, container, policy, capture, ops, socket, user, controller>>

\* The plan is validated and the scripts are written to a directory of their own.  A failure
\* takes back the scripts and the directory it made; one that finds the new directory closed
\* to it leaves it empty, which nothing mounts: no policy is present either way.
WritePolicy ==
  /\ At("policy")
  /\ \/ /\ policy' = "present"
        /\ ops' = [ops EXCEPT !.attempted = TRUE]
        /\ Goes("create") /\ UNCHANGED core
     \/ Raises /\ UNCHANGED <<policy, ops>>
  /\ UNCHANGED <<collector, container, capture, dns, socket, user, controller>>

\* Without the answer the container's id stays unknown.
Create ==
  /\ At("create")
  /\ \E answer \in Outcomes :
       /\ container' = IF answer = "refused" THEN container ELSE "created"
       /\ IF answer = "ok"
          THEN /\ ops' = [ops EXCEPT !.known = TRUE]
               /\ Goes("verify") /\ UNCHANGED core
          ELSE Raises /\ UNCHANGED ops
  /\ UNCHANGED <<collector, policy, capture, dns, socket, user, controller>>

\* owned: the daemon answers for our id, image and labels.
VerifyCreated ==
  /\ At("verify")
  /\ \/ Goes("attach") /\ UNCHANGED core
     \/ Raises
  /\ UNCHANGED <<collector, daemon, ops, socket, user, controller>>

Attach ==
  /\ At("attach")
  /\ \/ capture' = "open" /\ Goes("start") /\ UNCHANGED core
     \/ Raises /\ UNCHANGED capture
  /\ UNCHANGED <<collector, container, policy, dns, ops, socket, user, controller>>

StartContainer ==
  /\ At("start")
  /\ \E answer \in Outcomes :
       /\ container' = IF answer = "refused" THEN container ELSE "running"
       /\ IF answer = "ok"
          THEN Goes("status") /\ UNCHANGED core
          ELSE Raises
  /\ UNCHANGED <<collector, policy, capture, dns, ops, socket, user, controller>>

\* ops.status ends every dispatch: ownership of a known container, and the stream.
Status ==
  /\ At("status")
  /\ \/ /\ capture # "broken"
        /\ core' = [core EXCEPT !.closed = sidecar.serving = "STOP"]
        /\ Goes("reply")
     \/ /\ capture = "broken" \/ (ops.known /\ ~ops.removed)
        /\ Raises
  /\ UNCHANGED <<collector, daemon, ops, socket, user, controller>>

Reply ==
  /\ At("reply")
  /\ replies' = IF controller
                THEN Append(replies, [sequence |-> sidecar.sequence, error |-> core.error,
                                      final |-> "none"])
                ELSE replies
  /\ Goes(IF core.error \/ core.closed THEN "await" ELSE "select")
  /\ UNCHANGED <<collector, daemon, ops, core, requests, user, controller>>

\* The 300 s deadline, a signal, a bad or too frequent request, or a dead peer.
LeaveLoop ==
  /\ At("select")
  /\ Goes("await")
  /\ UNCHANGED <<collector, daemon, ops, core, socket, user, controller>>

-----------------------------------------------------------------------------
(* Stopping the collector, once, from a command or from finish.            *)

StopFails == ops' = [ops EXCEPT !.failed = TRUE]

\* dns.close: at most twelve seconds for the worker to exit.
CloseDNS ==
  /\ At("dns")
  /\ \/ /\ collector = "zeek" \/ dns \in {"idle", "exited"}
        /\ dns' = IF collector = "dns" THEN "exited" ELSE dns
        /\ UNCHANGED ops
     \/ collector = "dns" /\ StopFails /\ UNCHANGED dns
  /\ Goes("zeek")
  /\ UNCHANGED <<collector, container, policy, capture, core, socket, user, controller>>

\* No container was asked for, or one whose id is unknown, or ours.
EnterStopZeek ==
  /\ At("zeek")
  /\ \/ /\ ~ops.known /\ ~ops.attempted
        /\ ops' = [ops EXCEPT !.stopped = TRUE]
        /\ Goes("stopped")
     \/ /\ ~ops.known /\ ops.attempted
        /\ StopFails /\ Goes("stopped")
     \/ /\ ops.known
        /\ Goes("ownership") /\ UNCHANGED ops
  /\ UNCHANGED <<collector, daemon, core, socket, user, controller>>

Ownership ==
  /\ At("ownership")
  /\ \/ /\ Goes(IF container = "running" THEN "docker_stop" ELSE "stopped_identity")
        /\ UNCHANGED ops
     \/ StopFails /\ Goes("stopped")
  /\ UNCHANGED <<collector, daemon, core, socket, user, controller>>

DockerStop ==
  /\ At("docker_stop")
  /\ \E answer \in Outcomes :
       /\ container' = IF answer # "refused" /\ container = "running"
                       THEN "exited" ELSE container
       /\ IF answer = "ok" THEN UNCHANGED ops ELSE StopFails
  /\ Goes("stopped_identity")
  /\ UNCHANGED <<collector, policy, capture, dns, core, socket, user, controller>>

AfterDrain(halted) == IF halted THEN "remove_identity" ELSE "stopped"

\* A failed stop answer proves nothing: the container is looked at again.
StoppedIdentity ==
  /\ At("stopped_identity")
  /\ \E halted \in BOOLEAN :
       /\ halted => container # "running"
       /\ ops' = [ops EXCEPT !.halted = halted, !.failed = @ \/ ~halted]
       /\ Goes(IF capture # "none" THEN "drain" ELSE AfterDrain(halted))
  /\ UNCHANGED <<collector, daemon, core, socket, user, controller>>

\* capture.close waits for the reader, then closes the stream under it.
Drained == capture' = IF capture = "open" THEN "broken" ELSE capture

Drain ==
  /\ At("drain")
  /\ Drained
  /\ ops' = [ops EXCEPT !.failed = @ \/ capture' # "eof"]
  /\ Goes(AfterDrain(ops.halted))
  /\ UNCHANGED <<collector, container, policy, dns, core, socket, user, controller>>

RemoveIdentity ==
  /\ At("remove_identity")
  /\ \/ Goes("docker_remove") /\ UNCHANGED ops
     \/ StopFails /\ Goes("stopped")
  /\ UNCHANGED <<collector, daemon, core, socket, user, controller>>

DockerRemove ==
  /\ At("docker_remove")
  /\ \E answer \in Outcomes :
       /\ container' = IF answer = "refused" THEN container ELSE "removed"
       /\ IF answer = "ok"
          THEN Goes("verify_absent") /\ UNCHANGED ops
          ELSE StopFails /\ Goes("stopped")
  /\ UNCHANGED <<collector, policy, capture, dns, core, socket, user, controller>>

\* Only the daemon's "not found" proves the absence.
VerifyAbsent ==
  /\ At("verify_absent")
  /\ \/ ops' = [ops EXCEPT !.removed = TRUE, !.stopped = TRUE]
     \/ StopFails
  /\ Goes("stopped")
  /\ UNCHANGED <<collector, daemon, core, socket, user, controller>>

StopEnds ==
  /\ At("stopped")
  /\ \/ /\ Finishing
        /\ core' = [core EXCEPT !.failed = @ \/ ops.failed]
        /\ Goes("quiesce")
     \/ ~Finishing /\ ops.failed /\ Raises
     \/ ~Finishing /\ ~ops.failed /\ Goes("status") /\ UNCHANGED core
  /\ UNCHANGED <<collector, daemon, ops, socket, user, controller>>

-----------------------------------------------------------------------------
(* finish: every part runs, whatever the others said.                      *)

\* Wrong on purpose, for a run that must reject it: the wait for the other process has no bound.
AwaitBrokerUnbounded ==
  /\ At("await") /\ ~controller
  /\ sidecar' = [sidecar EXCEPT !.at = IF core.stopTried THEN "quiesce" ELSE "dns",
                                !.serving = "FINISH"]
  /\ core' = [core EXCEPT !.stopTried = TRUE]
  /\ UNCHANGED <<collector, daemon, ops, socket, user, controller>>

\* The broker owns the TCX link: it gets six seconds to go, and finish begins whether it went.
AwaitBroker ==
  /\ At("await")
  /\ sidecar' = [sidecar EXCEPT !.at = IF core.stopTried THEN "quiesce" ELSE "dns",
                                !.serving = "FINISH"]
  /\ core' = [core EXCEPT !.stopTried = TRUE]
  /\ UNCHANGED <<collector, daemon, ops, socket, user, controller>>

Quiesce ==
  /\ At("quiesce")
  /\ Drained
  /\ core' = [core EXCEPT !.failed = @ \/ capture' = "broken"]
  /\ Goes("inspect")
  /\ UNCHANGED <<collector, container, policy, dns, ops, socket, user, controller>>

\* The inspector's snapshot of the kernel's resources against the one before.
Inspect ==
  /\ At("inspect")
  /\ \E same \in BOOLEAN : core' = [core EXCEPT !.failed = @ \/ ~same]
  /\ Goes("close")
  /\ UNCHANGED <<collector, daemon, ops, socket, user, controller>>

\* Wrong on purpose, for a run that must reject it: the scripts go whatever became of the container.
RemovesPolicyAlways == policy = "present"

\* The scripts go only when nothing can have them mounted.
RemovesPolicy == policy = "present" /\ ops.stopped

Close ==
  /\ At("close")
  /\ \E fails \in BOOLEAN :
       /\ policy' = IF RemovesPolicy /\ ~fails THEN "removed" ELSE policy
       /\ core' = [core EXCEPT !.failed = @ \/ fails, !.closed = TRUE]
  /\ Goes("send")
  /\ UNCHANGED <<collector, container, capture, dns, ops, socket, user, controller>>

\* The process and its end of the socket; the daemon and what was sent stay.
Exits ==
  /\ ops' = NoOps /\ core' = NoCore
  /\ sidecar' = [at |-> "gone", serving |-> "STATUS", sequence |-> 0]
  /\ requests' = <<>>

Verdict == IF core.failed THEN "CLEANUP_UNVERIFIED" ELSE "VERIFIED"

SendFinal ==
  /\ At("send")
  /\ replies' = IF controller
                THEN Append(replies, [sequence |-> 0, error |-> core.error, final |-> Verdict])
                ELSE replies
  /\ Exits
  /\ UNCHANGED <<collector, daemon, user, controller>>

Sidecar ==
  \/ Serve \/ StartDNS \/ Status \/ Reply \/ LeaveLoop
  \/ WritePolicy \/ Create \/ VerifyCreated \/ Attach \/ StartContainer
  \/ CloseDNS \/ EnterStopZeek \/ Ownership \/ DockerStop \/ StoppedIdentity \/ Drain
  \/ RemoveIdentity \/ DockerRemove \/ VerifyAbsent \/ StopEnds
  \/ AwaitBroker \/ Quiesce \/ Inspect \/ Close \/ SendFinal

-----------------------------------------------------------------------------
(* What happens by itself.                                                 *)

ContainerExits ==
  /\ container = "running"
  /\ container' = "exited"
  /\ UNCHANGED <<collector, policy, capture, dns, root, socket, user, controller>>

\* The stream ends with its container, or breaks: a bound, a bad frame, a slow reader.
StreamEnds ==
  /\ capture = "open" /\ ~At("gone")
  /\ \/ container \in {"exited", "removed"} /\ capture' = "eof"
     \/ capture' = "broken"
  /\ UNCHANGED <<collector, container, policy, dns, root, socket, user, controller>>

WorkerExits ==
  /\ dns = "running"
  /\ dns' = "exited"
  /\ UNCHANGED <<collector, container, policy, capture, root, socket, user, controller>>

Killed ==
  /\ ~At("gone")
  /\ Exits
  /\ UNCHANGED <<collector, daemon, replies, user, controller>>

ControllerDies ==
  /\ controller /\ controller' = FALSE
  /\ client' = NoClient /\ pending' = NoRequest /\ runner' = "done" /\ session' = NoSession
  /\ requests' = <<>> /\ replies' = <<>>
  /\ UNCHANGED <<collector, daemon, root, polls>>

Environment ==
  ContainerExits \/ StreamEnds \/ WorkerExits \/ Killed \/ ControllerDies

-----------------------------------------------------------------------------
(* The client: one request at a time, under its lock.                      *)

Idle == controller /\ pending = NoRequest
Channel == session.close # "closed" \/ session.broken

Sends(by, command) ==
  /\ requests' = IF At("gone") THEN requests
                 ELSE Append(requests, [command |-> command, sequence |-> client.sequence + 1])
  /\ client' = [client EXCEPT !.sequence = @ + 1]
  /\ pending' = [by |-> by, command |-> command, sent |-> ~At("gone")]

\* Wrong on purpose, for a run that must reject it: a failed stop is asked for again.
RunnerAfterRetried(ok) ==
  CASE runner = "idle" -> IF ok THEN "running" ELSE "done"
    [] runner # "idle" /\ (pending.command = "STATUS" \/ ~ok) -> runner
    [] runner = "running" /\ pending.command # "STATUS" /\ ok -> "stopped"
    [] OTHER -> "done"

\* What the runner does after an answer, or an exception, to its request.
RunnerAfter(ok) ==
  CASE runner = "idle" -> IF ok THEN "running" ELSE "done"
    [] runner # "idle" /\ pending.command = "STATUS" ->
         IF ok \/ collector = "zeek" THEN runner ELSE "done"
    [] runner = "running" /\ pending.command # "STATUS" -> "stopped"
    [] OTHER -> "done"

\* The caller goes on: the runner, the heartbeat, which closes on an error, or close itself.
Resumes(ok) ==
  /\ pending' = NoRequest
  /\ runner' = IF pending.by = "runner" THEN RunnerAfter(ok) ELSE runner
  /\ session' =
       CASE pending.by = "observer" /\ ~ok -> [session EXCEPT !.error = TRUE, !.close = "stop"]
         [] pending.by = "close" -> [session EXCEPT !.failure = @ \/ ~ok, !.close = "broker"]
         [] OTHER -> session

\* receive rejects anything but a final record once the sidecar's process is gone.
Readable(message) == message.final # "none" \/ ~At("gone")

Answered ==
  /\ controller /\ pending.sent /\ Channel /\ replies # <<>>
  /\ LET m == Head(replies)
         ok == /\ m.final = "none" /\ Readable(m)
               /\ m.sequence = client.sequence /\ ~m.error
     IN /\ client' = [client EXCEPT !.final = IF m.final # "none" THEN m.final ELSE @,
                                    !.stopping = @ \/ (ok /\ pending.command = "STOP")]
        /\ Resumes(ok)
  /\ replies' = Tail(replies)
  /\ UNCHANGED <<collector, daemon, root, requests, polls, controller>>

\* What can take longer than twelve seconds: a start, of several daemon calls of up to five; a
\* stop that waits twelve for the worker; finish, which waits six for the broker; and a request
\* that waits behind one of them.  The stop of a container alone has ten.
Slow ==
  \/ sidecar.at \in {"attach", "start"} \cup FinishStages \cup {"gone"}
  \/ At("status") /\ sidecar.serving = "START_ZEEK"
  \/ sidecar.at \in StopStages /\ (collector = "dns" \/ Finishing)
  \/ ~At("select") /\ sidecar.sequence # client.sequence

\* The twelve seconds are over, or the socket is closed on either side.
Unanswered ==
  /\ controller /\ pending # NoRequest
  /\ ~pending.sent \/ ~Channel \/ (replies = <<>> /\ Slow)
  /\ Resumes(FALSE)
  /\ UNCHANGED <<collector, daemon, root, socket, client, polls, controller>>

-----------------------------------------------------------------------------
(* The threads of the controller.                                          *)

\* StreamProcess.run with a supervisor, or the DNS session: one start, then, for a container
\* that was started, the stop and the question whether it is gone.
RunnerRequest(command) ==
  /\ Idle /\ Channel /\ ~client.stopping
  /\ CASE command = "START_ZEEK" -> runner = "idle" /\ collector = "zeek"
       [] command = "START_DNS" -> runner = "idle" /\ collector = "dns"
       [] command = "STOP_ZEEK" -> runner \in {"running", "stopped"} /\ collector = "zeek"
       [] OTHER -> runner = "running" /\ polls < MaxPolls
  /\ polls' = IF command = "STATUS" THEN polls + 1 ELSE polls
  /\ Sends("runner", command)
  /\ UNCHANGED <<collector, daemon, root, replies, runner, session, controller>>

\* After STOP the client answers from the last status.
RunnerEnds ==
  /\ Idle /\ runner # "done"
  /\ client.stopping \/ ~Channel
  /\ runner' = "done"
  /\ UNCHANGED <<collector, daemon, root, socket, client, pending, polls, session, controller>>

Observe ==
  /\ Idle /\ session.close = "open" /\ polls < MaxPolls
  /\ polls' = polls + 1
  /\ Sends("observer", "STATUS")
  /\ UNCHANGED <<collector, daemon, root, replies, runner, session, controller>>

\* The main thread is done or failed, or the broker's answer to the heartbeat is an error.
BeginClose ==
  /\ controller /\ session.close = "open" /\ pending.by # "observer"
  /\ \E error \in BOOLEAN :
       session' = [session EXCEPT !.close = "stop", !.error = @ \/ error]
  /\ UNCHANGED <<collector, daemon, root, socket, client, pending, polls, runner,
                 controller>>

CloseStop ==
  /\ Idle /\ session.close = "stop"
  /\ IF client.stopping
     THEN /\ session' = [session EXCEPT !.failure = TRUE, !.close = "broker"]
          /\ UNCHANGED <<requests, client, pending>>
     ELSE Sends("close", "STOP") /\ UNCHANGED session
  /\ UNCHANGED <<collector, daemon, root, replies, polls, runner, controller>>

\* Handoff.close: a refused CLEANUP closes the session once more from within; otherwise the
\* control channel is closed and the broker's exit and journal say whether it cleaned up.
CloseBroker ==
  /\ controller /\ session.close = "broker" /\ pending.by # "close"
  /\ \/ /\ ~session.error
        /\ session' = [session EXCEPT !.error = TRUE, !.failure = TRUE, !.close = "stop"]
     \/ \E verified, error \in BOOLEAN :
          /\ session' = [session EXCEPT
                           !.cleanup = IF verified THEN "PROCESS_AND_AUDIT_VERIFIED"
                                       ELSE "CLEANUP_UNVERIFIED",
                           !.error = @ \/ error, !.close = "final"]
  /\ UNCHANGED <<collector, daemon, root, socket, client, pending, polls, runner, controller>>

\* Wrong on purpose, for a run that must reject it: a final record is taken for a clean one.
FailsFinalReceived(verdict) == session.failure

FailsFinal(verdict) == session.failure \/ verdict # "VERIFIED"

\* What the end of close makes of the failures it met.
Concludes(failed) ==
  session' = IF failed
             THEN [session EXCEPT !.failure = TRUE, !.error = TRUE, !.close = "closed",
                                  !.cleanup = "CLEANUP_UNVERIFIED"]
             ELSE [session EXCEPT !.close = "closed"]

\* The final record; of any other record close reads a key it does not have, and the exception
\* leaves close before it has recorded its failures.
CloseFinal ==
  /\ controller /\ session.close = "final"
  /\ \/ /\ client.final # "none"
        /\ Concludes(FailsFinal(client.final))
        /\ UNCHANGED <<replies, client>>
     \/ /\ client.final = "none" /\ replies # <<>>
        /\ LET m == Head(replies) IN
             CASE m.final # "none" ->
                    /\ Concludes(FailsFinal(m.final))
                    /\ client' = [client EXCEPT !.final = m.final]
               [] m.final = "none" /\ ~Readable(m) -> Concludes(TRUE) /\ UNCHANGED client
               [] OTHER ->
                    /\ session' = [session EXCEPT !.close = "closed", !.broken = TRUE]
                    /\ UNCHANGED client
        /\ replies' = Tail(replies)
     \/ /\ client.final = "none" /\ replies = <<>>
        /\ Concludes(TRUE)
        /\ UNCHANGED <<replies, client>>
  /\ UNCHANGED <<collector, daemon, root, requests, pending, polls, runner, controller>>

User ==
  \/ Answered \/ Unanswered \/ RunnerEnds \/ Observe
  \/ \E command \in Commands \ {"STOP"} : RunnerRequest(command)
  \/ BeginClose \/ CloseStop \/ CloseBroker \/ CloseFinal

Next == Sidecar \/ Environment \/ User

Spec == Init /\ [][Next]_vars

\* Every stage of the sidecar is bounded by its timeouts, its loop by the deadline; every
\* receive of the controller is too, and the main thread always comes to close.
Fairness ==
  /\ WF_vars(Sidecar) /\ WF_vars(LeaveLoop)
  /\ WF_vars(Answered \/ Unanswered)
  /\ WF_vars(BeginClose) /\ WF_vars(CloseStop) /\ WF_vars(CloseBroker) /\ WF_vars(CloseFinal)

FairSpec == Spec /\ Fairness

-----------------------------------------------------------------------------
(* Properties.                                                             *)

Ops == [attempted : BOOLEAN, known : BOOLEAN, stopped : BOOLEAN,
        halted : BOOLEAN, removed : BOOLEAN, failed : BOOLEAN]
Core == [stopTried : BOOLEAN, error : BOOLEAN, failed : BOOLEAN, closed : BOOLEAN]
Position == [at : Stages, serving : Commands \cup {"FINISH"}, sequence : Nat]
Finals == {"none", "VERIFIED", "CLEANUP_UNVERIFIED"}
Client == [sequence : 0..MaxPolls + 5, stopping : BOOLEAN, final : Finals]
Session == [close : {"open", "stop", "broker", "final", "closed"}, failure : BOOLEAN,
            error : BOOLEAN, broken : BOOLEAN,
            cleanup : {"NOT_OBSERVED", "PROCESS_AND_AUDIT_VERIFIED", "CLEANUP_UNVERIFIED"}]

\* Type invariant of the daemon, the sidecar, the socket and the session; nothing is asked
\* for again after a failure but the final STOP.
TypeOK ==
  /\ collector \in {"zeek", "dns"}
  /\ container \in {"none", "created", "running", "exited", "removed"}
  /\ policy \in {"none", "present", "removed"}
  /\ capture \in {"none", "open", "eof", "broken"}
  /\ dns \in {"idle", "running", "exited"}
  /\ ops \in Ops /\ core \in Core
  /\ sidecar \in Position
  /\ runner \in {"idle", "running", "stopped", "done"}
  /\ client \in Client
  /\ session \in Session

FinalsSent == {i \in DOMAIN replies : replies[i].final # "none"}
Clean ==
  /\ container \in Gone /\ policy # "present"
  /\ capture \in {"none", "eof"} /\ dns # "running"

\* A final record says VERIFIED only when the container, the policy directory and the worker
\* are gone and the stream came to its end, whatever call failed or lost its answer before.
VerifiedIsClean ==
  \A i \in FinalsSent : replies[i].final = "VERIFIED" => Clean

\* The scripts that are mounted into the container outlive it.
PolicyOutlivesContainer == policy = "removed" => container \in Gone

SaysClosed ==
  /\ session.close = "closed" /\ ~session.error
  /\ session.cleanup = "PROCESS_AND_AUDIT_VERIFIED"

\* A session whose close ran to its end is CLOSED only on the sidecar's VERIFIED.
ClosedIsVerified == SaysClosed /\ ~session.broken => client.final = "VERIFIED" /\ Clean

\* "Unverified cleanup remains ERROR": whatever way close ended.
UnverifiedRemainsError == SaysClosed => client.final = "VERIFIED"

\* A session does not stay: the sidecar is gone at last, and close comes to its end, although
\* any call may fail and any answer be late or lost.
SessionEnds ==
  /\ <>(sidecar.at = "gone")
  /\ <>(session.close = "closed" \/ ~controller)

-----------------------------------------------------------------------------
(* The inductive invariant.                                                *)

Request == [command : Commands, sequence : Nat]
Answer == [sequence : Nat, error : BOOLEAN, final : Finals]
Pending == [by : {"nobody", "runner", "observer", "close"}, command : Commands, sent : BOOLEAN]

\* What TypeOK leaves out, and whose request the client awaits.
SocketOK ==
  /\ requests \in Seq(Request) /\ replies \in Seq(Answer)
  /\ polls \in 0..MaxPolls
  /\ pending \in Pending
  /\ pending.by = "nobody" => pending = NoRequest
  /\ pending.by = "observer" => session.close = "open" /\ pending.command = "STATUS"
  /\ pending.by = "close" => session.close = "stop" /\ pending.command = "STOP"
  /\ pending.by = "runner" =>
       \/ runner = "idle" /\ pending.command \in {"START_ZEEK", "START_DNS"}
       \/ runner = "running" /\ pending.command \in {"STATUS", "STOP_ZEEK"}
       \/ runner = "stopped" /\ pending.command = "STOP_ZEEK"

\* Besides STATUS the runner asks three times at most, and close twice.
RunnerAsked ==
  (IF runner = "idle" THEN 0 ELSE IF runner = "running" THEN 1 ELSE IF runner = "stopped" THEN 2 ELSE 3)
  + (IF pending.by = "runner" /\ pending.command # "STATUS" THEN 1 ELSE 0)
CloseAsked ==
  IF session.close = "open" THEN 0
  ELSE (IF session.error THEN 1 ELSE 0)
       + (IF session.close # "stop" \/ pending.by = "close" THEN 1 ELSE 0)
RequestsCounted == client.sequence <= polls + RunnerAsked + CloseAsked

\* A session drives one collector.
Fits(command) ==
  /\ command \in {"START_ZEEK", "STOP_ZEEK"} => collector = "zeek"
  /\ command = "START_DNS" => collector = "dns"
OneCollector ==
  /\ \A i \in DOMAIN requests : Fits(requests[i].command)
  /\ Fits(sidecar.serving)
  /\ collector = "zeek" => dns = "idle"

Starts == {"START_ZEEK", "START_DNS"}
NotAsked == runner = "idle" /\ pending.by # "runner"
Asked == \E i \in DOMAIN requests : requests[i].command \in Starts

\* Until the one start is served nothing exists, and the sidecar has stopped nothing that it
\* comes back from.
StartComesFirst ==
  /\ \A i, j \in DOMAIN requests :
       requests[i].command \in Starts /\ requests[j].command \in Starts \cup {"STOP_ZEEK"} => i <= j
  /\ NotAsked => \A i \in DOMAIN requests : requests[i].command \notin Starts \cup {"STOP_ZEEK"}
  /\ NotAsked \/ Asked =>
       /\ container = "none" /\ policy = "none" /\ capture = "none" /\ dns # "running"
       /\ ~ops.attempted /\ ~ops.known
       /\ sidecar.serving \notin Starts \cup {"STOP_ZEEK"}
       /\ core.stopTried => sidecar.serving \in {"STOP", "FINISH"}

\* The stages that each command, and finish, takes the sidecar through.
StagesInOrder ==
  /\ sidecar.at \in StartStages => sidecar.serving = "START_ZEEK" /\ ~core.stopTried
  /\ At("start_dns") => sidecar.serving = "START_DNS" /\ ~core.stopTried
  /\ sidecar.at \in {"select", "status", "reply"} => ~Finishing
  /\ At("select") => sidecar.serving # "STOP"
  /\ At("reply") /\ sidecar.serving = "STOP" => core.error \/ core.closed
  /\ sidecar.at \in StopStages =>
       core.stopTried /\ sidecar.serving \in {"STOP", "STOP_ZEEK", "FINISH"}
  /\ sidecar.at \in FinishStages \ {"await"} => core.stopTried /\ Finishing

\* What the sidecar has recorded is so, and what went wrong while it stopped the collector
\* is a cleanup failure by the time it has.
StopIsRecorded ==
  ~At("gone") =>
    /\ container # "none" \/ ops.known => ops.attempted
    /\ sidecar.at \in StartStages \ {"policy"} => ops.attempted
    /\ ops.stopped \/ ops.failed => core.stopTried
    /\ ops.stopped => container \in Gone
    /\ sidecar.at \in StopStages \ {"dns", "zeek", "stopped"} => ops.known
    /\ At("drain") => ops.halted \/ ops.failed
    /\ At("verify_absent") => container = "removed"
    /\ At("stopped") => ops.stopped \/ ops.failed
    /\ sidecar.at \in StopStages \ {"dns"} => ops.failed \/ dns # "running"
    /\ core.stopTried /\ sidecar.at \notin StopStages =>
         core.failed \/ (ops.stopped /\ ~ops.failed /\ dns # "running")

\* What finish has seen to.
FinishIsRecorded ==
  /\ sidecar.at \in {"inspect", "close", "send"} => core.failed \/ capture \in {"none", "eof"}
  /\ At("send") => core.failed \/ policy # "present"
  /\ policy = "removed" => sidecar.at \in {"send", "gone"}

\* A final record is the last thing a sidecar does; the controller has it from there.
FinalsAreLast ==
  /\ FinalsSent # {} \/ client.final # "none" => At("gone")
  /\ client.final = "VERIFIED" => Clean

IInv ==
  /\ TypeOK /\ SocketOK /\ RequestsCounted /\ OneCollector /\ StartComesFirst
  /\ StagesInOrder /\ StopIsRecorded /\ FinishIsRecorded /\ FinalsAreLast
  /\ VerifiedIsClean /\ PolicyOutlivesContainer /\ ClosedIsVerified
=============================================================================
