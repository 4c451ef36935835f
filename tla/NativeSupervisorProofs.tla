------------------------ MODULE NativeSupervisorProofs ------------------------
(***************************************************************************)
(* Proofs about NativeSupervisor: its inductive invariant, that a verified *)
(* cleanup is a real one, that the policy directory outlives its container *)
(* and that a closed session rests on the sidecar's verdict, for any       *)
(* number of status requests.                                              *)
(***************************************************************************)
EXTENDS NativeSupervisor, TLAPS

-----------------------------------------------------------------------------
(* Operators of the model.                                                 *)

\* The positions of a message queue after a message is sent.
LEMMA AppendIndices ==
  ASSUME NEW S, NEW s \in Seq(S), NEW e \in S
  PROVE  /\ Append(s, e) \in Seq(S)
         /\ DOMAIN Append(s, e) = DOMAIN s \cup {Len(s) + 1} /\ DOMAIN s = 1 .. Len(s)
         /\ Len(s) \in Nat /\ Append(s, e)[Len(s) + 1] = e
         /\ \A i \in DOMAIN s : Append(s, e)[i] = s[i]
  OBVIOUS

\* The positions of a message queue after its first message is taken.
LEMMA TailIndices ==
  ASSUME NEW S, NEW s \in Seq(S), s # <<>>
  PROVE  /\ Head(s) \in S /\ Head(s) = s[1] /\ 1 \in DOMAIN s /\ Tail(s) \in Seq(S)
         /\ DOMAIN s \subseteq Int /\ DOMAIN Tail(s) \subseteq Int
         /\ \A i \in DOMAIN s : 1 <= i
         /\ \A i \in DOMAIN Tail(s) : i + 1 \in DOMAIN s /\ Tail(s)[i] = s[i + 1]
  OBVIOUS

\* The sidecar moves to a stage.
LEMMA Moved ==
  ASSUME TypeOK, NEW stage \in Stages, Goes(stage)
  PROVE  /\ sidecar' \in Position /\ sidecar'.at = stage
         /\ sidecar'.serving = sidecar.serving /\ sidecar'.sequence = sidecar.sequence
  BY DEF TypeOK, Position, Goes

\* An exception ends in the answer, and is a cleanup failure when a stop raised it.
LEMMA Raised ==
  ASSUME TypeOK, Raises
  PROVE  /\ core' \in Core /\ core'.error /\ core'.stopTried = core.stopTried
         /\ core'.closed = core.closed
         /\ core'.failed <=> core.failed \/ sidecar.serving \in {"STOP", "STOP_ZEEK"}
         /\ sidecar' \in Position /\ sidecar'.at = "reply"
         /\ sidecar'.serving = sidecar.serving /\ sidecar'.sequence = sidecar.sequence
  <1>1. /\ sidecar' \in Position /\ sidecar'.at = "reply"
        /\ sidecar'.serving = sidecar.serving /\ sidecar'.sequence = sidecar.sequence
    BY Moved DEF Raises, Stages
  <1>2. core \in Core
    BY DEF TypeOK
  <1>3. CASE core.failed \/ sidecar.serving \in {"STOP", "STOP_ZEEK"}
    <2>1. core' = [core EXCEPT !.error = TRUE, !.failed = TRUE]
      BY <1>3 DEF Raises
    <2>2. QED
      BY <1>1, <1>2, <1>3, <2>1 DEF Core
  <1>4. CASE ~(core.failed \/ sidecar.serving \in {"STOP", "STOP_ZEEK"})
    <2>1. core' = [core EXCEPT !.error = TRUE, !.failed = FALSE]
      BY <1>4 DEF Raises
    <2>2. QED
      BY <1>1, <1>2, <1>4, <2>1 DEF Core
  <1>5. QED
    BY <1>3, <1>4

\* A stop that failed is recorded by the operations.
LEMMA StopFailed ==
  ASSUME TypeOK, StopFails
  PROVE  /\ ops' \in Ops /\ ops'.failed /\ ops'.attempted = ops.attempted
         /\ ops'.known = ops.known /\ ops'.stopped = ops.stopped /\ ops'.halted = ops.halted
  BY DEF TypeOK, Ops, StopFails

\* While a command of the runner is served, no start is on its way or yet to be sent.
LEMMA NoStartAhead ==
  ASSUME IInv, sidecar.serving \in Starts \cup {"STOP_ZEEK"} \/ ops.attempted \/ ops.known
  PROVE  ~NotAsked /\ ~Asked
  BY DEF IInv, StartComesFirst

\* What a step of the sidecar need not be asked about: the user's side, the finals, and the
\* start that comes first.
LEMMA SidecarFrame ==
  ASSUME IInv, ~At("gone"), UNCHANGED <<collector, socket, user, controller>>,
         container' \in {"none", "created", "running", "exited", "removed"},
         policy' \in {"none", "present", "removed"},
         capture' \in {"none", "open", "eof", "broken"},
         dns' \in {"idle", "running", "exited"}, collector = "zeek" => dns' = "idle",
         ops' \in Ops, core' \in Core, sidecar' \in Position,
         sidecar'.serving \in {sidecar.serving, "FINISH"},
         NotAsked \/ Asked =>
           /\ container' = "none" /\ policy' = "none" /\ capture' = "none" /\ dns' # "running"
           /\ ~ops'.attempted /\ ~ops'.known
           /\ core'.stopTried => core.stopTried \/ sidecar'.serving \in {"STOP", "FINISH"},
         StagesInOrder', StopIsRecorded', FinishIsRecorded', PolicyOutlivesContainer'
  PROVE  IInv'
  <1> USE DEF IInv, socket, user
  <1>1. TypeOK'
    BY DEF TypeOK
  <1>2. SocketOK' /\ RequestsCounted'
    BY DEF SocketOK, RequestsCounted, RunnerAsked, CloseAsked
  <1>3. OneCollector'
    BY DEF OneCollector, Fits
  <1>4. StartComesFirst'
    BY DEF StartComesFirst, NotAsked, Asked, Starts
  <1>5. FinalsSent = {} /\ client.final = "none" /\ FinalsSent' = {}
    BY DEF FinalsAreLast, FinalsSent, TypeOK, Client, Finals
  <1>6. FinalsAreLast' /\ VerifiedIsClean' /\ ClosedIsVerified'
    BY <1>5 DEF FinalsAreLast, VerifiedIsClean, ClosedIsVerified, SaysClosed
  <1>7. QED
    BY <1>1, <1>2, <1>3, <1>4, <1>6

\* A sidecar that is gone knows nothing, and takes its end of the socket with it.
LEMMA SidecarGone ==
  ASSUME IInv, ops' = NoOps, core' = NoCore, requests' = <<>>,
         sidecar' = [at |-> "gone", serving |-> "STATUS", sequence |-> 0],
         UNCHANGED <<collector, daemon, user, controller>>,
         SocketOK', RequestsCounted', FinalsAreLast', VerifiedIsClean', ClosedIsVerified'
  PROVE  IInv'
  <1> USE DEF IInv
  <1>1. TypeOK'
    <2>1. NoOps \in Ops /\ NoCore \in Core /\ sidecar' \in Position
      BY DEF NoOps, Ops, NoCore, Core, Position, Stages, Commands
    <2>2. QED
      BY <2>1 DEF TypeOK, daemon, user
  <1>2. OneCollector' /\ StartComesFirst'
    BY DEF OneCollector, Fits, StartComesFirst, NotAsked, Asked, Starts, NoOps, NoCore, daemon, user
  <1>3. StagesInOrder' /\ StopIsRecorded' /\ FinishIsRecorded' /\ PolicyOutlivesContainer'
    BY DEF StagesInOrder, StopIsRecorded, FinishIsRecorded, PolicyOutlivesContainer, At, Finishing,
           StartStages, StopStages, FinishStages, daemon
  <1>4. QED
    BY <1>1, <1>2, <1>3

\* What a step of the user need not be asked about.
LEMMA RootStays ==
  ASSUME IInv, UNCHANGED <<daemon, root>>
  PROVE  StagesInOrder' /\ StopIsRecorded' /\ FinishIsRecorded' /\ PolicyOutlivesContainer'
  BY DEF IInv, daemon, root, StagesInOrder, StopIsRecorded, FinishIsRecorded,
         PolicyOutlivesContainer, Finishing, At

-----------------------------------------------------------------------------
(* The initial state.                                                      *)

\* Nothing has been asked for.
LEMMA InitInvariant == Init => IInv
  <1> SUFFICES ASSUME Init
               PROVE  IInv
    OBVIOUS
  <1> USE SupervisorAssumption DEF Init
  <1>1. TypeOK
    <2>1. NoOps \in Ops /\ NoCore \in Core /\ NoClient \in Client /\ NoSession \in Session
      BY DEF NoOps, Ops, NoCore, Core, NoClient, Client, Finals, NoSession, Session
    <2>2. sidecar \in Position
      BY DEF Position, Stages, Commands
    <2>3. QED
      BY <2>1, <2>2 DEF TypeOK
  <1>2. SocketOK
    BY DEF SocketOK, NoRequest, Pending, Commands
  <1>3. RequestsCounted /\ OneCollector
    BY DEF RequestsCounted, RunnerAsked, CloseAsked, OneCollector, Fits, NoClient, NoSession, NoRequest
  <1>4. StartComesFirst
    BY DEF StartComesFirst, Starts, NoOps, NoCore
  <1>5. StagesInOrder /\ StopIsRecorded /\ FinishIsRecorded /\ PolicyOutlivesContainer
    BY DEF StagesInOrder, StopIsRecorded, FinishIsRecorded, PolicyOutlivesContainer, At, Finishing,
           StartStages, StopStages, FinishStages, NoOps, NoCore
  <1>6. FinalsAreLast /\ VerifiedIsClean /\ ClosedIsVerified
    BY DEF FinalsAreLast, VerifiedIsClean, ClosedIsVerified, SaysClosed, FinalsSent, NoClient, NoSession
  <1>7. QED
    BY <1>1, <1>2, <1>3, <1>4, <1>5, <1>6 DEF IInv

-----------------------------------------------------------------------------
(* The sidecar starts the collector.                                       *)

\* The DNS worker starts once.
LEMMA StartDNSStep ==
  ASSUME IInv, StartDNS
  PROVE  IInv'
  <1> USE DEF IInv
  <1>1. /\ At("start_dns") /\ UNCHANGED <<collector, container, policy, capture, ops, socket, user, controller>>
        /\ \/ dns' = "running" /\ Goes("status") /\ UNCHANGED core
           \/ Raises /\ UNCHANGED dns
    BY DEF StartDNS
  <1>2. /\ core' \in Core /\ core'.stopTried = core.stopTried /\ sidecar' \in Position
        /\ sidecar'.serving = sidecar.serving /\ sidecar'.at \in {"status", "reply"}
        /\ core.failed => core'.failed
    BY <1>1, Moved, Raised DEF TypeOK, Stages
  <1>3. collector = "dns" /\ sidecar.serving = "START_DNS" /\ ~core.stopTried
    BY <1>1 DEF OneCollector, Fits, StagesInOrder, TypeOK
  <1>4. ~NotAsked /\ ~Asked
    BY <1>3, NoStartAhead DEF Starts
  <1>5. StagesInOrder' /\ StopIsRecorded' /\ FinishIsRecorded' /\ PolicyOutlivesContainer'
    BY <1>1, <1>2, <1>3 DEF StagesInOrder, StopIsRecorded, FinishIsRecorded, PolicyOutlivesContainer, Gone,
       At, Finishing, StartStages, StopStages, FinishStages
  <1>6. QED
    BY <1>1, <1>2, <1>3, <1>4, <1>5, SidecarFrame DEF TypeOK, At

\* Each step of the start of a container: the next stage, or an exception.
LEMMA StartZeekStep ==
  ASSUME IInv, WritePolicy \/ Create \/ VerifyCreated \/ Attach \/ StartContainer
  PROVE  IInv'
  <1> USE DEF IInv
  <1>1. /\ sidecar.at \in StartStages /\ UNCHANGED <<collector, dns, socket, user, controller>>
        /\ \/ Raises
           \/ /\ UNCHANGED core
              /\ \/ At("policy") /\ Goes("create")
                 \/ At("create") /\ Goes("verify")
                 \/ At("verify") /\ Goes("attach")
                 \/ At("attach") /\ Goes("start")
                 \/ At("start") /\ Goes("status")
    <2>1. CASE WritePolicy
      BY <2>1 DEF WritePolicy, At, StartStages
    <2>2. CASE Create
      BY <2>2 DEF Create, At, StartStages
    <2>3. CASE VerifyCreated
      BY <2>3 DEF VerifyCreated, At, StartStages, daemon
    <2>4. CASE Attach
      BY <2>4 DEF Attach, At, StartStages
    <2>5. CASE StartContainer
      BY <2>5 DEF StartContainer, At, StartStages
    <2>6. QED
      BY <2>1, <2>2, <2>3, <2>4, <2>5
  <1>2. sidecar.serving = "START_ZEEK" /\ ~core.stopTried /\ ~At("gone")
    BY <1>1 DEF StagesInOrder, At, StartStages
  <1>3. /\ core' \in Core /\ ~core'.stopTried /\ sidecar' \in Position
        /\ sidecar'.serving = sidecar.serving
        /\ sidecar'.at \in (StartStages \ {"policy"}) \cup {"status", "reply"}
    BY <1>1, <1>2, Moved, Raised DEF TypeOK, Stages, StartStages
  <1>4. ~NotAsked /\ ~Asked
    BY <1>2, NoStartAhead DEF Starts
  <1>5. /\ container' \in {"none", "created", "running", "exited", "removed"}
        /\ policy' \in {policy, "present"} /\ policy' \in {"none", "present", "removed"}
        /\ capture' \in {"none", "open", "eof", "broken"}
    BY DEF WritePolicy, Create, VerifyCreated, Attach, StartContainer, TypeOK, daemon
  <1>6. /\ ops' \in Ops /\ ops'.stopped = ops.stopped /\ ops'.failed = ops.failed
        /\ ops.attempted => ops'.attempted
    BY DEF WritePolicy, Create, VerifyCreated, Attach, StartContainer, TypeOK, Ops
  <1>7. container' # "none" \/ ops'.known => ops'.attempted
    <2>1. CASE UNCHANGED <<container, ops>> \/ WritePolicy
      <3>1. UNCHANGED container /\ ops'.known = ops.known
        BY <2>1 DEF WritePolicy, TypeOK, Ops
      <3>2. QED
        BY <1>2, <1>6, <3>1 DEF StopIsRecorded
    <2>2. CASE Create \/ StartContainer
      <3>1. ops.attempted
        BY <2>2 DEF Create, StartContainer, StopIsRecorded, StartStages, At
      <3>2. QED
        BY <1>6, <3>1
    <2>3. QED
      BY <2>1, <2>2 DEF VerifyCreated, Attach, daemon
  <1>8. StagesInOrder'
    BY <1>2, <1>3 DEF StagesInOrder, At, Finishing, StartStages, StopStages, FinishStages
  <1>9. ~ops'.stopped /\ ~ops'.failed
    BY <1>2, <1>6 DEF StopIsRecorded
  <1>10. ops'.attempted \/ sidecar'.at \notin StartStages
    <2>1. CASE Raises
      BY <2>1, Raised DEF StartStages
    <2>2. CASE At("policy") /\ ~Raises
      BY <2>2 DEF WritePolicy, Create, VerifyCreated, Attach, StartContainer, At, TypeOK, Ops
    <2>3. CASE ~At("policy")
      BY <1>1, <1>2, <1>6, <2>3 DEF StopIsRecorded, At
    <2>4. QED
      BY <2>1, <2>2, <2>3
  <1>11. StopIsRecorded'
    BY <1>2, <1>3, <1>7, <1>9, <1>10 DEF StopIsRecorded, At, StartStages, StopStages
  <1>12. policy' # "removed" /\ FinishIsRecorded' /\ PolicyOutlivesContainer'
    BY <1>1, <1>3, <1>5 DEF FinishIsRecorded, PolicyOutlivesContainer, At, StartStages
  <1>13. collector = "zeek" => dns' = "idle"
    BY <1>1 DEF OneCollector
  <1>14. QED
    BY <1>1, <1>2, <1>3, <1>4, <1>5, <1>6, <1>8, <1>11, <1>12, <1>13, SidecarFrame DEF TypeOK

-----------------------------------------------------------------------------
(* The loop of the sidecar.                                                *)

\* Where a command goes; a stop goes through the stop stages once.
LEMMA WhereDispatched ==
  ASSUME NEW command \in Commands
  PROVE  /\ command = "START_ZEEK" => Dispatched(command) = "policy"
         /\ command = "START_DNS" => Dispatched(command) = "start_dns"
         /\ command \in {"STOP", "STOP_ZEEK"} /\ ~core.stopTried => Dispatched(command) = "dns"
         /\ command \in {"STOP", "STOP_ZEEK"} /\ core.stopTried => Dispatched(command) = "status"
         /\ command = "STATUS" => Dispatched(command) = "status"
  BY DEF Commands, Dispatched

\* The next request is taken: a start finds nothing yet, and nothing stopped.
LEMMA ServeStep ==
  ASSUME IInv, Serve
  PROVE  IInv'
  <1> USE DEF IInv
  <1> DEFINE r == Head(requests)
             tried == [core EXCEPT !.stopTried = @ \/ r.command \in {"STOP", "STOP_ZEEK"}]
  <1>1. /\ At("select") /\ requests # <<>> /\ requests' = Tail(requests) /\ core' = tried
        /\ sidecar' = [at |-> Dispatched(r.command), serving |-> r.command, sequence |-> r.sequence]
        /\ UNCHANGED <<collector, daemon, ops, replies, user, controller>>
    BY DEF Serve
  <1>2. requests \in Seq(Request)
    BY DEF SocketOK
  <1>3. /\ r \in Request /\ r = requests[1] /\ 1 \in DOMAIN requests /\ Tail(requests) \in Seq(Request)
        /\ \A i \in DOMAIN requests : 1 <= i
        /\ DOMAIN requests \subseteq Int /\ DOMAIN Tail(requests) \subseteq Int
        /\ \A i \in DOMAIN Tail(requests) :
             i + 1 \in DOMAIN requests /\ Tail(requests)[i] = requests[i + 1]
    BY <1>1, <1>2, TailIndices
  <1>4. r.command \in Commands /\ r.sequence \in Nat
    BY <1>3 DEF Request
  <1>5. /\ tried \in Core /\ tried.failed = core.failed /\ tried.error = core.error
        /\ tried.stopTried <=> core.stopTried \/ r.command \in {"STOP", "STOP_ZEEK"}
    <2>1. core \in Core
      BY DEF TypeOK
    <2>2. CASE r.command \in {"STOP", "STOP_ZEEK"}
      <3>1. tried = [core EXCEPT !.stopTried = TRUE]
        BY <2>2
      <3>2. QED
        BY <2>1, <2>2, <3>1 DEF Core
    <2>3. CASE r.command \notin {"STOP", "STOP_ZEEK"}
      <3>1. tried = core
        BY <2>1, <2>3 DEF Core
      <3>2. QED
        BY <2>1, <2>3, <3>1
    <2>4. QED
      BY <2>2, <2>3
  <1> HIDE DEF r, tried
  <1>6. /\ sidecar' \in Position /\ sidecar'.at = Dispatched(r.command)
        /\ sidecar'.serving = r.command
        /\ sidecar'.at \in {"policy", "start_dns", "dns", "status"}
    BY <1>1, <1>4, WhereDispatched DEF Position, Stages, StartStages, StopStages, Commands
  <1>7. TypeOK'
    BY <1>1, <1>5, <1>6 DEF TypeOK, daemon, user
  <1>8. SocketOK' /\ RequestsCounted' /\ OneCollector'
    BY <1>1, <1>3, <1>4, <1>6
    DEF SocketOK, RequestsCounted, RunnerAsked, CloseAsked, OneCollector, Fits, daemon, user
  <1>9. r.command \in Starts => ~core.stopTried /\ ~ops.attempted /\ container = "none"
    BY <1>1, <1>3 DEF StartComesFirst, Asked, StagesInOrder, At, Finishing
  <1>10. StartComesFirst'
    <2>1. NotAsked' => NotAsked /\ r.command \notin Starts \cup {"STOP_ZEEK"}
      BY <1>1, <1>3 DEF NotAsked, StartComesFirst, user
    <2>2. Asked' => Asked /\ r.command \notin Starts \cup {"STOP_ZEEK"}
      <3>1. SUFFICES ASSUME NEW i \in DOMAIN Tail(requests), Tail(requests)[i].command \in Starts
                     PROVE  Asked /\ r.command \notin Starts \cup {"STOP_ZEEK"}
        BY <1>1 DEF Asked
      <3>2. i + 1 \in DOMAIN requests /\ requests[i + 1].command \in Starts /\ i \in Int /\ 1 <= i
        BY <1>2, <1>3, <3>1, TailIndices
      <3>3. Asked
        BY <3>2 DEF Asked
      <3>4. ~(i + 1 <= 1)
        BY <3>2
      <3>5. QED
        BY <1>3, <3>2, <3>3, <3>4 DEF StartComesFirst
    <2>3. \A i, j \in DOMAIN requests' :
            requests'[i].command \in Starts /\ requests'[j].command \in Starts \cup {"STOP_ZEEK"}
              => i <= j
      <3> SUFFICES ASSUME NEW i \in DOMAIN Tail(requests), NEW j \in DOMAIN Tail(requests),
                          Tail(requests)[i].command \in Starts,
                          Tail(requests)[j].command \in Starts \cup {"STOP_ZEEK"}
                   PROVE  i <= j
        BY <1>1
      <3>1. i + 1 <= j + 1
        BY <1>3 DEF StartComesFirst
      <3>2. QED
        BY <1>3, <3>1
    <2>4. NotAsked' => \A i \in DOMAIN requests' : requests'[i].command \notin Starts \cup {"STOP_ZEEK"}
      BY <1>1, <1>3, <2>1 DEF StartComesFirst
    <2>5. NotAsked' \/ Asked' =>
            /\ core'.stopTried => sidecar'.serving \in {"STOP", "FINISH"}
            /\ sidecar'.serving \notin Starts \cup {"STOP_ZEEK"}
      <3>1. NotAsked' \/ Asked' => ~core.stopTried
        BY <1>1, <2>1, <2>2 DEF StartComesFirst, StagesInOrder, At, Finishing
      <3>2. QED
        BY <1>1, <1>5, <1>6, <2>1, <2>2, <3>1
    <2>6. QED
      BY <1>1, <2>1, <2>2, <2>3, <2>4, <2>5 DEF StartComesFirst, daemon
  <1>11. StagesInOrder'
    BY <1>1, <1>4, <1>5, <1>6, <1>9, WhereDispatched
    DEF StagesInOrder, At, Finishing, StartStages, StopStages, FinishStages, Commands, Starts
  <1>12. StopIsRecorded'
    <2>1. ~At("gone") /\ sidecar.at \notin StopStages
      BY <1>1 DEF At, StopStages
    <2>2. sidecar'.at = "dns" \/ (sidecar'.at \notin StopStages /\ (core'.stopTried => core.stopTried))
      BY <1>1, <1>4, <1>5, <1>6, WhereDispatched DEF StopStages, Commands
    <2>3. QED
      BY <1>1, <1>5, <1>6, <2>1, <2>2 DEF StopIsRecorded, At, StartStages, StopStages, daemon
  <1>13. FinishIsRecorded' /\ PolicyOutlivesContainer'
    BY <1>1, <1>6 DEF FinishIsRecorded, PolicyOutlivesContainer, At, daemon
  <1>14. FinalsAreLast' /\ VerifiedIsClean' /\ ClosedIsVerified'
    BY <1>1 DEF FinalsAreLast, VerifiedIsClean, ClosedIsVerified, SaysClosed, FinalsSent, Clean, At,
                TypeOK, Client, Finals, daemon, user
  <1>15. QED
    BY <1>7, <1>8, <1>10, <1>11, <1>12, <1>13, <1>14

\* Leaving the loop, or a status, moves the sidecar alone.
LEMMA LoopStep ==
  ASSUME IInv, LeaveLoop \/ Status
  PROVE  IInv'
  <1> USE DEF IInv
  <1>1. /\ UNCHANGED <<collector, daemon, ops, socket, user, controller>>
        /\ \/ At("select") /\ Goes("await") /\ UNCHANGED core
           \/ At("status") /\ Raises
           \/ /\ At("status") /\ Goes("reply")
              /\ core' = [core EXCEPT !.closed = sidecar.serving = "STOP"]
    BY DEF LeaveLoop, Status
  <1>2. /\ core' \in Core /\ core'.stopTried = core.stopTried /\ sidecar' \in Position
        /\ core.failed => core'.failed
        /\ sidecar'.serving = sidecar.serving
        /\ sidecar'.at = "await" \/ /\ sidecar'.at = "reply"
                                    /\ sidecar.serving = "STOP" => core'.error \/ core'.closed
    <2>1. CASE At("select") /\ Goes("await") /\ UNCHANGED core
      BY <2>1, Moved DEF TypeOK, Stages, FinishStages
    <2>2. CASE Raises
      BY <2>2, Raised
    <2>3. CASE Goes("reply") /\ core' = [core EXCEPT !.closed = sidecar.serving = "STOP"]
      <3>1. core \in Core
        BY DEF TypeOK
      <3>2. CASE sidecar.serving = "STOP"
        <4>1. core' = [core EXCEPT !.closed = TRUE]
          BY <2>3, <3>2
        <4>2. QED
          BY <2>3, <3>1, <4>1, Moved DEF Core, Stages
      <3>3. CASE sidecar.serving # "STOP"
        <4>1. core' = [core EXCEPT !.closed = FALSE]
          BY <2>3, <3>3
        <4>2. QED
          BY <2>3, <3>1, <3>3, <4>1, Moved DEF Core, Stages
      <3>4. QED
        BY <3>2, <3>3
    <2>4. QED
      BY <1>1, <2>1, <2>2, <2>3
  <1>3. ~At("gone") /\ sidecar.at \in {"select", "status"}
    BY <1>1 DEF At
  <1>4. StagesInOrder'
    BY <1>2, <1>3 DEF StagesInOrder, At, Finishing, StartStages, StopStages, FinishStages
  <1>5. StopIsRecorded'
    BY <1>1, <1>2, <1>3 DEF StopIsRecorded, At, StartStages, StopStages, daemon
  <1>6. FinishIsRecorded' /\ PolicyOutlivesContainer'
    BY <1>1, <1>2, <1>3 DEF FinishIsRecorded, PolicyOutlivesContainer, At, daemon
  <1>7. NotAsked \/ Asked =>
          /\ container' = "none" /\ policy' = "none" /\ capture' = "none" /\ dns' # "running"
          /\ ~ops'.attempted /\ ~ops'.known
    BY <1>1 DEF StartComesFirst, daemon
  <1>8. QED
    BY <1>1, <1>2, <1>3, <1>4, <1>5, <1>6, <1>7, SidecarFrame DEF TypeOK, OneCollector, daemon

\* An answer is no final record.
LEMMA ReplyStep ==
  ASSUME IInv, Reply
  PROVE  IInv'
  <1> USE DEF IInv
  <1> DEFINE m == [sequence |-> sidecar.sequence, error |-> core.error, final |-> "none"]
             stage == IF core.error \/ core.closed THEN "await" ELSE "select"
  <1>1. /\ At("reply") /\ Goes(stage) /\ replies' \in {replies, Append(replies, m)}
        /\ UNCHANGED <<collector, daemon, ops, core, requests, user, controller>>
    BY DEF Reply
  <1>2. /\ sidecar' \in Position /\ sidecar'.at = stage /\ sidecar'.serving = sidecar.serving
        /\ sidecar'.at \in {"await", "select"}
    BY <1>1, Moved DEF Stages, FinishStages
  <1>3. sidecar'.at = "select" => sidecar.serving # "STOP"
    BY <1>1, <1>2 DEF StagesInOrder
  <1>4. m \in Answer /\ m.final = "none"
    BY DEF Answer, TypeOK, Position, Core, Finals
  <1> HIDE DEF m, stage
  <1>5. replies' \in Seq(Answer) /\ FinalsSent' = FinalsSent
    <2>1. replies \in Seq(Answer)
      BY DEF SocketOK
    <2>2. CASE replies' = Append(replies, m)
      BY <1>4, <2>1, <2>2, AppendIndices DEF FinalsSent
    <2>3. QED
      BY <1>1, <2>1, <2>2 DEF FinalsSent
  <1>6. FinalsSent = {} /\ client.final = "none"
    BY <1>1 DEF FinalsAreLast, FinalsSent, At, TypeOK, Client, Finals
  <1>7. TypeOK' /\ SocketOK' /\ RequestsCounted' /\ OneCollector'
    BY <1>1, <1>2, <1>5
    DEF TypeOK, SocketOK, RequestsCounted, RunnerAsked, CloseAsked, OneCollector, Fits, daemon, user
  <1>8. StartComesFirst' /\ StagesInOrder'
    BY <1>1, <1>2, <1>3 DEF StartComesFirst, NotAsked, Asked, StagesInOrder, At, Finishing, StartStages,
       StopStages, FinishStages, daemon, user
  <1>9. StopIsRecorded' /\ FinishIsRecorded' /\ PolicyOutlivesContainer'
    BY <1>1, <1>2 DEF StopIsRecorded, FinishIsRecorded, PolicyOutlivesContainer, At, StartStages,
       StopStages, daemon
  <1>10. FinalsAreLast' /\ VerifiedIsClean' /\ ClosedIsVerified'
    BY <1>1, <1>5, <1>6 DEF FinalsAreLast, VerifiedIsClean, ClosedIsVerified, SaysClosed, daemon, user
  <1>11. QED
    BY <1>7, <1>8, <1>9, <1>10

-----------------------------------------------------------------------------
(* The stop of the collector.                                              *)

\* Any step within the stop: the container does not come back, a worker that runs or a
\* container that is not proved absent is a failure.
LEMMA StopFrame ==
  ASSUME IInv, sidecar.at \in StopStages, NEW stage \in StopStages \ {"dns"}, Goes(stage),
         UNCHANGED <<collector, policy, core, socket, user, controller>>,
         container' \in {container, "exited", "removed"}, container' = container \/ ops.known,
         capture' = capture \/ (capture = "open" /\ capture' = "broken"),
         dns' = dns \/ (collector = "dns" /\ dns' = "exited"),
         ops' \in Ops, ops'.attempted = ops.attempted, ops'.known = ops.known,
         ops'.stopped => container' \in Gone,
         stage \notin {"zeek", "stopped"} => ops.known,
         stage = "drain" => ops'.halted \/ ops'.failed,
         stage = "verify_absent" => container' = "removed",
         stage = "stopped" => ops'.stopped \/ ops'.failed,
         ops'.failed \/ dns' # "running"
  PROVE  IInv'
  <1> USE DEF IInv
  <1>1. /\ sidecar' \in Position /\ sidecar'.at = stage /\ sidecar'.serving = sidecar.serving
    BY Moved DEF Stages
  <1>2. /\ ~At("gone") /\ core.stopTried /\ core.stopTried' = core.stopTried
        /\ sidecar.at \notin {"send", "gone"} /\ stage \notin {"inspect", "close", "send", "reply", "select", "status"}
        /\ sidecar.serving \in {"STOP", "STOP_ZEEK", "FINISH"}
    BY DEF At, StopStages, StagesInOrder
  <1>3. StagesInOrder'
    BY <1>1, <1>2 DEF StagesInOrder, At, Finishing, StartStages, StopStages, FinishStages
  <1>4. StopIsRecorded'
    <2>1. container' # "none" \/ ops'.known => ops'.attempted
      BY <1>2 DEF StopIsRecorded
    <2>2. sidecar'.at \notin StartStages
      BY <1>1 DEF StartStages, StopStages
    <2>3. QED
      BY <1>1, <1>2, <2>1, <2>2 DEF StopIsRecorded, At
  <1>5. FinishIsRecorded' /\ PolicyOutlivesContainer'
    BY <1>1, <1>2 DEF FinishIsRecorded, PolicyOutlivesContainer, At, StopStages
  <1>6. NotAsked \/ Asked =>
          /\ container' = "none" /\ policy' = "none" /\ capture' = "none" /\ dns' # "running"
          /\ ~ops'.attempted /\ ~ops'.known
    BY DEF StartComesFirst
  <1>7. QED
    BY <1>1, <1>2, <1>3, <1>4, <1>5, <1>6, SidecarFrame DEF TypeOK, OneCollector

\* What holds at every stage of the stop.
LEMMA StopBegan ==
  ASSUME IInv, sidecar.at \in StopStages
  PROVE  /\ core.stopTried /\ ops \in Ops
         /\ ops.stopped => container \in Gone
         /\ sidecar.at \notin {"dns", "zeek", "stopped"} => ops.known
         /\ sidecar.at # "dns" => ops.failed \/ dns # "running"
         /\ container # "none" => ops.attempted
         /\ sidecar.at = "drain" => ops.halted \/ ops.failed
         /\ sidecar.at = "verify_absent" => container = "removed"
         /\ sidecar.at = "stopped" => ops.stopped \/ ops.failed
  BY DEF IInv, StopIsRecorded, StagesInOrder, StopStages, At, TypeOK

\* The worker is awaited; one that does not exit is a failure.
LEMMA CloseDNSStep ==
  ASSUME IInv, CloseDNS
  PROVE  IInv'
  <1>1. /\ sidecar.at = "dns" /\ Goes("zeek") /\ sidecar.at \in StopStages
        /\ UNCHANGED <<collector, container, policy, capture, core, socket, user, controller>>
        /\ \/ /\ collector = "zeek" \/ dns \in {"idle", "exited"}
              /\ dns' = IF collector = "dns" THEN "exited" ELSE dns
              /\ UNCHANGED ops
           \/ StopFails /\ UNCHANGED dns
    BY DEF CloseDNS, At, StopStages
  <1>2. /\ ops' \in Ops /\ ops'.attempted = ops.attempted /\ ops'.known = ops.known
        /\ ops'.stopped = ops.stopped
        /\ ops'.failed \/ (dns' # "running" /\ (dns' = dns \/ (collector = "dns" /\ dns' = "exited")))
        /\ dns' = dns \/ (collector = "dns" /\ dns' = "exited")
    BY <1>1, StopFailed, StopBegan DEF IInv, OneCollector, TypeOK
  <1>3. QED
    BY <1>1, <1>2, StopBegan, StopFrame DEF StopStages

\* Nothing was asked for, or something whose id is unknown, or a container to stop.
LEMMA EnterStopStep ==
  ASSUME IInv, EnterStopZeek
  PROVE  IInv'
  <1>1. /\ sidecar.at = "zeek" /\ sidecar.at \in StopStages
        /\ UNCHANGED <<collector, container, policy, capture, dns, core, socket, user, controller>>
    BY DEF EnterStopZeek, At, StopStages, daemon
  <1>2. ops \in Ops
    BY <1>1, StopBegan
  <1>3. CASE ~ops.known /\ ~ops.attempted /\ ops' = [ops EXCEPT !.stopped = TRUE] /\ Goes("stopped")
    <2>1. /\ ops' \in Ops /\ ops'.attempted = ops.attempted /\ ops'.known = ops.known
          /\ ops'.stopped /\ ops'.failed = ops.failed
      BY <1>2, <1>3 DEF Ops
    <2>2. container = "none"
      BY <1>1, <1>3, StopBegan
    <2>3. QED
      BY <1>1, <1>3, <2>1, <2>2, StopBegan, StopFrame DEF StopStages, Gone
  <1>4. CASE StopFails /\ Goes("stopped")
    BY <1>1, <1>4, StopFailed, StopBegan, StopFrame DEF StopStages, IInv
  <1>5. CASE ops.known /\ Goes("ownership") /\ UNCHANGED ops
    BY <1>1, <1>2, <1>5, StopBegan, StopFrame DEF StopStages
  <1>6. QED
    BY <1>3, <1>4, <1>5 DEF EnterStopZeek

\* A question to the daemon: the next stage, or a failure that ends the stop.
LEMMA IdentityStep ==
  ASSUME IInv, Ownership \/ RemoveIdentity
  PROVE  IInv'
  <1>1. /\ sidecar.at \in {"ownership", "remove_identity"} /\ sidecar.at \in StopStages
        /\ UNCHANGED <<collector, container, policy, capture, dns, core, socket, user, controller>>
        /\ \/ UNCHANGED ops /\ \E stage \in {"docker_stop", "stopped_identity", "docker_remove"} : Goes(stage)
           \/ StopFails /\ Goes("stopped")
    BY DEF Ownership, RemoveIdentity, At, StopStages, daemon
  <1>2. CASE StopFails /\ Goes("stopped")
    BY <1>1, <1>2, StopFailed, StopBegan, StopFrame DEF StopStages, IInv
  <1>3. ASSUME UNCHANGED ops, NEW stage \in {"docker_stop", "stopped_identity", "docker_remove"},
               Goes(stage)
        PROVE  IInv'
    BY <1>1, <1>3, StopBegan, StopFrame DEF StopStages
  <1>4. QED
    BY <1>1, <1>2, <1>3

\* A stop that failed may have taken effect.
LEMMA DockerStopStep ==
  ASSUME IInv, DockerStop
  PROVE  IInv'
  <1>1. /\ sidecar.at = "docker_stop" /\ sidecar.at \in StopStages /\ Goes("stopped_identity")
        /\ UNCHANGED <<collector, policy, capture, dns, core, socket, user, controller>>
        /\ container' = container \/ (container = "running" /\ container' = "exited")
        /\ UNCHANGED ops \/ StopFails
    BY DEF DockerStop, At, StopStages
  <1>2. /\ ops' \in Ops /\ ops'.attempted = ops.attempted /\ ops'.known = ops.known
        /\ ops'.stopped = ops.stopped /\ (ops.failed => ops'.failed)
    BY <1>1, StopFailed, StopBegan DEF IInv
  <1>3. QED
    BY <1>1, <1>2, StopBegan, StopFrame DEF StopStages, Gone

\* The container is looked at again; one that is not seen to have stopped is a failure.
LEMMA StoppedIdentityStep ==
  ASSUME IInv, StoppedIdentity
  PROVE  IInv'
  <1>1. PICK halted \in BOOLEAN :
          /\ ops' = [ops EXCEPT !.halted = halted, !.failed = @ \/ ~halted]
          /\ Goes(IF capture # "none" THEN "drain" ELSE AfterDrain(halted))
    BY DEF StoppedIdentity
  <1>2. /\ sidecar.at = "stopped_identity" /\ sidecar.at \in StopStages
        /\ UNCHANGED <<collector, container, policy, capture, dns, core, socket, user, controller>>
    BY DEF StoppedIdentity, At, StopStages, daemon
  <1>3. /\ ops' \in Ops /\ ops'.attempted = ops.attempted /\ ops'.known = ops.known
        /\ ops'.stopped = ops.stopped /\ (ops.failed => ops'.failed)
        /\ ops'.halted = halted /\ (~halted => ops'.failed)
    <2>1. ops \in Ops
      BY <1>2, StopBegan
    <2>2. CASE halted
      <3>1. ops' = [ops EXCEPT !.halted = TRUE]
        BY <1>1, <2>1, <2>2 DEF Ops
      <3>2. QED
        BY <2>1, <2>2, <3>1 DEF Ops
    <2>3. CASE ~halted
      <3>1. ops' = [ops EXCEPT !.halted = FALSE, !.failed = TRUE]
        BY <1>1, <2>1, <2>3 DEF Ops
      <3>2. QED
        BY <2>1, <2>3, <3>1 DEF Ops
    <2>4. QED
      BY <2>2, <2>3
  <1>4. \E stage \in {"drain", "remove_identity", "stopped"} :
          Goes(stage) /\ (stage = "stopped" => ~halted)
    BY <1>1 DEF AfterDrain
  <1>5. ASSUME NEW stage \in {"drain", "remove_identity", "stopped"}, Goes(stage),
               stage = "stopped" => ~halted
        PROVE  IInv'
    BY <1>2, <1>3, <1>5, StopBegan, StopFrame DEF StopStages
  <1>6. QED
    BY <1>4, <1>5

\* The stream of the container ends, or is closed under its reader.
LEMMA DrainStep ==
  ASSUME IInv, Drain
  PROVE  IInv'
  <1>1. /\ sidecar.at = "drain" /\ sidecar.at \in StopStages
        /\ UNCHANGED <<collector, container, policy, dns, core, socket, user, controller>>
        /\ capture' = capture \/ (capture = "open" /\ capture' = "broken")
        /\ ops' = [ops EXCEPT !.failed = @ \/ capture' # "eof"]
        /\ Goes(AfterDrain(ops.halted))
    BY DEF Drain, Drained, At, StopStages
  <1>2. /\ ops' \in Ops /\ ops'.attempted = ops.attempted /\ ops'.known = ops.known
        /\ ops'.stopped = ops.stopped /\ (ops.failed => ops'.failed)
    <2>1. ops \in Ops
      BY <1>1, StopBegan
    <2>2. ops' = ops \/ ops' = [ops EXCEPT !.failed = TRUE]
      BY <1>1, <2>1 DEF Ops
    <2>3. QED
      BY <2>1, <2>2 DEF Ops
  <1>3. CASE ops.halted
    BY <1>1, <1>2, <1>3, StopBegan, StopFrame DEF StopStages, AfterDrain
  <1>4. CASE ~ops.halted
    BY <1>1, <1>2, <1>4, StopBegan, StopFrame DEF StopStages, AfterDrain
  <1>5. QED
    BY <1>3, <1>4

\* A container that the daemon removed may still be one whose absence is unproved.
LEMMA DockerRemoveStep ==
  ASSUME IInv, DockerRemove
  PROVE  IInv'
  <1>1. /\ sidecar.at = "docker_remove" /\ sidecar.at \in StopStages
        /\ UNCHANGED <<collector, policy, capture, dns, core, socket, user, controller>>
        /\ \/ container' = "removed" /\ Goes("verify_absent") /\ UNCHANGED ops
           \/ container' \in {container, "removed"} /\ StopFails /\ Goes("stopped")
    BY DEF DockerRemove, At, StopStages
  <1>2. /\ ops' \in Ops /\ ops'.attempted = ops.attempted /\ ops'.known = ops.known
        /\ ops'.stopped = ops.stopped /\ (ops.failed => ops'.failed)
    BY <1>1, StopFailed, StopBegan DEF IInv
  <1>3. CASE container' = "removed" /\ Goes("verify_absent") /\ UNCHANGED ops
    BY <1>1, <1>2, <1>3, StopBegan, StopFrame DEF StopStages, Gone
  <1>4. CASE container' \in {container, "removed"} /\ StopFails /\ Goes("stopped")
    BY <1>1, <1>2, <1>4, StopFailed, StopBegan, StopFrame DEF StopStages, Gone, IInv
  <1>5. QED
    BY <1>1, <1>3, <1>4

\* Only an absence that the daemon confirms ends the stop without a failure.
LEMMA VerifyAbsentStep ==
  ASSUME IInv, VerifyAbsent
  PROVE  IInv'
  <1>1. /\ sidecar.at = "verify_absent" /\ sidecar.at \in StopStages /\ Goes("stopped")
        /\ UNCHANGED <<collector, container, policy, capture, dns, core, socket, user, controller>>
        /\ ops' = [ops EXCEPT !.removed = TRUE, !.stopped = TRUE] \/ StopFails
    BY DEF VerifyAbsent, At, StopStages, daemon
  <1>2. CASE StopFails
    BY <1>1, <1>2, StopFailed, StopBegan, StopFrame DEF StopStages, IInv
  <1>3. CASE ops' = [ops EXCEPT !.removed = TRUE, !.stopped = TRUE]
    <2>1. /\ ops' \in Ops /\ ops'.attempted = ops.attempted /\ ops'.known = ops.known
          /\ ops'.stopped /\ ops'.failed = ops.failed
      BY <1>1, <1>3, StopBegan DEF Ops
    <2>2. QED
      BY <1>1, <2>1, StopBegan, StopFrame DEF StopStages, Gone
  <1>4. QED
    BY <1>1, <1>2, <1>3

\* A failure of the stop is a cleanup failure before the sidecar goes on.
LEMMA StopEndsStep ==
  ASSUME IInv, StopEnds
  PROVE  IInv'
  <1> USE DEF IInv
  <1>1. /\ sidecar.at = "stopped" /\ sidecar.at \in StopStages /\ ~At("gone")
        /\ UNCHANGED <<collector, daemon, ops, socket, user, controller>>
        /\ \/ Finishing /\ core' = [core EXCEPT !.failed = @ \/ ops.failed] /\ Goes("quiesce")
           \/ ~Finishing /\ ops.failed /\ Raises
           \/ ~Finishing /\ ~ops.failed /\ Goes("status") /\ UNCHANGED core
    BY DEF StopEnds, At, StopStages
  <1>2. /\ core.stopTried /\ sidecar.serving \in {"STOP", "STOP_ZEEK", "FINISH"} /\ core \in Core
        /\ ops.stopped \/ ops.failed
        /\ ops.failed \/ dns # "running"
    BY <1>1, StopBegan DEF StagesInOrder, TypeOK
  <1>3. /\ core' \in Core /\ core'.stopTried /\ sidecar' \in Position
        /\ sidecar'.serving = sidecar.serving
        /\ core'.failed \/ ~ops.failed
        /\ \/ Finishing /\ sidecar'.at = "quiesce"
           \/ ~Finishing /\ sidecar'.at = "reply" /\ core'.error
           \/ ~Finishing /\ sidecar'.at = "status"
    <2>1. CASE Finishing /\ core' = [core EXCEPT !.failed = @ \/ ops.failed] /\ Goes("quiesce")
      <3>1. core' = core \/ core' = [core EXCEPT !.failed = TRUE]
        BY <1>2, <2>1 DEF Core
      <3>2. core'.failed \/ ~ops.failed
        BY <1>2, <2>1 DEF Core
      <3>3. QED
        BY <1>2, <2>1, <3>1, <3>2, Moved DEF Core, Stages, FinishStages
    <2>2. CASE ~Finishing /\ ops.failed /\ Raises
      BY <1>2, <2>2, Raised DEF Finishing
    <2>3. CASE ~Finishing /\ ~ops.failed /\ Goes("status") /\ UNCHANGED core
      BY <1>2, <2>3, Moved DEF Stages
    <2>4. QED
      BY <1>1, <2>1, <2>2, <2>3
  <1>4. StagesInOrder'
    BY <1>2, <1>3 DEF StagesInOrder, At, Finishing, StartStages, StopStages, FinishStages
  <1>5. StopIsRecorded'
    <2>1. /\ sidecar'.at \notin StopStages /\ sidecar'.at \notin StartStages
          /\ sidecar'.at \notin {"drain", "verify_absent", "stopped"}
      BY <1>3 DEF StopStages, StartStages
    <2>2. /\ container # "none" \/ ops.known => ops.attempted
          /\ ops.stopped => container \in Gone
      BY <1>1 DEF StopIsRecorded
    <2>3. QED
      BY <1>1, <1>2, <1>3, <2>1, <2>2 DEF StopIsRecorded, At, daemon
  <1>6. FinishIsRecorded' /\ PolicyOutlivesContainer'
    BY <1>1, <1>3 DEF FinishIsRecorded, PolicyOutlivesContainer, At, daemon
  <1>7. NotAsked \/ Asked =>
          /\ container' = "none" /\ policy' = "none" /\ capture' = "none" /\ dns' # "running"
          /\ ~ops'.attempted /\ ~ops'.known
    BY <1>1 DEF StartComesFirst, daemon
  <1>8. QED
    BY <1>1, <1>2, <1>3, <1>4, <1>5, <1>6, <1>7, SidecarFrame DEF TypeOK, OneCollector, daemon

-----------------------------------------------------------------------------
(* Finish.                                                                 *)

\* Any part of finish: what failed before still has.
LEMMA FinishFrame ==
  ASSUME IInv, sidecar.at \in {"quiesce", "inspect", "close"}, NEW stage \in {"inspect", "close", "send"},
         Goes(stage), UNCHANGED <<collector, container, dns, ops, socket, user, controller>>,
         capture' = capture \/ (capture = "open" /\ capture' = "broken"),
         policy' = policy \/ (stage = "send" /\ policy = "present" /\ policy' = "removed" /\ ops.stopped),
         core' \in Core, core'.stopTried = core.stopTried, core.failed => core'.failed,
         core'.failed \/ capture' \in {"none", "eof"},
         stage = "send" => core'.failed \/ policy' # "present"
  PROVE  IInv'
  <1> USE DEF IInv
  <1>1. sidecar' \in Position /\ sidecar'.at = stage /\ sidecar'.serving = sidecar.serving
    BY Moved DEF Stages, FinishStages
  <1>2. ~At("gone") /\ core.stopTried /\ Finishing /\ sidecar.at \notin StopStages
    BY DEF At, StagesInOrder, FinishStages, StopStages
  <1>3. StagesInOrder'
    BY <1>1, <1>2 DEF StagesInOrder, At, Finishing, StartStages, StopStages, FinishStages
  <1>4. StopIsRecorded'
    BY <1>1, <1>2 DEF StopIsRecorded, At, StartStages, StopStages
  <1>5. FinishIsRecorded' /\ PolicyOutlivesContainer'
    BY <1>1, <1>2 DEF FinishIsRecorded, PolicyOutlivesContainer, StopIsRecorded, At
  <1>6. NotAsked \/ Asked =>
          /\ container' = "none" /\ policy' = "none" /\ capture' = "none" /\ dns' # "running"
          /\ ~ops'.attempted /\ ~ops'.known
    BY DEF StartComesFirst
  <1>7. QED
    BY <1>1, <1>2, <1>3, <1>4, <1>5, <1>6, SidecarFrame DEF TypeOK, OneCollector

\* The core with one more cleanup failure, or none.
LEMMA OneFailureMore ==
  ASSUME core \in Core, NEW fails \in BOOLEAN, NEW closed \in BOOLEAN, NEW new,
         new = [core EXCEPT !.failed = @ \/ fails, !.closed = closed]
  PROVE  /\ new \in Core /\ new.stopTried = core.stopTried
         /\ core.failed => new.failed
         /\ fails => new.failed
  <1>1. CASE core.failed \/ fails
    <2>1. new = [core EXCEPT !.failed = TRUE, !.closed = closed]
      BY <1>1
    <2>2. QED
      BY <1>1, <2>1 DEF Core
  <1>2. CASE ~(core.failed \/ fails)
    <2>1. new = [core EXCEPT !.failed = FALSE, !.closed = closed]
      BY <1>2
    <2>2. QED
      BY <1>2, <2>1 DEF Core
  <1>3. QED
    BY <1>1, <1>2

\* Finish stops the collector, unless a command has.
LEMMA AwaitBrokerStep ==
  ASSUME IInv, AwaitBroker
  PROVE  IInv'
  <1> USE DEF IInv
  <1> DEFINE stage == IF core.stopTried THEN "quiesce" ELSE "dns"
  <1>1. /\ At("await") /\ ~At("gone")
        /\ sidecar' = [sidecar EXCEPT !.at = stage, !.serving = "FINISH"]
        /\ core' = [core EXCEPT !.stopTried = TRUE]
        /\ UNCHANGED <<collector, daemon, ops, socket, user, controller>>
    BY DEF AwaitBroker, At
  <1>2. stage \in {"quiesce", "dns"} /\ stage \in Stages /\ (stage = "quiesce" => core.stopTried)
    BY DEF Stages, StopStages, FinishStages
  <1> HIDE DEF stage
  <1>3. /\ sidecar' \in Position /\ sidecar'.at = stage /\ sidecar'.serving = "FINISH"
        /\ core' \in Core /\ core'.stopTried /\ core'.failed = core.failed
    BY <1>1, <1>2 DEF TypeOK, Position, Core
  <1>4. StagesInOrder'
    BY <1>2, <1>3 DEF StagesInOrder, At, Finishing, StartStages, StopStages, FinishStages
  <1>5. StopIsRecorded'
    BY <1>1, <1>2, <1>3 DEF StopIsRecorded, At, StartStages, StopStages, daemon
  <1>6. FinishIsRecorded' /\ PolicyOutlivesContainer'
    BY <1>1, <1>2, <1>3 DEF FinishIsRecorded, PolicyOutlivesContainer, At, daemon
  <1>7. NotAsked \/ Asked =>
          /\ container' = "none" /\ policy' = "none" /\ capture' = "none" /\ dns' # "running"
          /\ ~ops'.attempted /\ ~ops'.known
    BY <1>1 DEF StartComesFirst, daemon
  <1>8. QED
    BY <1>1, <1>3, <1>4, <1>5, <1>6, <1>7, SidecarFrame DEF TypeOK, OneCollector, daemon

\* A stream that was not drained before is a cleanup failure.
LEMMA QuiesceStep ==
  ASSUME IInv, Quiesce
  PROVE  IInv'
  <1>1. /\ sidecar.at = "quiesce" /\ Goes("inspect")
        /\ UNCHANGED <<collector, container, policy, dns, ops, socket, user, controller>>
        /\ capture' = IF capture = "open" THEN "broken" ELSE capture
        /\ core' = [core EXCEPT !.failed = @ \/ capture' = "broken"]
    BY DEF Quiesce, Drained, At
  <1>2. core \in Core /\ capture \in {"none", "open", "eof", "broken"}
    BY DEF IInv, TypeOK
  <1>3. /\ core' \in Core /\ core'.stopTried = core.stopTried /\ (core.failed => core'.failed)
        /\ core'.failed \/ capture' \in {"none", "eof"}
    <2>1. CASE capture' = "broken"
      <3>1. core' = [core EXCEPT !.failed = TRUE]
        BY <1>1, <1>2, <2>1
      <3>2. QED
        BY <1>2, <3>1 DEF Core
    <2>2. CASE capture' # "broken"
      <3>1. core' = core /\ capture' \in {"none", "eof"}
        BY <1>1, <1>2, <2>2 DEF Core
      <3>2. QED
        BY <1>2, <3>1
    <2>3. QED
      BY <2>1, <2>2
  <1>4. QED
    BY <1>1, <1>3, FinishFrame

\* Kernel resources that are not as before are a cleanup failure.
LEMMA InspectStep ==
  ASSUME IInv, Inspect
  PROVE  IInv'
  <1>1. /\ sidecar.at = "inspect" /\ Goes("close")
        /\ UNCHANGED <<collector, daemon, ops, socket, user, controller>>
    BY DEF Inspect, At
  <1>2. core \in Core /\ (core.failed \/ capture \in {"none", "eof"})
    BY <1>1 DEF IInv, TypeOK, FinishIsRecorded
  <1>3. core' \in Core /\ core'.stopTried = core.stopTried /\ (core.failed => core'.failed)
    <2>1. PICK same \in BOOLEAN : core' = [core EXCEPT !.failed = @ \/ ~same]
      BY DEF Inspect
    <2>2. CASE same /\ ~core.failed
      <3>1. core' = [core EXCEPT !.failed = FALSE]
        BY <2>1, <2>2
      <3>2. QED
        BY <1>2, <2>2, <3>1 DEF Core
    <2>3. CASE ~same \/ core.failed
      <3>1. core' = [core EXCEPT !.failed = TRUE]
        BY <2>1, <2>3
      <3>2. QED
        BY <1>2, <3>1 DEF Core
    <2>4. QED
      BY <2>2, <2>3
  <1>4. QED
    BY <1>1, <1>2, <1>3, FinishFrame DEF daemon

\* The policy directory goes when nothing can have it mounted, or it is a cleanup failure.
LEMMA CloseStep ==
  ASSUME IInv, Close
  PROVE  IInv'
  <1>1. PICK fails \in BOOLEAN :
          /\ policy' = IF RemovesPolicy /\ ~fails THEN "removed" ELSE policy
          /\ core' = [core EXCEPT !.failed = @ \/ fails, !.closed = TRUE]
    BY DEF Close
  <1>2. /\ sidecar.at = "close" /\ Goes("send")
        /\ UNCHANGED <<collector, container, capture, dns, ops, socket, user, controller>>
    BY DEF Close, At
  <1>3. /\ core \in Core /\ (core.failed \/ capture \in {"none", "eof"})
        /\ core.failed \/ ops.stopped
    BY <1>2 DEF IInv, TypeOK, FinishIsRecorded, StopIsRecorded, StagesInOrder, FinishStages,
                StopStages, At
  <1>4. /\ core' \in Core /\ core'.stopTried = core.stopTried /\ (core.failed => core'.failed)
        /\ fails => core'.failed
    BY <1>1, <1>3, OneFailureMore
  <1>5. core'.failed \/ policy' # "present"
    BY <1>1, <1>3, <1>4 DEF RemovesPolicy
  <1>6. policy' = policy \/ (policy = "present" /\ policy' = "removed" /\ ops.stopped)
    BY <1>1 DEF RemovesPolicy
  <1>7. QED
    BY <1>2, <1>3, <1>4, <1>5, <1>6, FinishFrame

\* The final record: it says VERIFIED when nothing failed, and then nothing is left.
LEMMA SendFinalStep ==
  ASSUME IInv, SendFinal
  PROVE  IInv'
  <1> USE DEF IInv
  <1> DEFINE m == [sequence |-> 0, error |-> core.error, final |-> Verdict]
  <1>1. /\ At("send") /\ ops' = NoOps /\ core' = NoCore /\ requests' = <<>>
        /\ sidecar' = [at |-> "gone", serving |-> "STATUS", sequence |-> 0]
        /\ replies' \in {replies, Append(replies, m)}
        /\ UNCHANGED <<collector, daemon, user, controller>>
    BY DEF SendFinal, Exits
  <1>2. m \in Answer /\ m.final = Verdict /\ m.final # "none"
    BY DEF Answer, TypeOK, Core, Finals, Verdict
  <1>3. m.final = "VERIFIED" => Clean
    BY <1>1, <1>2 DEF Verdict, StopIsRecorded, FinishIsRecorded, StagesInOrder, At, FinishStages,
                      StopStages, Clean
  <1>4. FinalsSent = {} /\ client.final = "none"
    BY <1>1 DEF FinalsAreLast, FinalsSent, At, TypeOK, Client, Finals
  <1> HIDE DEF m
  <1>5. replies' \in Seq(Answer) /\ \A i \in FinalsSent' : replies'[i] = m
    <2>1. replies \in Seq(Answer)
      BY DEF SocketOK
    <2>2. CASE replies' = Append(replies, m)
      BY <1>2, <1>4, <2>1, <2>2, AppendIndices DEF FinalsSent
    <2>3. QED
      BY <1>1, <1>4, <2>1, <2>2 DEF FinalsSent
  <1>6. SocketOK' /\ RequestsCounted'
    BY <1>1, <1>5 DEF SocketOK, RequestsCounted, RunnerAsked, CloseAsked, daemon, user
  <1>7. FinalsAreLast' /\ VerifiedIsClean' /\ ClosedIsVerified'
    BY <1>1, <1>3, <1>4, <1>5 DEF FinalsAreLast, VerifiedIsClean, ClosedIsVerified, SaysClosed, Clean,
                                  At, daemon, user
  <1>8. QED
    BY <1>1, <1>6, <1>7, SidecarGone DEF daemon, user

-----------------------------------------------------------------------------
(* What happens by itself.                                                 *)

\* A sidecar that is killed leaves what the daemon has, and is never heard of again.
LEMMA KilledStep ==
  ASSUME IInv, Killed
  PROVE  IInv'
  <1> USE DEF IInv
  <1>1. /\ ~At("gone") /\ ops' = NoOps /\ core' = NoCore /\ requests' = <<>>
        /\ sidecar' = [at |-> "gone", serving |-> "STATUS", sequence |-> 0]
        /\ UNCHANGED <<collector, daemon, replies, user, controller>>
    BY DEF Killed, Exits
  <1>2. SocketOK' /\ RequestsCounted'
    BY <1>1 DEF SocketOK, RequestsCounted, RunnerAsked, CloseAsked, user
  <1>3. FinalsAreLast' /\ VerifiedIsClean' /\ ClosedIsVerified'
    BY <1>1 DEF FinalsAreLast, VerifiedIsClean, ClosedIsVerified, SaysClosed, Clean, FinalsSent,
                At, daemon, user
  <1>4. QED
    BY <1>1, <1>2, <1>3, SidecarGone DEF daemon, user

\* The container, the stream and the worker only end by themselves.
LEMMA DaemonStep ==
  ASSUME IInv, ContainerExits \/ StreamEnds \/ WorkerExits
  PROVE  IInv'
  <1> USE DEF IInv
  <1>1. /\ UNCHANGED <<collector, policy, root, socket, user, controller>>
        /\ container' = container \/ (container = "running" /\ container' = "exited")
        /\ capture' = capture \/ (capture = "open" /\ capture' \in {"eof", "broken"} /\ ~At("gone"))
        /\ dns' = dns \/ (dns = "running" /\ dns' = "exited")
    BY DEF ContainerExits, StreamEnds, WorkerExits
  <1>2. TypeOK' /\ SocketOK' /\ RequestsCounted' /\ OneCollector'
    BY <1>1 DEF TypeOK, SocketOK, RequestsCounted, RunnerAsked, CloseAsked, OneCollector, Fits, root,
                socket, user
  <1>3. StartComesFirst' /\ StagesInOrder'
    BY <1>1 DEF StartComesFirst, NotAsked, Asked, StagesInOrder, At, Finishing, root, socket, user
  <1>4. StopIsRecorded' /\ FinishIsRecorded' /\ PolicyOutlivesContainer'
    BY <1>1 DEF StopIsRecorded, FinishIsRecorded, PolicyOutlivesContainer, At, Gone, root
  <1>5. Clean => Clean'
    BY <1>1 DEF Clean, Gone
  <1>6. FinalsAreLast' /\ VerifiedIsClean' /\ ClosedIsVerified'
    BY <1>1, <1>5 DEF FinalsAreLast, VerifiedIsClean, ClosedIsVerified, SaysClosed, FinalsSent, At,
                root, socket, user
  <1>7. QED
    BY <1>2, <1>3, <1>4, <1>6

\* With the controller its session is gone, and the sidecar hears of no further request.
LEMMA ControllerDiesStep ==
  ASSUME IInv, ControllerDies
  PROVE  IInv'
  <1> USE DEF IInv
  <1>1. /\ client' = NoClient /\ pending' = NoRequest /\ runner' = "done" /\ session' = NoSession
        /\ requests' = <<>> /\ replies' = <<>>
        /\ UNCHANGED <<collector, daemon, root, polls>>
    BY DEF ControllerDies
  <1>2. NoClient \in Client /\ NoSession \in Session
    BY SupervisorAssumption DEF NoClient, Client, Finals, NoSession, Session
  <1>3. TypeOK'
    BY <1>1, <1>2 DEF TypeOK, daemon, root
  <1>4. SocketOK'
    BY <1>1 DEF SocketOK, NoRequest, Pending, Commands
  <1>5. RequestsCounted' /\ OneCollector'
    BY <1>1 DEF RequestsCounted, RunnerAsked, CloseAsked, OneCollector, Fits, SocketOK, NoClient,
                NoSession, NoRequest, daemon, root
  <1>6. StartComesFirst'
    BY <1>1 DEF StartComesFirst, NotAsked, Asked
  <1>7. FinalsAreLast' /\ VerifiedIsClean' /\ ClosedIsVerified'
    BY <1>1 DEF FinalsAreLast, VerifiedIsClean, ClosedIsVerified, SaysClosed, FinalsSent, NoClient,
                NoSession
  <1>8. QED
    BY <1>1, <1>3, <1>4, <1>5, <1>6, <1>7, RootStays

-----------------------------------------------------------------------------
(* The client.                                                             *)

\* A request that its sender may make: it is counted, and no start follows another request of
\* the runner.
LEMMA SendStep ==
  ASSUME IInv, Idle, NEW by \in {"runner", "observer", "close"}, NEW command \in Commands,
         Sends(by, command), Fits(command),
         UNCHANGED <<collector, daemon, root, replies, runner, session, controller>>,
         polls' \in 0 .. MaxPolls,
         polls' = IF command = "STATUS" THEN polls + 1 ELSE polls,
         by = "observer" => session.close = "open" /\ command = "STATUS",
         by = "close" => session.close = "stop" /\ command = "STOP",
         by = "runner" =>
           \/ runner = "idle" /\ command \in {"START_ZEEK", "START_DNS"}
           \/ runner = "running" /\ command \in {"STATUS", "STOP_ZEEK"}
           \/ runner = "stopped" /\ command = "STOP_ZEEK"
  PROVE  IInv'
  <1> USE DEF IInv
  <1> DEFINE r == [command |-> command, sequence |-> client.sequence + 1]
  <1>1. /\ pending = NoRequest /\ pending.by = "nobody" /\ requests' \in {requests, Append(requests, r)}
        /\ pending' = [by |-> by, command |-> command, sent |-> ~At("gone")]
        /\ client' = [client EXCEPT !.sequence = @ + 1]
    BY DEF Idle, Sends, NoRequest
  <1>2. client \in Client /\ client.sequence \in Nat /\ MaxPolls \in Nat
    BY SupervisorAssumption DEF TypeOK, Client
  <1>3. r \in Request /\ r.command = command
    BY <1>2 DEF Request
  <1> HIDE DEF r
  <1>4. /\ requests \in Seq(Request) /\ requests' \in Seq(Request)
        /\ \/ requests' = requests
           \/ /\ DOMAIN requests' = DOMAIN requests \cup {Len(requests) + 1}
              /\ DOMAIN requests = 1 .. Len(requests) /\ Len(requests) \in Nat
              /\ requests'[Len(requests) + 1] = r
              /\ \A i \in DOMAIN requests : requests'[i] = requests[i]
    <2>1. requests \in Seq(Request)
      BY DEF SocketOK
    <2>2. CASE requests' = Append(requests, r)
      BY <1>3, <2>1, <2>2, AppendIndices
    <2>3. QED
      BY <1>1, <2>1, <2>2
  <1>5. SocketOK'
    BY <1>1, <1>4 DEF SocketOK, Pending, NoRequest
  <1>6. client'.sequence = client.sequence + 1 /\ client'.stopping = client.stopping
        /\ client'.final = client.final
    BY <1>1, <1>2 DEF Client
  <1>7. RequestsCounted'
    <2>1. RunnerAsked' = RunnerAsked + (IF by = "runner" /\ command # "STATUS" THEN 1 ELSE 0)
      BY <1>1 DEF RunnerAsked
    <2>2. CloseAsked' = CloseAsked + (IF by = "close" THEN 1 ELSE 0)
      BY <1>1 DEF CloseAsked
    <2>3. RunnerAsked \in Int /\ CloseAsked \in Int /\ polls \in Int
      BY DEF RunnerAsked, CloseAsked, SocketOK
    <2>4. command = "STATUS" \/ by = "runner" \/ by = "close"
      OBVIOUS
    <2>5. client.sequence <= polls + RunnerAsked + CloseAsked
      BY DEF RequestsCounted
    <2>6. CASE command = "STATUS"
      BY <1>2, <1>6, <2>1, <2>2, <2>3, <2>5, <2>6 DEF RequestsCounted
    <2>7. CASE command # "STATUS"
      BY <1>2, <1>6, <2>1, <2>2, <2>3, <2>4, <2>5, <2>7 DEF RequestsCounted
    <2>8. QED
      BY <2>6, <2>7
  <1>8. RunnerAsked' \in 0 .. 3 /\ CloseAsked' \in 0 .. 2
    BY <1>1 DEF RunnerAsked, CloseAsked
  <1>9. client' \in Client
    <2>1. client'.sequence \in 0 .. MaxPolls + 5
      <3>1. client'.sequence <= polls' + RunnerAsked' + CloseAsked'
        BY <1>7 DEF RequestsCounted
      <3>2. polls' \in Int /\ polls' <= MaxPolls
        BY <1>2
      <3>3. QED
        BY <1>2, <1>6, <1>8, <3>1, <3>2
    <2>2. QED
      BY <1>1, <1>2, <1>6, <2>1 DEF Client
  <1>10. TypeOK'
    BY <1>9 DEF TypeOK, daemon, root
  <1>11. OneCollector'
    BY <1>3, <1>4 DEF OneCollector, Fits, daemon, root
  <1>12. StartComesFirst'
    <2>1. NotAsked' => NotAsked /\ command \notin Starts \cup {"STOP_ZEEK"}
      BY <1>1 DEF NotAsked, Starts
    <2>2. command \in Starts => NotAsked
      BY <1>1 DEF NotAsked, Starts
    <2>3. Asked' => NotAsked \/ Asked
      BY <1>3, <1>4, <2>2 DEF Asked
    <2>4. /\ \A i, j \in DOMAIN requests' :
              requests'[i].command \in Starts /\ requests'[j].command \in Starts \cup {"STOP_ZEEK"}
                => i <= j
          /\ NotAsked' => \A i \in DOMAIN requests' : requests'[i].command \notin Starts \cup {"STOP_ZEEK"}
      BY <1>3, <1>4, <2>1, <2>2 DEF StartComesFirst
    <2>5. QED
      BY <2>1, <2>3, <2>4 DEF StartComesFirst, daemon, root
  <1>13. FinalsAreLast' /\ VerifiedIsClean' /\ ClosedIsVerified'
    BY <1>6 DEF FinalsAreLast, VerifiedIsClean, ClosedIsVerified, SaysClosed, FinalsSent, Clean, At,
                daemon, root
  <1>14. QED
    BY <1>5, <1>7, <1>10, <1>11, <1>12, <1>13, RootStays

\* Whoever held the client's lock goes on: a start that was asked for stays asked for, and no
\* request is forgotten.
LEMMA Resumed ==
  ASSUME IInv, NEW ok \in BOOLEAN, pending # NoRequest, Resumes(ok)
  PROVE  /\ pending' = NoRequest /\ pending'.by = "nobody"
         /\ runner' \in {"idle", "running", "stopped", "done"}
         /\ runner' = "idle" => runner = "idle" /\ pending.by # "runner"
         /\ session' \in Session
         /\ session' = session \/ session'.close \in {"stop", "broker"}
         /\ RunnerAsked' >= RunnerAsked /\ CloseAsked' >= CloseAsked
  <1> USE DEF IInv
  <1>1. /\ pending' = NoRequest /\ pending'.by = "nobody"
        /\ runner' = IF pending.by = "runner" THEN RunnerAfter(ok) ELSE runner
    BY DEF Resumes, NoRequest
  <1>2. pending.by \in {"runner", "observer", "close"} /\ session \in Session
        /\ runner \in {"idle", "running", "stopped", "done"}
    BY DEF SocketOK, Pending, TypeOK
  <1>3. CASE pending.by = "runner"
    <2>1. session' = session
      BY <1>3 DEF Resumes
    <2>2. \/ runner = "idle" /\ pending.command # "STATUS" /\ runner' \in {"running", "done"}
          \/ runner = "running" /\ pending.command = "STATUS" /\ runner' \in {"running", "done"}
          \/ runner = "running" /\ pending.command = "STOP_ZEEK" /\ runner' = "stopped"
          \/ runner = "stopped" /\ pending.command = "STOP_ZEEK" /\ runner' = "done"
      <3>1. runner' = RunnerAfter(ok)
        BY <1>1, <1>3
      <3>2. CASE runner = "idle" /\ pending.command # "STATUS"
        BY <3>1, <3>2 DEF RunnerAfter
      <3>3. CASE runner = "running" /\ pending.command = "STATUS"
        BY <3>1, <3>3 DEF RunnerAfter
      <3>4. CASE runner = "running" /\ pending.command = "STOP_ZEEK"
        BY <3>1, <3>4 DEF RunnerAfter
      <3>5. CASE runner = "stopped" /\ pending.command = "STOP_ZEEK"
        BY <3>1, <3>5 DEF RunnerAfter
      <3>6. QED
        BY <1>3, <3>2, <3>3, <3>4, <3>5 DEF SocketOK
    <2>3. RunnerAsked' >= RunnerAsked /\ CloseAsked' >= CloseAsked
      BY <1>1, <1>3, <2>1, <2>2 DEF RunnerAsked, CloseAsked
    <2>4. QED
      BY <1>1, <1>2, <1>3, <2>1, <2>2, <2>3
  <1>4. CASE pending.by = "observer"
    <2>1. session.close = "open" /\ runner' = runner
      BY <1>1, <1>4 DEF SocketOK
    <2>2. session' = session \/ session' = [session EXCEPT !.error = TRUE, !.close = "stop"]
      BY <1>4 DEF Resumes
    <2>3. /\ session' \in Session
          /\ session' = session \/ (session'.close = "stop" /\ session'.error)
      BY <1>2, <2>2 DEF Session
    <2>4. RunnerAsked' >= RunnerAsked /\ CloseAsked' >= CloseAsked
      BY <1>1, <1>4, <2>1, <2>3 DEF RunnerAsked, CloseAsked
    <2>5. QED
      BY <1>1, <1>2, <1>4, <2>1, <2>3, <2>4
  <1>5. CASE pending.by = "close"
    <2>1. session.close = "stop" /\ runner' = runner /\ pending.command = "STOP"
      BY <1>1, <1>5 DEF SocketOK
    <2>2. session' = [session EXCEPT !.failure = @ \/ ~ok, !.close = "broker"]
      BY <1>5 DEF Resumes
    <2>3. session' \in Session /\ session'.close = "broker" /\ session'.error = session.error
      <3>1. CASE session.failure \/ ~ok
        <4>1. session' = [session EXCEPT !.failure = TRUE, !.close = "broker"]
          BY <2>2, <3>1
        <4>2. QED
          BY <1>2, <4>1 DEF Session
      <3>2. CASE ~session.failure /\ ok
        <4>1. session' = [session EXCEPT !.failure = FALSE, !.close = "broker"]
          BY <2>2, <3>2
        <4>2. QED
          BY <1>2, <4>1 DEF Session
      <3>3. QED
        BY <3>1, <3>2
    <2>4. RunnerAsked' >= RunnerAsked /\ CloseAsked' >= CloseAsked
      BY <1>1, <1>5, <2>1, <2>3 DEF RunnerAsked, CloseAsked
    <2>5. QED
      BY <1>1, <1>2, <1>5, <2>1, <2>3, <2>4
  <1>6. QED
    BY <1>2, <1>3, <1>4, <1>5

\* A step of the user that sends nothing and forgets no request.
LEMMA UserFrame ==
  ASSUME IInv, UNCHANGED <<collector, daemon, root, requests, polls>>,
         replies' \in Seq(Answer), FinalsSent' # {} => At("gone"),
         \A i \in FinalsSent' : replies'[i].final = "VERIFIED" => Clean,
         client' \in Client, client'.sequence = client.sequence,
         client'.final # "none" => At("gone"), client'.final = "VERIFIED" => Clean,
         pending' = pending \/ pending' = NoRequest,
         runner' \in {"idle", "running", "stopped", "done"},
         runner' = "idle" => runner = "idle",
         pending.by = "runner" =>
           \/ pending' = pending /\ runner' = runner
           \/ pending' = NoRequest /\ runner' # "idle",
         session' \in Session,
         pending' = pending => /\ pending.by = "observer" => session'.close = "open"
                               /\ pending.by = "close" => session'.close = "stop",
         RunnerAsked' >= RunnerAsked, CloseAsked' >= CloseAsked, ClosedIsVerified'
  PROVE  IInv'
  <1> USE DEF IInv
  <1>1. TypeOK'
    BY DEF TypeOK, daemon, root
  <1>2. SocketOK'
    <2>1. CASE pending' = NoRequest
      BY <2>1 DEF SocketOK, NoRequest, Pending, Commands
    <2>2. CASE pending' = pending
      <3>1. pending.by = "runner" => runner' = runner
        BY <2>2 DEF NoRequest
      <3>2. QED
        BY <2>2, <3>1 DEF SocketOK
    <2>3. QED
      BY <2>1, <2>2
  <1>3. RequestsCounted'
    BY DEF RequestsCounted, RunnerAsked, CloseAsked, SocketOK, TypeOK, Client
  <1>4. OneCollector'
    BY DEF OneCollector, Fits, daemon, root
  <1>5. StartComesFirst'
    <2>1. (NotAsked' => NotAsked) /\ (Asked' => Asked)
      BY DEF NotAsked, Asked, NoRequest
    <2>2. QED
      BY <2>1 DEF StartComesFirst, daemon, root
  <1>6. FinalsAreLast' /\ VerifiedIsClean'
    BY DEF FinalsAreLast, VerifiedIsClean, Clean, At, daemon, root
  <1>7. QED
    BY <1>1, <1>2, <1>3, <1>4, <1>5, <1>6, RootStays

\* The replies that are left after the first is taken.
LEMMA TakesReply ==
  ASSUME IInv, replies # <<>>, replies' = Tail(replies)
  PROVE  /\ replies' \in Seq(Answer) /\ Head(replies) \in Answer
         /\ FinalsSent' # {} => At("gone")
         /\ \A i \in FinalsSent' : replies'[i].final = "VERIFIED" => Clean
         /\ Head(replies).final # "none" => At("gone")
         /\ Head(replies).final = "VERIFIED" => Clean
  <1> USE DEF IInv
  <1>1. replies \in Seq(Answer)
    BY DEF SocketOK
  <1>2. /\ Head(replies) \in Answer /\ Head(replies) = replies[1] /\ 1 \in DOMAIN replies
        /\ Tail(replies) \in Seq(Answer)
        /\ \A i \in DOMAIN Tail(replies) : i + 1 \in DOMAIN replies /\ Tail(replies)[i] = replies[i + 1]
    BY <1>1, TailIndices
  <1>3. \A i \in FinalsSent' : i + 1 \in FinalsSent /\ replies'[i] = replies[i + 1]
    BY <1>2 DEF FinalsSent
  <1>4. Head(replies).final # "none" => 1 \in FinalsSent
    BY <1>2 DEF FinalsSent
  <1>5. FinalsSent # {} => At("gone")
    BY DEF FinalsAreLast
  <1>6. \A i \in FinalsSent : replies[i].final = "VERIFIED" => Clean
    BY DEF VerifiedIsClean
  <1>7. Head(replies).final = "VERIFIED" => Clean
    BY <1>2, <1>4, <1>6
  <1>8. QED
    BY <1>2, <1>3, <1>4, <1>5, <1>6, <1>7

\* An answer: a final record says what its sidecar says, and is read once.
LEMMA AnsweredStep ==
  ASSUME IInv, Answered
  PROVE  IInv'
  <1> USE DEF IInv
  <1> DEFINE m == Head(replies)
             ok == /\ m.final = "none" /\ Readable(m)
                   /\ m.sequence = client.sequence /\ ~m.error
             tells == IF m.final # "none" THEN m.final ELSE client.final
             stops == client.stopping \/ (ok /\ pending.command = "STOP")
  <1>1. /\ pending.sent /\ Channel /\ replies # <<>> /\ replies' = Tail(replies)
        /\ client' = [client EXCEPT !.final = tells, !.stopping = stops]
        /\ Resumes(ok)
        /\ UNCHANGED <<collector, daemon, root, requests, polls, controller>>
    BY Zenon DEF Answered
  <1>2. pending # NoRequest
    BY <1>1 DEF NoRequest
  <1>3. ok \in BOOLEAN /\ stops \in BOOLEAN
    BY DEF TypeOK, Client
  <1> HIDE DEF ok, stops
  <1>4. /\ pending' = NoRequest /\ pending'.by = "nobody"
        /\ runner' \in {"idle", "running", "stopped", "done"}
        /\ runner' = "idle" => runner = "idle" /\ pending.by # "runner"
        /\ session' \in Session
        /\ session' = session \/ session'.close \in {"stop", "broker"}
        /\ RunnerAsked' >= RunnerAsked /\ CloseAsked' >= CloseAsked
    BY <1>1, <1>2, <1>3, Resumed
  <1>5. /\ replies' \in Seq(Answer) /\ m \in Answer
        /\ FinalsSent' # {} => At("gone")
        /\ \A i \in FinalsSent' : replies'[i].final = "VERIFIED" => Clean
        /\ m.final # "none" => At("gone")
        /\ m.final = "VERIFIED" => Clean
    BY <1>1, TakesReply
  <1> HIDE DEF m
  <1>6. /\ tells \in Finals /\ (tells # "none" => At("gone")) /\ (tells = "VERIFIED" => Clean)
    BY <1>5 DEF Answer, TypeOK, Client, FinalsAreLast
  <1> HIDE DEF tells
  <1>7. client' \in Client /\ client'.sequence = client.sequence /\ client'.final = tells
    BY <1>1, <1>3, <1>6 DEF TypeOK, Client
  <1>8. ClosedIsVerified'
    BY <1>1, <1>4 DEF ClosedIsVerified, SaysClosed, Channel
  <1>9. QED
    BY <1>1, <1>4, <1>5, <1>6, <1>7, <1>8, UserFrame

\* Without an answer the caller goes on as after an exception.
LEMMA UnansweredStep ==
  ASSUME IInv, Unanswered
  PROVE  IInv'
  <1> USE DEF IInv
  <1>1. /\ pending # NoRequest /\ Resumes(FALSE)
        /\ UNCHANGED <<collector, daemon, root, requests, replies, client, polls, controller>>
    BY DEF Unanswered, socket
  <1>2. /\ pending' = NoRequest /\ pending'.by = "nobody"
        /\ runner' \in {"idle", "running", "stopped", "done"}
        /\ runner' = "idle" => runner = "idle" /\ pending.by # "runner"
        /\ session' \in Session
        /\ session' = session \/ session'.close \in {"stop", "broker"}
        /\ RunnerAsked' >= RunnerAsked /\ CloseAsked' >= CloseAsked
    BY <1>1, Resumed
  <1>3. FinalsSent' = FinalsSent /\ replies \in Seq(Answer)
    BY <1>1 DEF FinalsSent, SocketOK
  <1>4. ClosedIsVerified'
    BY <1>1, <1>2 DEF ClosedIsVerified, SaysClosed, Clean, daemon
  <1>5. QED
    BY <1>1, <1>2, <1>3, <1>4, UserFrame DEF FinalsAreLast, VerifiedIsClean, TypeOK

-----------------------------------------------------------------------------
(* The threads of the controller.                                          *)

\* The requests of the runner, the heartbeat and close are ones that their sender may make.
LEMMA RequestStep ==
  ASSUME IInv, (\E command \in Commands \ {"STOP"} : RunnerRequest(command)) \/ Observe
  PROVE  IInv'
  <1> USE DEF IInv
  <1>1. MaxPolls \in Nat /\ polls \in 0 .. MaxPolls
    BY SupervisorAssumption DEF SocketOK
  <1>2. ASSUME NEW command \in Commands \ {"STOP"}, RunnerRequest(command)
        PROVE  IInv'
    <2>1. /\ Idle /\ Sends("runner", command)
          /\ polls' = IF command = "STATUS" THEN polls + 1 ELSE polls
          /\ UNCHANGED <<collector, daemon, root, replies, runner, session, controller>>
      BY <1>2 DEF RunnerRequest
    <2>2. /\ command = "START_ZEEK" => runner = "idle" /\ collector = "zeek"
          /\ command = "START_DNS" => runner = "idle" /\ collector = "dns"
          /\ command = "STOP_ZEEK" => runner \in {"running", "stopped"} /\ collector = "zeek"
          /\ command = "STATUS" => runner = "running" /\ polls < MaxPolls
      BY <1>2 DEF RunnerRequest
    <2>3. command \in {"START_ZEEK", "START_DNS", "STATUS", "STOP_ZEEK"}
      BY DEF Commands
    <2>4. polls' \in 0 .. MaxPolls /\ Fits(command)
      BY <1>1, <2>1, <2>2, <2>3 DEF Fits
    <2>5. QED
      BY <2>1, <2>2, <2>3, <2>4, SendStep
  <1>3. CASE Observe
    <2>1. /\ Idle /\ session.close = "open" /\ polls' = polls + 1 /\ Sends("observer", "STATUS")
          /\ polls' \in 0 .. MaxPolls
          /\ UNCHANGED <<collector, daemon, root, replies, runner, session, controller>>
      BY <1>1, <1>3 DEF Observe
    <2>2. "STATUS" \in Commands /\ Fits("STATUS")
      BY DEF Commands, Fits
    <2>3. QED
      BY <2>1, <2>2, SendStep
  <1>4. QED
    BY <1>2, <1>3

\* The runner ends; close begins.
LEMMA EndStep ==
  ASSUME IInv, RunnerEnds \/ BeginClose
  PROVE  IInv'
  <1> USE DEF IInv
  <1>1. /\ UNCHANGED <<collector, daemon, root, requests, replies, client, pending, polls, controller>>
        /\ \/ pending = NoRequest /\ runner' = "done" /\ UNCHANGED session
           \/ /\ session.close = "open" /\ pending.by # "observer" /\ UNCHANGED runner
              /\ \E error \in BOOLEAN :
                   session' = [session EXCEPT !.close = "stop", !.error = @ \/ error]
    BY DEF RunnerEnds, BeginClose, socket, Idle
  <1>2. session \in Session /\ replies \in Seq(Answer) /\ FinalsSent' = FinalsSent
    BY <1>1 DEF TypeOK, SocketOK, FinalsSent
  <1>3. CASE pending = NoRequest /\ runner' = "done" /\ UNCHANGED session
    <2>1. RunnerAsked' >= RunnerAsked /\ CloseAsked' >= CloseAsked
      BY <1>1, <1>3 DEF RunnerAsked, CloseAsked, NoRequest, TypeOK
    <2>2. ClosedIsVerified'
      BY <1>1, <1>3 DEF ClosedIsVerified, SaysClosed, Clean, daemon
    <2>3. pending.by = "nobody"
      BY <1>3 DEF NoRequest
    <2>4. QED
      BY <1>1, <1>2, <1>3, <2>1, <2>2, <2>3, UserFrame DEF FinalsAreLast, VerifiedIsClean, TypeOK
  <1>4. CASE /\ session.close = "open" /\ pending.by # "observer" /\ UNCHANGED runner
             /\ \E error \in BOOLEAN :
                  session' = [session EXCEPT !.close = "stop", !.error = @ \/ error]
    <2>1. session' \in Session /\ session'.close = "stop"
      <3>1. PICK error \in BOOLEAN :
              session' = [session EXCEPT !.close = "stop", !.error = @ \/ error]
        BY <1>4
      <3>2. CASE session.error \/ error
        <4>1. session' = [session EXCEPT !.close = "stop", !.error = TRUE]
          BY <3>1, <3>2
        <4>2. QED
          BY <1>2, <4>1 DEF Session
      <3>3. CASE ~(session.error \/ error)
        <4>1. session' = [session EXCEPT !.close = "stop", !.error = FALSE]
          BY <3>1, <3>3
        <4>2. QED
          BY <1>2, <4>1 DEF Session
      <3>4. QED
        BY <3>2, <3>3
    <2>2. RunnerAsked' >= RunnerAsked /\ CloseAsked' >= CloseAsked
      <3>1. RunnerAsked' = RunnerAsked /\ RunnerAsked \in Int
        <4>1. UNCHANGED <<runner, pending>>
          BY <1>1, <1>4
        <4>2. QED
          BY <4>1 DEF RunnerAsked
      <3>2. CloseAsked = 0 /\ CloseAsked' \in Nat
        BY <1>4 DEF CloseAsked
      <3>3. QED
        BY <3>1, <3>2
    <2>3. ClosedIsVerified'
      BY <2>1 DEF ClosedIsVerified, SaysClosed
    <2>4. pending.by # "close"
      BY <1>4 DEF SocketOK
    <2>5. QED
      BY <1>1, <1>2, <1>4, <2>1, <2>2, <2>3, <2>4, UserFrame
      DEF FinalsAreLast, VerifiedIsClean, TypeOK
  <1>5. QED
    BY <1>1, <1>3, <1>4

\* Close asks for the stop, unless it has.
LEMMA CloseStopStep ==
  ASSUME IInv, CloseStop
  PROVE  IInv'
  <1> USE DEF IInv
  <1>1. /\ Idle /\ session.close = "stop"
        /\ UNCHANGED <<collector, daemon, root, replies, polls, runner, controller>>
    BY DEF CloseStop
  <1>2. CASE client.stopping
    <2>1. /\ session' = [session EXCEPT !.failure = TRUE, !.close = "broker"]
          /\ UNCHANGED <<requests, client, pending>>
      BY <1>2 DEF CloseStop
    <2>2. session' \in Session /\ session'.close = "broker" /\ session'.error = session.error
      BY <2>1 DEF TypeOK, Session
    <2>3. RunnerAsked' >= RunnerAsked /\ CloseAsked' >= CloseAsked
      BY <1>1, <2>1, <2>2 DEF RunnerAsked, CloseAsked
    <2>4. FinalsSent' = FinalsSent /\ replies' \in Seq(Answer) /\ pending.by = "nobody"
          /\ ClosedIsVerified'
      BY <1>1, <2>2 DEF FinalsSent, SocketOK, Idle, NoRequest, ClosedIsVerified, SaysClosed
    <2>5. QED
      BY <1>1, <2>1, <2>2, <2>3, <2>4, UserFrame DEF FinalsAreLast, VerifiedIsClean, TypeOK
  <1>3. CASE ~client.stopping
    <2>1. Sends("close", "STOP") /\ UNCHANGED session
      BY <1>3 DEF CloseStop
    <2>2. "STOP" \in Commands /\ Fits("STOP") /\ polls' \in 0 .. MaxPolls
      BY <1>1 DEF Commands, Fits, SocketOK
    <2>3. QED
      BY <1>1, <2>1, <2>2, SendStep
  <1>4. QED
    BY <1>2, <1>3

\* A refused CLEANUP closes once more, and the count of close's requests has room for it.
LEMMA CloseBrokerStep ==
  ASSUME IInv, CloseBroker
  PROVE  IInv'
  <1> USE DEF IInv
  <1>1. /\ session.close = "broker" /\ pending.by # "close"
        /\ UNCHANGED <<collector, daemon, root, requests, replies, client, pending, polls, runner,
                       controller>>
        /\ \/ /\ ~session.error
              /\ session' = [session EXCEPT !.error = TRUE, !.failure = TRUE, !.close = "stop"]
           \/ \E verified, error \in BOOLEAN :
                session' = [session EXCEPT
                              !.cleanup = IF verified THEN "PROCESS_AND_AUDIT_VERIFIED"
                                          ELSE "CLEANUP_UNVERIFIED",
                              !.error = @ \/ error, !.close = "final"]
    BY DEF CloseBroker, socket
  <1>2. session \in Session /\ replies' \in Seq(Answer) /\ FinalsSent' = FinalsSent
    BY <1>1 DEF TypeOK, SocketOK, FinalsSent
  <1>3. /\ session' \in Session /\ session'.close \in {"stop", "final"}
        /\ session'.close = "stop" => ~session.error /\ session'.error
        /\ session.error => session'.error
    <2>1. CASE /\ ~session.error
               /\ session' = [session EXCEPT !.error = TRUE, !.failure = TRUE, !.close = "stop"]
      BY <1>2, <2>1 DEF Session
    <2>2. CASE \E verified, error \in BOOLEAN :
                 session' = [session EXCEPT
                               !.cleanup = IF verified THEN "PROCESS_AND_AUDIT_VERIFIED"
                                           ELSE "CLEANUP_UNVERIFIED",
                               !.error = @ \/ error, !.close = "final"]
      <3>1. PICK verified, error \in BOOLEAN :
                 session' = [session EXCEPT
                               !.cleanup = IF verified THEN "PROCESS_AND_AUDIT_VERIFIED"
                                           ELSE "CLEANUP_UNVERIFIED",
                               !.error = @ \/ error, !.close = "final"]
        BY <2>2
      <3> DEFINE cleanup == IF verified THEN "PROCESS_AND_AUDIT_VERIFIED" ELSE "CLEANUP_UNVERIFIED"
      <3>2. cleanup \in {"PROCESS_AND_AUDIT_VERIFIED", "CLEANUP_UNVERIFIED"}
        OBVIOUS
      <3>3. session' = [session EXCEPT !.cleanup = cleanup, !.error = @ \/ error, !.close = "final"]
        BY <3>1
      <3> HIDE DEF cleanup
      <3>4. CASE session.error \/ error
        <4>1. session' = [session EXCEPT !.cleanup = cleanup, !.error = TRUE, !.close = "final"]
          BY <3>3, <3>4
        <4>2. QED
          BY <1>2, <3>2, <4>1 DEF Session
      <3>5. CASE ~(session.error \/ error)
        <4>1. session' = [session EXCEPT !.cleanup = cleanup, !.error = FALSE, !.close = "final"]
          BY <3>3, <3>5
        <4>2. QED
          BY <1>2, <3>2, <3>5, <4>1 DEF Session
      <3>6. QED
        BY <3>4, <3>5
    <2>3. QED
      BY <1>1, <2>1, <2>2
  <1>4. RunnerAsked' >= RunnerAsked /\ CloseAsked' >= CloseAsked
    <2>1. RunnerAsked' = RunnerAsked /\ RunnerAsked \in Int
      <3>1. UNCHANGED <<runner, pending>>
        BY <1>1
      <3>2. QED
        BY <3>1 DEF RunnerAsked
    <2>2. CloseAsked = IF session.error THEN 2 ELSE 1
      <3>1. session.close = "broker"
        BY <1>1
      <3>2. QED
        BY <3>1 DEF CloseAsked
    <2>3. CloseAsked' = (IF session'.error THEN 1 ELSE 0) + (IF session'.close # "stop" THEN 1 ELSE 0)
      BY <1>1, <1>3 DEF CloseAsked
    <2>4. QED
      BY <1>3, <2>1, <2>2, <2>3
  <1>5. ClosedIsVerified' /\ pending.by # "observer"
    BY <1>1, <1>3 DEF ClosedIsVerified, SaysClosed, SocketOK
  <1>6. QED
    BY <1>1, <1>2, <1>3, <1>4, <1>5, UserFrame DEF FinalsAreLast, VerifiedIsClean, TypeOK

\* The end of close: only a verified final record leaves the session without an error.
LEMMA CloseFinalStep ==
  ASSUME IInv, CloseFinal
  PROVE  IInv'
  <1> USE DEF IInv
  <1>1. /\ session.close = "final"
        /\ UNCHANGED <<collector, daemon, root, requests, pending, polls, runner, controller>>
    BY DEF CloseFinal
  <1>2. session \in Session /\ replies \in Seq(Answer) /\ client \in Client
    BY DEF TypeOK, SocketOK
  <1>3. /\ replies' \in Seq(Answer) /\ client' \in Client /\ client'.sequence = client.sequence
        /\ FinalsSent' # {} => At("gone")
        /\ \A i \in FinalsSent' : replies'[i].final = "VERIFIED" => Clean
        /\ client'.final # "none" => At("gone")
        /\ client'.final = "VERIFIED" => Clean
        /\ \/ \E verdict \in Finals : Concludes(FailsFinal(verdict)) /\ verdict = client'.final
           \/ Concludes(TRUE)
           \/ session' = [session EXCEPT !.close = "closed", !.broken = TRUE]
    <2>1. CASE /\ client.final # "none"
               /\ Concludes(FailsFinal(client.final))
               /\ UNCHANGED <<replies, client>>
      BY <1>2, <2>1 DEF FinalsAreLast, VerifiedIsClean, FinalsSent, Client
    <2>2. CASE client.final = "none" /\ replies = <<>> /\ Concludes(TRUE) /\ UNCHANGED <<replies, client>>
      BY <1>2, <2>2 DEF FinalsAreLast, VerifiedIsClean, FinalsSent
    <2>3. CASE client.final = "none" /\ replies # <<>> /\ replies' = Tail(replies)
      <3> DEFINE m == Head(replies)
      <3>1. /\ replies' \in Seq(Answer) /\ m \in Answer
            /\ FinalsSent' # {} => At("gone")
            /\ \A i \in FinalsSent' : replies'[i].final = "VERIFIED" => Clean
            /\ m.final # "none" => At("gone")
            /\ m.final = "VERIFIED" => Clean
        BY <2>3, TakesReply
      <3>2. \/ /\ m.final # "none" /\ Concludes(FailsFinal(m.final))
               /\ client' = [client EXCEPT !.final = m.final]
            \/ UNCHANGED client /\ Concludes(TRUE)
            \/ UNCHANGED client /\ session' = [session EXCEPT !.close = "closed", !.broken = TRUE]
        BY <2>3 DEF CloseFinal
      <3> HIDE DEF m
      <3>3. m.final \in Finals
        BY <3>1 DEF Answer
      <3>4. CASE /\ m.final # "none" /\ Concludes(FailsFinal(m.final))
                 /\ client' = [client EXCEPT !.final = m.final]
        <4>1. client' \in Client /\ client'.sequence = client.sequence /\ client'.final = m.final
          BY <1>2, <3>3, <3>4 DEF Client
        <4>2. QED
          BY <3>1, <3>3, <3>4, <4>1
      <3>5. CASE UNCHANGED client /\ Concludes(TRUE)
        BY <1>2, <2>3, <3>1, <3>5
      <3>6. CASE UNCHANGED client /\ session' = [session EXCEPT !.close = "closed", !.broken = TRUE]
        BY <1>2, <2>3, <3>1, <3>6
      <3>7. QED
        BY <3>2, <3>4, <3>5, <3>6
    <2>4. QED
      BY <2>1, <2>2, <2>3 DEF CloseFinal
  <1>4. /\ session' \in Session /\ session'.close = "closed" /\ session'.error \in BOOLEAN
        /\ session.error => session'.error
        /\ session'.error \/ session'.broken \/ client'.final = "VERIFIED"
    <2>1. ASSUME NEW failed \in BOOLEAN, Concludes(failed)
          PROVE  /\ session' \in Session /\ session'.close = "closed"
                 /\ session.error \/ failed => session'.error
      BY <1>2, <2>1 DEF Session, Concludes
    <2>2. ASSUME NEW verdict \in Finals, Concludes(FailsFinal(verdict)), verdict = client'.final
          PROVE  /\ session' \in Session /\ session'.close = "closed"
                 /\ session.error => session'.error
                 /\ session'.error \/ client'.final = "VERIFIED"
      <3>1. FailsFinal(verdict) \in BOOLEAN /\ (verdict # "VERIFIED" => FailsFinal(verdict))
        BY <1>2 DEF FailsFinal, Session
      <3>2. QED
        BY <2>1, <2>2, <3>1
    <2>3. CASE session' = [session EXCEPT !.close = "closed", !.broken = TRUE]
      BY <1>2, <2>3 DEF Session
    <2>4. QED
      BY <1>2, <1>3, <2>1, <2>2, <2>3 DEF Session
  <1>5. RunnerAsked' >= RunnerAsked /\ CloseAsked' >= CloseAsked
    BY <1>1, <1>2, <1>4 DEF RunnerAsked, CloseAsked, Session
  <1>6. pending.by \notin {"observer", "close"}
    BY <1>1 DEF SocketOK
  <1>7. ClosedIsVerified'
    BY <1>1, <1>3, <1>4 DEF ClosedIsVerified, SaysClosed, Clean, daemon
  <1>8. QED
    BY <1>1, <1>3, <1>4, <1>5, <1>6, <1>7, UserFrame DEF TypeOK

-----------------------------------------------------------------------------
(* The invariant, and the properties it gives.                             *)

\* Every step of the sidecar, the environment and the user keeps the invariant.
LEMMA NextInvariant == IInv /\ [Next]_vars => IInv'
  <1> SUFFICES ASSUME IInv, [Next]_vars
               PROVE  IInv'
    OBVIOUS
  <1>1. CASE Sidecar
    BY <1>1, ServeStep, StartDNSStep, StartZeekStep, LoopStep, ReplyStep, CloseDNSStep, EnterStopStep,
       IdentityStep, DockerStopStep, StoppedIdentityStep, DrainStep, DockerRemoveStep, VerifyAbsentStep,
       StopEndsStep, AwaitBrokerStep, QuiesceStep, InspectStep, CloseStep, SendFinalStep DEF Sidecar
  <1>2. CASE Environment
    BY <1>2, DaemonStep, KilledStep, ControllerDiesStep DEF Environment
  <1>3. CASE User
    BY <1>3, AnsweredStep, UnansweredStep, RequestStep, EndStep, CloseStopStep, CloseBrokerStep,
       CloseFinalStep DEF User
  <1>4. CASE UNCHANGED vars
    <2>1. UNCHANGED <<collector, container, policy, capture, dns, ops, core, sidecar, requests, replies,
                      client, pending, polls, runner, session, controller>>
      BY <1>4 DEF vars, daemon, root, socket, user
    <2>2. TypeOK' /\ SocketOK' /\ RequestsCounted' /\ OneCollector'
      BY <2>1 DEF IInv, TypeOK, SocketOK, RequestsCounted, RunnerAsked, CloseAsked, OneCollector, Fits
    <2>3. StartComesFirst'
      BY <2>1 DEF IInv, StartComesFirst, NotAsked, Asked
    <2>4. StagesInOrder' /\ StopIsRecorded' /\ FinishIsRecorded' /\ PolicyOutlivesContainer'
      BY <2>1, RootStays DEF daemon, root
    <2>5. FinalsAreLast' /\ VerifiedIsClean' /\ ClosedIsVerified'
      BY <2>1 DEF IInv, FinalsAreLast, VerifiedIsClean, ClosedIsVerified, SaysClosed, FinalsSent, Clean,
                  At
    <2>6. QED
      BY <2>2, <2>3, <2>4, <2>5 DEF IInv
  <1>5. QED
    BY <1>1, <1>2, <1>3, <1>4 DEF Next

\* The invariant holds in every state of a session, however many times its status is asked for.
THEOREM Invariance == Spec => []IInv
  BY InitInvariant, NextInvariant, PTL DEF Spec

\* The daemon, the sidecar, the socket and the session keep their types, and a session makes a
\* bounded number of requests besides the status ones.
THEOREM TypeCorrectness == Spec => []TypeOK
  <1>1. IInv => TypeOK
    BY DEF IInv
  <1>2. QED
    BY <1>1, Invariance, PTL

\* Whatever call of the daemon failed or lost its answer, a final record says VERIFIED only when
\* the container, the policy directory and the worker are gone and the stream was read to its end.
THEOREM VerifiedCleanup == Spec => []VerifiedIsClean
  <1>1. IInv => VerifiedIsClean
    BY DEF IInv
  <1>2. QED
    BY <1>1, Invariance, PTL

\* The scripts are not removed under a container that may still have them mounted.
THEOREM PolicyLifetime == Spec => []PolicyOutlivesContainer
  <1>1. IInv => PolicyOutlivesContainer
    BY DEF IInv
  <1>2. QED
    BY <1>1, Invariance, PTL

\* A session whose close ran to its end says CLOSED only on the sidecar's VERIFIED.
THEOREM ClosedSession == Spec => []ClosedIsVerified
  <1>1. IInv => ClosedIsVerified
    BY DEF IInv
  <1>2. QED
    BY <1>1, Invariance, PTL

=============================================================================
