----------------------------- MODULE NetworkRpc -----------------------------
(***************************************************************************)
(* A worker machine that pulls jobs from a coordinator machine over        *)
(* Ethernet: capability calls as request and response frames               *)
(* (network_rpc.c), their carrier and the discovery broadcasts             *)
(* (network_ether.c), the NIC driver's transmit and receive paths          *)
(* (network_device_aarch64.c), the worker's loop (scheduler_run) and the   *)
(* coordinator's idle hook (network_service_poll in coreinit.c).           *)
(*                                                                         *)
(* A call is a get_next_job or a report_job_result.  The coordinator's     *)
(* scheduler is reduced to the state of the jobs meant for the worker.     *)
(* The source's 64-bit request ids never repeat; here an id is reused only *)
(* when no frame carries it any more.                                      *)
(***************************************************************************)
EXTENDS Naturals, Sequences, Functions

CONSTANTS
    Jobs,      \* jobs submitted for the worker machine
    Ids,       \* request ids
    RxRing,    \* QUEUE_SIZE: receive descriptors of a NIC
    WireMax,   \* bound: frames in flight in one direction
    MaxLost,   \* bound: frames the link loses
    Nics,      \* the drivers explored: "virtio", "gem"
    Stalling,  \* those whose device may outlast the driver's wait
    NoJob, NoFrame

(* Request ids start at 1, and id 0 marks a frame that carries none.       *)
ASSUME NetAssumption == Ids \subseteq Nat \ {0} /\ NoJob \notin Jobs

VARIABLES
    nic,      \* g_net_kind on the worker
    pc,       \* where the worker's boot core is
    call,     \* the call in progress: its kind, job and request id
    tx,       \* worker's transmit queue: buffer, entries to do, entries done
    toServer, toClient, \* frames in flight
    rxServer, rxClient, \* frames in each NIC's receive ring
    lost,     \* frames lost so far
    turn,     \* g_network_announcement & 1
    job,      \* the coordinator's view of each job
    execs,    \* how often the request with this id was executed
    answer,   \* the job a get_next_job with this id handed out
    ran,      \* how often the worker ran each job
    stranded  \* jobs whose call failed on the worker

vars == <<nic, pc, call, tx, toServer, toClient, rxServer, rxClient, lost, turn,
          job, execs, answer, ran, stranded>>
link == <<toServer, toClient, rxServer, rxClient, lost, turn>>
server == <<job, execs, answer>>

NoCall == [kind |-> "none", job |-> NoJob, id |-> 0]
Request(c) == [type |-> "request", id |-> c.id, kind |-> c.kind, job |-> c.job]
Response(r, j) == [type |-> "response", id |-> r.id, kind |-> r.kind, job |-> j]
Announcement(s) == [type |-> "announce", id |-> 0, kind |-> s, job |-> NoJob]

Frames == Range(toServer) \union Range(toClient) \union Range(rxServer)
            \union Range(rxClient) \union (IF tx.todo > 0 THEN {tx.buf} ELSE {})
FreeIds == Ids \ {f.id : f \in Frames}

Init ==
    /\ nic \in Nics
    /\ pc = "discover"
    /\ call = NoCall
    /\ tx = [buf |-> NoFrame, todo |-> 0, done |-> 0]
    /\ toServer = <<>> /\ toClient = <<>> /\ rxServer = <<>> /\ rxClient = <<>>
    /\ lost = 0
    /\ turn = 0
    /\ job = [j \in Jobs |-> "ready"]
    /\ execs = [i \in Ids |-> 0]
    /\ answer = [i \in Ids |-> NoJob]
    /\ ran = [j \in Jobs |-> 0]
    /\ stranded = {}

-----------------------------------------------------------------------------
(* The worker: network_rpc_invoke over network_ether_exchange.             *)

(* Mutant: takes any response for its own.                                 *)
MatchesAny(f, c) == f.type = "response"

(* network_rpc_response_matches, and the same test again in invoke.        *)
Matches(f, c) == f.type = "response" /\ f.id = c.id

(* The job a failed call leaves dispatched on the coordinator, as far as   *)
(* has happened yet: the one it reported on, or the one it was handed.     *)
Abandoned(c) == {c.job, answer[c.id]} \ {NoJob}

(* network_ether_wait_announcement: every other frame is dropped.          *)
Discover ==
    /\ pc = "discover"
    /\ rxClient # <<>>
    /\ pc' = IF /\ Head(rxClient).type = "announce"
                /\ Head(rxClient).kind = "scheduler"
             THEN "idle" ELSE "discover"
    /\ rxClient' = Tail(rxClient)
    /\ UNCHANGED <<nic, call, tx, toServer, toClient, rxServer, lost, turn, server, ran, stranded>>

(* It gives up after its poll limit: every later call fails locally.       *)
DiscoverTimeout ==
    /\ pc = "discover"
    /\ pc' = "alone"
    /\ UNCHANGED <<nic, call, tx, link, server, ran, stranded>>

(* network_device_send puts the frame in the one transmit buffer.  GEM     *)
(* refuses while its descriptor is still the device's; virtio queues the   *)
(* same buffer once more.                                                  *)
Transmit(c) ==
    IF nic = "gem" /\ tx.todo > 0
    THEN /\ pc' = "failed"
         /\ UNCHANGED tx
    ELSE /\ pc' = "sending"
         /\ tx' = [tx EXCEPT !.buf = Request(c), !.todo = @ + 1]

Invoke(k, j) ==
    \E i \in FreeIds :
        /\ \A h \in FreeIds : i <= h
        /\ LET c == [kind |-> k, job |-> j, id |-> i]
           IN  call' = c /\ Transmit(c)
        /\ execs' = [h \in Ids |-> IF h \in FreeIds THEN 0 ELSE execs[h]]
        /\ answer' = [h \in Ids |-> IF h \in FreeIds THEN NoJob ELSE answer[h]]

(* scheduler_run: ask for a job.                                           *)
GetNextJob ==
    /\ pc = "idle"
    /\ Invoke("next", NoJob)
    /\ UNCHANGED <<nic, link, job, ran, stranded>>

(* Mutant: reports nothing.                                                *)
RunAndForget ==
    /\ pc = "run"
    /\ ran' = [ran EXCEPT ![call.job] = @ + 1]
    /\ pc' = "idle"
    /\ call' = NoCall
    /\ UNCHANGED <<nic, tx, link, server, stranded>>

(* scheduler_run: run the job it was handed, then report its result.       *)
RunAndReport ==
    /\ pc = "run"
    /\ ran' = [ran EXCEPT ![call.job] = @ + 1]
    /\ Invoke("report", call.job)
    /\ UNCHANGED <<nic, link, job, stranded>>

(* The driver's wait for the device ends: it sees an entry completed,      *)
(* whichever frame that was for.                                           *)
Sent ==
    /\ pc = "sending"
    /\ IF nic = "gem" THEN tx.todo = 0 ELSE tx.done > 0
    /\ tx' = [tx EXCEPT !.done = 0]
    /\ pc' = "await"
    /\ UNCHANGED <<nic, call, link, server, ran, stranded>>

(* Or it gives up while the device still has the frame to send.            *)
SendTimeout ==
    /\ pc = "sending"
    /\ nic \in Stalling
    /\ tx.done = 0
    /\ tx.todo = 1
    /\ pc' = "failed"
    /\ UNCHANGED <<nic, call, tx, link, server, ran, stranded>>

(* network_ether_exchange polls: a frame that is not the reply is dropped. *)
AwaitReply ==
    /\ pc = "await"
    /\ rxClient # <<>>
    /\ LET f == Head(rxClient)
       IN  CASE ~Matches(f, call) -> UNCHANGED <<pc, call>>
             [] Matches(f, call) /\ f.job = NoJob -> pc' = "idle" /\ call' = NoCall
             [] OTHER -> pc' = "run" /\ call' = [call EXCEPT !.job = f.job]
    /\ rxClient' = Tail(rxClient)
    /\ UNCHANGED <<nic, tx, toServer, toClient, rxServer, lost, turn, server, ran, stranded>>

(* Mutant: sends the same request again, after an ambiguous failure.       *)
AwaitTimeoutResend ==
    /\ pc = "await"
    /\ Transmit(call)
    /\ UNCHANGED <<nic, call, link, server, ran, stranded>>

(* Its poll limit is reached, with or without a reply still to come.       *)
AwaitTimeout ==
    /\ pc = "await"
    /\ pc' = "failed"
    /\ UNCHANGED <<nic, call, tx, link, server, ran, stranded>>

(* A failed call is not tried again: scheduler_run sleeps until the next   *)
(* interrupt, or ignores that its report failed, and asks for a job.       *)
CallFailed ==
    /\ pc = "failed"
    /\ pc' = "idle"
    /\ stranded' = stranded \union Abandoned(call)
    /\ call' = NoCall
    /\ UNCHANGED <<nic, tx, link, server, ran>>

-----------------------------------------------------------------------------
(* The NICs and the wire.                                                  *)

(* The device takes the next transmit entry and sends what the buffer      *)
(* holds NOW; once no entry is left, nobody reads the buffer again.        *)
DeviceSends ==
    /\ tx.todo > 0
    /\ Len(toServer) < WireMax
    /\ toServer' = Append(toServer, tx.buf)
    /\ tx' = [buf |-> IF tx.todo = 1 THEN NoFrame ELSE tx.buf,
              todo |-> tx.todo - 1,
              done |-> IF nic = "gem" THEN 0 ELSE tx.done + 1]
    /\ UNCHANGED <<nic, pc, call, toClient, rxServer, rxClient, lost, turn, server, ran, stranded>>

(* A frame reaches a receive ring, or is dropped because the ring is full. *)
Received(ring, f) == IF Len(ring) < RxRing THEN Append(ring, f) ELSE ring

DeliverToServer ==
    /\ toServer # <<>>
    /\ rxServer' = Received(rxServer, Head(toServer))
    /\ toServer' = Tail(toServer)
    /\ UNCHANGED <<nic, pc, call, tx, toClient, rxClient, lost, turn, server, ran, stranded>>

DeliverToClient ==
    /\ toClient # <<>>
    /\ rxClient' = Received(rxClient, Head(toClient))
    /\ toClient' = Tail(toClient)
    /\ UNCHANGED <<nic, pc, call, tx, toServer, rxServer, lost, turn, server, ran, stranded>>

Lose ==
    /\ lost < MaxLost
    /\ lost' = lost + 1
    /\ \/ toServer # <<>> /\ toServer' = Tail(toServer) /\ UNCHANGED toClient
       \/ toClient # <<>> /\ toClient' = Tail(toClient) /\ UNCHANGED toServer
    /\ UNCHANGED <<nic, pc, call, tx, rxServer, rxClient, turn, server, ran, stranded>>

-----------------------------------------------------------------------------
(* The coordinator: network_service_poll, from its core's idle loop.       *)

Waiting(i) == pc \in {"sending", "await", "failed"} /\ call.id = i

(* network_ether_serve_once with network_rpc_serve: one frame is taken     *)
(* from the ring, invoked on the scheduler, and answered to its sender.    *)
ServeOnce ==
    /\ rxServer # <<>>
    /\ Len(toClient) < WireMax
    /\ rxServer' = Tail(rxServer)
    /\ LET r == Head(rxServer)
           ready == {j \in Jobs : job[j] = "ready"}
       IN  /\ execs' = [execs EXCEPT ![r.id] = @ + 1]
           /\ \/ /\ r.kind = "next"
                 /\ \E j \in IF ready = {} THEN {NoJob} ELSE ready :
                       /\ job' = IF j = NoJob THEN job ELSE [job EXCEPT ![j] = "dispatched"]
                       /\ answer' = [answer EXCEPT ![r.id] = j]
                       /\ toClient' = Append(toClient, Response(r, j))
                       /\ stranded' = IF Waiting(r.id) \/ j = NoJob
                                      THEN stranded ELSE stranded \union {j}
              \/ /\ r.kind = "report"
                 /\ job' = [job EXCEPT ![r.job] = "finished"]
                 /\ toClient' = Append(toClient, Response(r, NoJob))
                 /\ UNCHANGED <<answer, stranded>>
    /\ UNCHANGED <<nic, pc, call, tx, toServer, rxClient, lost, turn, ran>>

(* Nothing to serve: now and then it announces its two services in turn.   *)
Announce ==
    /\ rxServer = <<>>
    /\ Len(toClient) < WireMax
    /\ toClient' = Append(toClient, Announcement(IF turn = 1 THEN "scheduler" ELSE "executor"))
    /\ turn' = 1 - turn
    /\ UNCHANGED <<nic, pc, call, tx, toServer, rxServer, rxClient, lost, server, ran, stranded>>

Worker == Discover \/ GetNextJob \/ RunAndReport \/ Sent \/ AwaitReply \/ CallFailed
Network == DeviceSends \/ DeliverToServer \/ DeliverToClient

Next ==
    \/ Worker \/ DiscoverTimeout \/ SendTimeout \/ AwaitTimeout
    \/ Network \/ Lose
    \/ ServeOnce \/ Announce

Spec == Init /\ [][Next]_vars

(* Every loop of the drivers and of the carrier is bounded and then gives  *)
(* up; both machines' loops and the NICs keep going.                       *)
Fairness ==
    /\ WF_vars(Discover) /\ WF_vars(DiscoverTimeout)
    /\ WF_vars(GetNextJob) /\ WF_vars(RunAndReport) /\ WF_vars(CallFailed)
    /\ WF_vars(Sent) /\ WF_vars(AwaitReply) /\ WF_vars(AwaitTimeout)
    /\ WF_vars(DeviceSends) /\ WF_vars(DeliverToServer) /\ WF_vars(DeliverToClient)
    /\ WF_vars(ServeOnce) /\ WF_vars(Announce)
FairSpec == Spec /\ Fairness

-----------------------------------------------------------------------------
(* network_rpc.h: a transport must not retry after an ambiguous send.  The *)
(* coordinator keeps no record of what it has served, so each request must *)
(* reach it at most once, whatever was lost, late or given up on.  And no  *)
(* job is run twice, and none counts as finished without having run.       *)
AtMostOnce ==
    /\ \A i \in Ids : execs[i] <= 1
    /\ \A j \in Jobs : ran[j] <= 1 /\ (job[j] = "finished" => ran[j] = 1)

(* The reply a call accepts is the answer to that very request: the worker *)
(* only ever runs the job this call was handed, never one from a reply     *)
(* that arrives late (network_rpc_response_matches).                       *)
RunsWhatItWasHanded ==
    pc = "run" => /\ answer[call.id] = call.job
                  /\ job[call.job] = "dispatched"
                  /\ call.job \notin stranded

(* Every job finishes, except one whose own call failed on the worker: a   *)
(* failed call costs no job but the one it was about.  (A worker that      *)
(* never saw an announcement runs nothing.)                                *)
EveryJobEnds ==
    \A j \in Jobs : <>(job[j] = "finished" \/ j \in stranded \/ pc = "alone")
=============================================================================
