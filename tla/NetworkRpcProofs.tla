-------------------------- MODULE NetworkRpcProofs --------------------------
(***************************************************************************)
(* A request frame is executed once at most, and the worker runs only the  *)
(* job its own request was handed, for any number of jobs, request ids and *)
(* receive descriptors and whatever the link loses, provided that no       *)
(* virtio device outlasts its driver's wait: that driver queues its one    *)
(* buffer again, and the next request is then sent twice.                  *)
(***************************************************************************)
EXTENDS NetworkRpc, TLAPS

RequestFrame ==
    [type : {"request"}, id : Ids, kind : {"next"}, job : {NoJob}]
      \union [type : {"request"}, id : Ids, kind : {"report"}, job : Jobs]
ReplyFrame ==
    [type : {"response"}, id : Ids, kind : {"next", "report"}, job : Jobs \union {NoJob}]
      \union [type : {"announce"}, id : {0}, kind : {"scheduler", "executor"}, job : {NoJob}]

Calling == {"sending", "await", "failed"}

NetType ==
    /\ pc \in {"discover", "alone", "idle", "run"} \union Calling
    /\ call \in [kind : {"none", "next", "report"}, job : Jobs \union {NoJob}, id : Ids \union {0}]
    /\ tx \in [buf : RequestFrame \union {NoFrame}, todo : {0, 1}, done : Nat]
    /\ tx.todo = 1 => tx.buf \in RequestFrame
    /\ toServer \in Seq(RequestFrame) /\ rxServer \in Seq(RequestFrame)
    /\ toClient \in Seq(ReplyFrame) /\ rxClient \in Seq(ReplyFrame)
    /\ turn \in {0, 1}
    /\ job \in [Jobs -> {"ready", "dispatched", "finished"}]
    /\ execs \in [Ids -> Nat]
    /\ answer \in [Ids -> Jobs \union {NoJob}]
    /\ ran \in [Jobs -> Nat]
    /\ stranded \in SUBSET Jobs

(* No two frames of a queue carry the same request id.                     *)
Once(q) == \A i, k \in 1 .. Len(q) : q[i].id = q[k].id /\ q[i].id # 0 => i = k

(* Neither do two frames of two places.                                    *)
Apart(S, T) == \A f \in S, g \in T : f.id = g.id => f.id = 0

(* The frame the device has still to send; the requests on their way to    *)
(* the coordinator, and the replies on their way back.                     *)
Pending == IF tx.todo > 0 THEN {tx.buf} ELSE {}
Asked == Pending \union Range(toServer) \union Range(rxServer)
Answered == Range(toClient) \union Range(rxClient)

(* Every request id is on one request frame at most and on one reply.  The *)
(* virtio queue is empty except during the send that filled it.            *)
FramesSound ==
    /\ nic # "gem" => tx.todo + tx.done = IF pc = "sending" THEN 1 ELSE 0
    /\ Once(toServer) /\ Once(rxServer) /\ Once(toClient) /\ Once(rxClient)
    /\ Apart(Pending, Range(toServer)) /\ Apart(Pending, Range(rxServer))
    /\ Apart(Range(toServer), Range(rxServer))
    /\ Apart(Range(toClient), Range(rxClient))

(* A request in flight was never executed, and one that reports is about a *)
(* job that ran.                                                           *)
AskedSound == \A f \in Asked : execs[f.id] = 0 /\ (f.kind = "report" => ran[f.job] = 1)

(* A reply in flight is the answer to its request, and the job it hands    *)
(* out still waits to be run.                                              *)
AnsweredSound ==
    \A f \in Answered : f.id # 0 =>
        /\ execs[f.id] = 1 /\ answer[f.id] = f.job
        /\ f.job # NoJob => /\ ran[f.job] = 0 /\ job[f.job] = "dispatched"
                            /\ Waiting(f.id) => f.job \notin stranded

(* What the worker's call in progress may rely on.                         *)
CallSound ==
    /\ pc \in Calling => call.id \in Ids /\ (call.job # NoJob => job[call.job] # "ready")
    /\ pc = "run" =>
          /\ call.id \in Ids /\ call.job \in Jobs
          /\ answer[call.id] = call.job
          /\ ran[call.job] = 0 /\ job[call.job] = "dispatched" /\ call.job \notin stranded
          /\ \A f \in Asked \union Answered : f.id # call.id

(* A job is handed out to one request, executed requests count once, and   *)
(* what a job's state on the coordinator says of its run.                  *)
JobsSound ==
    /\ \A i, k \in Ids : answer[i] = answer[k] /\ answer[i] # NoJob => i = k
    /\ \A i \in Ids : /\ execs[i] <= 1 /\ (execs[i] = 0 => answer[i] = NoJob)
                      /\ answer[i] # NoJob => job[answer[i]] # "ready"
    /\ \A j \in Jobs : /\ ran[j] <= 1 /\ (job[j] = "finished" => ran[j] = 1)
                       /\ job[j] = "ready" => ran[j] = 0 /\ j \notin stranded

NetInv == NetType /\ FramesSound /\ AskedSound /\ AnsweredSound /\ CallSound /\ JobsSound

-----------------------------------------------------------------------------
(* Taking the first frame of a queue leaves one frame per request id.      *)
LEMMA TailOnce ==
    ASSUME NEW S, NEW q \in Seq(S), q # <<>>, Once(q)
    PROVE  /\ Tail(q) \in Seq(S) /\ Head(q) \in S /\ Once(Tail(q))
           /\ Range(q) = Range(Tail(q)) \union {Head(q)}
           /\ \A f \in Range(Tail(q)) : f.id = Head(q).id => f.id = 0
<1>1. Len(q) \in Nat /\ Len(q) >= 1 /\ q \in [1 .. Len(q) -> S] /\ DOMAIN q = 1 .. Len(q)
  OBVIOUS
<1>2. /\ Tail(q) \in Seq(S) /\ Len(Tail(q)) = Len(q) - 1
      /\ \A i \in 1 .. Len(q) - 1 : Tail(q)[i] = q[i + 1]
      /\ DOMAIN Tail(q) = 1 .. Len(q) - 1
      /\ Head(q) = q[1]
  OBVIOUS
<1>3. Head(q) \in S
  BY <1>1, <1>2
<1>4. Once(Tail(q))
  BY <1>1, <1>2 DEF Once
<1>5. Range(q) = Range(Tail(q)) \union {Head(q)}
  <2>1. \A f \in Range(q) : f \in Range(Tail(q)) \union {Head(q)}
    <3> SUFFICES ASSUME NEW i \in 1 .. Len(q)
                 PROVE  q[i] \in Range(Tail(q)) \union {Head(q)}
      BY <1>1, Zenon DEF Range
    <3>1. CASE i = 1
      BY <3>1, <1>2, Zenon
    <3>2. CASE i # 1
      <4>1. i - 1 \in 1 .. Len(q) - 1 /\ (i - 1) + 1 = i
        BY <3>2, <1>1
      <4>2. Tail(q)[i - 1] = q[i]
        BY <4>1, <1>2, Zenon
      <4> QED  BY <4>1, <4>2, <1>2, Zenon DEF Range
    <3> QED  BY <3>1, <3>2, Zenon
  <2>2. \A f \in Range(Tail(q)) : f \in Range(q)
    <3> SUFFICES ASSUME NEW i \in 1 .. Len(q) - 1
                 PROVE  Tail(q)[i] \in Range(q)
      BY <1>2 DEF Range
    <3>1. i + 1 \in 1 .. Len(q)
      BY <1>1
    <3> QED  BY <3>1, <1>1, <1>2, Zenon DEF Range
  <2>3. Head(q) \in Range(q)
    BY <1>1, <1>2 DEF Range
  <2> QED  BY <2>1, <2>2, <2>3, Zenon
<1>6. ASSUME NEW f \in Range(Tail(q)), f.id = Head(q).id
      PROVE  f.id = 0
  <2>1. PICK i \in 1 .. Len(q) - 1 : f = q[i + 1]
    BY <1>2, Zenon DEF Range
  <2>2. i + 1 \in 1 .. Len(q) /\ 1 \in 1 .. Len(q) /\ i + 1 # 1
    BY <1>1
  <2> QED  BY <2>1, <2>2, <1>2, <1>6, Zenon DEF Once
<1> QED  BY <1>2, <1>3, <1>4, <1>5, <1>6, Zenon

(* Adding a frame whose request id no frame of the queue carries.          *)
LEMMA AppendOnce ==
    ASSUME NEW S, NEW q \in Seq(S), NEW e \in S, Once(q),
           \A f \in Range(q) : f.id = e.id => f.id = 0
    PROVE  /\ Append(q, e) \in Seq(S) /\ Once(Append(q, e))
           /\ Range(Append(q, e)) = Range(q) \union {e}
<1> DEFINE p == Append(q, e)
<1>1. Len(q) \in Nat /\ DOMAIN q = 1 .. Len(q)
  OBVIOUS
<1>2. /\ p \in Seq(S) /\ Len(p) = Len(q) + 1 /\ DOMAIN p = 1 .. Len(q) + 1
      /\ \A i \in 1 .. Len(q) : p[i] = q[i]
      /\ p[Len(q) + 1] = e
  OBVIOUS
<1>3. \A i \in 1 .. Len(q) : q[i].id = e.id => q[i].id = 0
  BY <1>1, Zenon DEF Range
<1> HIDE DEF p
<1>4. Once(p)
  <2> SUFFICES ASSUME NEW i \in 1 .. Len(q) + 1, NEW k \in 1 .. Len(q) + 1,
                      p[i].id = p[k].id, p[i].id # 0
               PROVE  i = k
    BY <1>2, Zenon DEF Once
  <2>1. CASE i = Len(q) + 1 \/ k = Len(q) + 1
    BY <2>1, <1>1, <1>2, <1>3
  <2>2. CASE i # Len(q) + 1 /\ k # Len(q) + 1
    <3>1. i \in 1 .. Len(q) /\ k \in 1 .. Len(q)
      BY <2>2, <1>1
    <3> QED  BY <3>1, <1>2, Zenon DEF Once
  <2> QED  BY <2>1, <2>2, Zenon
<1>5. Range(p) = Range(q) \union {e}
  <2>1. \A i \in 1 .. Len(q) + 1 : i \in 1 .. Len(q) \/ i = Len(q) + 1
    BY <1>1
  <2>2. \A i \in 1 .. Len(q) : i \in 1 .. Len(q) + 1
    BY <1>1
  <2>3. Len(q) + 1 \in 1 .. Len(q) + 1
    BY <1>1
  <2>4. \A i \in 1 .. Len(q) + 1 : p[i] \in Range(q) \union {e}
    BY <2>1, <1>1, <1>2, Zenon DEF Range
  <2>5. Range(p) \subseteq Range(q) \union {e}
    BY <2>4, <1>2, Zenon DEF Range
  <2>6. \A i \in 1 .. Len(q) : q[i] \in Range(p)
    BY <2>2, <1>2, Zenon DEF Range
  <2>7. Range(q) \subseteq Range(p)
    BY <2>6, <1>1, Zenon DEF Range
  <2>8. e \in Range(p)
    BY <2>3, <1>2, Zenon DEF Range
  <2> QED  BY <2>5, <2>7, <2>8, Zenon
<1> QED  BY <1>2, <1>4, <1>5, Zenon DEF p

(* A receive ring takes the frame, or drops it when it is full.            *)
LEMMA ReceivedOnce ==
    ASSUME NEW S, NEW q \in Seq(S), NEW e \in S, Once(q),
           \A f \in Range(q) : f.id = e.id => f.id = 0
    PROVE  /\ Received(q, e) \in Seq(S) /\ Once(Received(q, e))
           /\ Range(Received(q, e)) \subseteq Range(q) \union {e}
  BY AppendOnce DEF Received

(* The frames of a queue are of the queue's type.                          *)
LEMMA FrameTypes ==
    NetType => /\ Asked \subseteq RequestFrame /\ Answered \subseteq ReplyFrame
               /\ Frames = Asked \union Answered
               /\ \A f \in Asked : f.id \in Ids
               /\ \A f \in Answered : f.id \in Ids \/ f.id = 0
<1> SUFFICES ASSUME NetType
             PROVE  /\ Asked \subseteq RequestFrame /\ Answered \subseteq ReplyFrame
                    /\ Frames = Asked \union Answered
                    /\ \A f \in Asked : f.id \in Ids
                    /\ \A f \in Answered : f.id \in Ids \/ f.id = 0
  BY Zenon
<1>1. ASSUME NEW S, NEW q \in Seq(S)
      PROVE  Range(q) \subseteq S
  BY DEF Range
<1>2. Pending \subseteq RequestFrame
  BY DEF NetType, Pending
<1>3. Range(toServer) \subseteq RequestFrame /\ Range(rxServer) \subseteq RequestFrame
  BY <1>1, Zenon DEF NetType
<1>4. Range(toClient) \subseteq ReplyFrame /\ Range(rxClient) \subseteq ReplyFrame
  BY <1>1, Zenon DEF NetType
<1>5. Asked \subseteq RequestFrame /\ Answered \subseteq ReplyFrame
  BY <1>2, <1>3, <1>4, Zenon DEF Asked, Answered
<1>6. Frames = Asked \union Answered
  BY Zenon DEF Frames, Asked, Answered, Pending
<1>7. (\A f \in RequestFrame : f.id \in Ids) /\ (\A f \in ReplyFrame : f.id \in Ids \/ f.id = 0)
  BY Zenon DEF RequestFrame, ReplyFrame
<1> QED  BY <1>5, <1>6, <1>7, Zenon

(* The initial state satisfies the invariant.                              *)
LEMMA NetInit == Init => NetInv
<1> SUFFICES ASSUME Init
             PROVE  NetInv
  BY Zenon
<1>1. NetType
  BY DEF Init, NetType, NoCall, Calling
<1>2. Range(<<>>) = {} /\ Once(<<>>)
  BY DEF Range, Once
<1>3. Pending = {} /\ Asked = {} /\ Answered = {}
  BY <1>2 DEF Init, Pending, Asked, Answered
<1>4. FramesSound
  BY <1>2, <1>3 DEF Init, FramesSound, Apart
<1>5. AskedSound /\ AnsweredSound
  BY <1>3, Zenon DEF AskedSound, AnsweredSound
<1>6. CallSound
  BY Zenon DEF Init, CallSound, Calling
<1>7. JobsSound
  BY NetAssumption DEF Init, JobsSound
<1> QED  BY <1>1, <1>4, <1>5, <1>6, <1>7, Zenon DEF NetInv

-----------------------------------------------------------------------------
(* A step that only takes frames away, moves them on or moves the worker   *)
(* within a call keeps what is said of frames, calls and jobs.             *)
LEMMA Shrinks ==
    ASSUME NetInv, NetType', FramesSound',
           Asked' \subseteq Asked, Answered' \subseteq Answered,
           UNCHANGED <<call, job, execs, answer, ran, stranded>>,
           pc' \in Calling <=> pc \in Calling, pc' = "run" => pc = "run"
    PROVE  NetInv'
<1>1. AskedSound'
  BY Zenon DEF NetInv, AskedSound
<1>2. \A f \in Answered : Waiting(f.id)' => Waiting(f.id)
  BY Zenon DEF Waiting, Calling
<1>3. AnsweredSound'
  BY <1>2, Zenon DEF NetInv, AnsweredSound
<1>4. CallSound'
  BY Zenon DEF NetInv, CallSound
<1>5. JobsSound'
  BY Zenon DEF NetInv, JobsSound
<1> QED  BY <1>1, <1>3, <1>4, <1>5, Zenon DEF NetInv

(* The driver hands a frame to the device, and the link carries it, drops  *)
(* it for want of a descriptor or loses it: no frame is copied.            *)
LEMMA CarryStep == NetInv /\ (Network \/ Lose) => NetInv'
<1> SUFFICES ASSUME NetInv, Network \/ Lose
             PROVE  NetInv'
  BY Zenon
<1>0. NetType /\ FramesSound
  BY Zenon DEF NetInv
<1>1. CASE DeviceSends
  <2>1. /\ tx.todo = 1 /\ tx.buf \in RequestFrame /\ Pending = {tx.buf}
        /\ tx' = [buf |-> NoFrame, todo |-> 0, done |-> IF nic = "gem" THEN 0 ELSE tx.done + 1]
    BY <1>0, <1>1 DEF DeviceSends, NetType, Pending
  <2>2. \A f \in Range(toServer) : f.id = tx.buf.id => f.id = 0
    BY <1>0, <2>1, Zenon DEF FramesSound, Apart
  <2>3. /\ toServer' \in Seq(RequestFrame) /\ Once(toServer')
        /\ Range(toServer') = Range(toServer) \union {tx.buf}
    BY <1>0, <1>1, <2>1, <2>2, AppendOnce DEF DeviceSends, NetType, FramesSound
  <2>4. Pending' = {}
    BY <2>1 DEF Pending
  <2>5. NetType'
    <3>1. tx' \in [buf : RequestFrame \union {NoFrame}, todo : {0, 1}, done : Nat]
          /\ (tx'.todo = 1 => tx'.buf \in RequestFrame)
      BY <1>0, <2>1 DEF NetType
    <3> QED  BY <1>0, <1>1, <2>3, <3>1, Zenon DEF DeviceSends, NetType, server
  <2>6. FramesSound'
    <3>1. nic' # "gem" => tx'.todo + tx'.done = IF pc' = "sending" THEN 1 ELSE 0
      BY <1>0, <1>1, <2>1 DEF DeviceSends, NetType, FramesSound
    <3>2. Apart(Range(toServer'), Range(rxServer'))
      BY <1>0, <1>1, <2>1, <2>3, Zenon DEF DeviceSends, FramesSound, Apart
    <3> QED  BY <1>0, <1>1, <2>3, <2>4, <3>1, <3>2, Zenon DEF DeviceSends, FramesSound, Apart
  <2>7. Asked' \subseteq Asked /\ Answered' \subseteq Answered
    BY <1>1, <2>1, <2>3, <2>4, Zenon DEF DeviceSends, Asked, Answered
  <2> QED  BY <1>1, <2>5, <2>6, <2>7, Shrinks, Zenon DEF DeviceSends, server
<1>2. CASE DeliverToServer
  <2> DEFINE e == Head(toServer)
  <2>1. /\ Tail(toServer) \in Seq(RequestFrame) /\ e \in RequestFrame /\ Once(Tail(toServer))
        /\ Range(toServer) = Range(Tail(toServer)) \union {e}
        /\ \A f \in Range(Tail(toServer)) : f.id = e.id => f.id = 0
    BY <1>0, <1>2, TailOnce, Zenon DEF DeliverToServer, NetType, FramesSound
  <2>2. \A f \in Range(rxServer) : f.id = e.id => f.id = 0
    BY <1>0, <2>1, Zenon DEF FramesSound, Apart
  <2>3. /\ rxServer' \in Seq(RequestFrame) /\ Once(rxServer')
        /\ Range(rxServer') \subseteq Range(rxServer) \union {e}
    BY <1>0, <1>2, <2>1, <2>2, ReceivedOnce, Zenon DEF DeliverToServer, NetType, FramesSound
  <2>4. toServer' = Tail(toServer)
    BY <1>2, Zenon DEF DeliverToServer
  <2>5. NetType'
    BY <1>0, <1>2, <2>1, <2>3, <2>4, ZenonT(60) DEF DeliverToServer, NetType, server
  <2> HIDE DEF e
  <2>6. FramesSound'
    <3>1. Pending' = Pending
      BY <1>2, Zenon DEF DeliverToServer, Pending
    <3>2. Apart(Pending, Range(toServer')) /\ Apart(Pending, Range(rxServer'))
      BY <1>0, <2>1, <2>3, <2>4, Zenon DEF FramesSound, Apart
    <3>3. Apart(Range(toServer'), Range(rxServer'))
      BY <1>0, <2>1, <2>3, <2>4, Zenon DEF FramesSound, Apart
    <3> QED  BY <1>0, <1>2, <2>1, <2>3, <2>4, <3>1, <3>2, <3>3, Zenon DEF DeliverToServer, FramesSound
  <2>7. Asked' \subseteq Asked /\ Answered' \subseteq Answered
    BY <1>2, <2>1, <2>3, <2>4, Zenon DEF DeliverToServer, Asked, Answered, Pending
  <2> QED  BY <1>2, <2>5, <2>6, <2>7, Shrinks, Zenon DEF DeliverToServer, server
<1>3. CASE DeliverToClient
  <2> DEFINE e == Head(toClient)
  <2>1. /\ Tail(toClient) \in Seq(ReplyFrame) /\ e \in ReplyFrame /\ Once(Tail(toClient))
        /\ Range(toClient) = Range(Tail(toClient)) \union {e}
        /\ \A f \in Range(Tail(toClient)) : f.id = e.id => f.id = 0
    BY <1>0, <1>3, TailOnce, Zenon DEF DeliverToClient, NetType, FramesSound
  <2>2. \A f \in Range(rxClient) : f.id = e.id => f.id = 0
    BY <1>0, <2>1, Zenon DEF FramesSound, Apart
  <2>3. /\ rxClient' \in Seq(ReplyFrame) /\ Once(rxClient')
        /\ Range(rxClient') \subseteq Range(rxClient) \union {e}
    BY <1>0, <1>3, <2>1, <2>2, ReceivedOnce, ZenonT(60) DEF DeliverToClient, NetType, FramesSound
  <2>4. toClient' = Tail(toClient)
    BY <1>3, Zenon DEF DeliverToClient
  <2>5. NetType'
    BY <1>0, <1>3, <2>1, <2>3, <2>4, ZenonT(60) DEF DeliverToClient, NetType, server
  <2> HIDE DEF e
  <2>6. FramesSound'
    <3>1. Pending' = Pending
      BY <1>3, Zenon DEF DeliverToClient, Pending
    <3>2. Apart(Range(toClient'), Range(rxClient'))
      BY <1>0, <2>1, <2>3, <2>4, Zenon DEF FramesSound, Apart
    <3> QED  BY <1>0, <1>3, <2>1, <2>3, <2>4, <3>1, <3>2, Zenon DEF DeliverToClient, FramesSound
  <2>7. Asked' \subseteq Asked /\ Answered' \subseteq Answered
    BY <1>3, <2>1, <2>3, <2>4, Zenon DEF DeliverToClient, Asked, Answered, Pending
  <2> QED  BY <1>3, <2>5, <2>6, <2>7, Shrinks, Zenon DEF DeliverToClient, server
<1>4. CASE Lose
  <2>1. CASE toServer # <<>> /\ toServer' = Tail(toServer) /\ UNCHANGED toClient
    <3>1. /\ toServer' \in Seq(RequestFrame) /\ Once(toServer')
          /\ Range(toServer') \subseteq Range(toServer)
      BY <1>0, <2>1, TailOnce DEF NetType, FramesSound
    <3>2. NetType'
      BY <1>0, <1>4, <2>1, <3>1, ZenonT(60) DEF Lose, NetType, server
    <3>3. Pending' = Pending
      BY <1>4, Zenon DEF Lose, Pending
    <3>4. FramesSound'
      BY <1>0, <1>4, <2>1, <3>1, <3>3, Zenon DEF Lose, FramesSound, Apart
    <3>5. Asked' \subseteq Asked /\ Answered' \subseteq Answered
      BY <1>4, <2>1, <3>1, <3>3, Zenon DEF Lose, Asked, Answered
    <3> QED  BY <1>4, <3>2, <3>4, <3>5, Shrinks, Zenon DEF Lose, server
  <2>2. CASE toClient # <<>> /\ toClient' = Tail(toClient) /\ UNCHANGED toServer
    <3>1. /\ toClient' \in Seq(ReplyFrame) /\ Once(toClient')
          /\ Range(toClient') \subseteq Range(toClient)
      BY <1>0, <2>2, TailOnce DEF NetType, FramesSound
    <3>2. NetType'
      BY <1>0, <1>4, <2>2, <3>1, ZenonT(60) DEF Lose, NetType, server
    <3>3. Pending' = Pending
      BY <1>4, Zenon DEF Lose, Pending
    <3>4. FramesSound'
      BY <1>0, <1>4, <2>2, <3>1, <3>3, Zenon DEF Lose, FramesSound, Apart
    <3>5. Asked' \subseteq Asked /\ Answered' \subseteq Answered
      BY <1>4, <2>2, <3>1, <3>3, Zenon DEF Lose, Asked, Answered
    <3> QED  BY <1>4, <3>2, <3>4, <3>5, Shrinks, Zenon DEF Lose, server
  <2> QED  BY <1>4, <2>1, <2>2, Zenon DEF Lose
<1> QED  BY <1>1, <1>2, <1>3, <1>4, Zenon DEF Network

(* The worker waits, gives up or learns of the coordinator, with no reply  *)
(* taken for its own.                                                      *)
LEMMA WaitStep ==
    ASSUME NetInv, Stalling \subseteq {"gem"},
           DiscoverTimeout \/ Sent \/ SendTimeout \/ AwaitTimeout
    PROVE  NetInv'
<1>0. NetType /\ FramesSound
  BY Zenon DEF NetInv
<1>1. /\ UNCHANGED <<nic, call, toServer, toClient, rxServer, rxClient, turn,
                     job, execs, answer, ran, stranded>>
      /\ pc' \in Calling <=> pc \in Calling
      /\ pc' \in {"alone"} \union Calling /\ pc' # "sending"
      /\ tx'.todo = tx.todo /\ tx'.buf = tx.buf
      /\ tx' \in [buf : RequestFrame \union {NoFrame}, todo : {0, 1}, done : Nat]
  <2>1. CASE DiscoverTimeout
    BY <1>0, <2>1, Zenon DEF DiscoverTimeout, link, server, NetType, Calling
  <2>2. CASE Sent
    BY <1>0, <2>2, Zenon DEF Sent, link, server, NetType, Calling
  <2>3. CASE SendTimeout
    BY <1>0, <2>3, Zenon DEF SendTimeout, link, server, NetType, Calling
  <2>4. CASE AwaitTimeout
    BY <1>0, <2>4, Zenon DEF AwaitTimeout, link, server, NetType, Calling
  <2> QED  BY <2>1, <2>2, <2>3, <2>4, Zenon
<1>2. NetType'
  BY <1>0, <1>1, Zenon DEF NetType
<1>3. Pending' = Pending /\ Asked' = Asked /\ Answered' = Answered
  BY <1>1, Zenon DEF Pending, Asked, Answered
<1>4. nic' # "gem" => tx'.todo + tx'.done = 0
  <2>1. CASE DiscoverTimeout
    BY <1>0, <2>1, Zenon DEF DiscoverTimeout, FramesSound
  <2>2. CASE Sent
    BY <1>0, <2>2 DEF Sent, FramesSound, NetType
  <2>3. CASE SendTimeout
    BY <2>3, Zenon DEF SendTimeout
  <2>4. CASE AwaitTimeout
    BY <1>0, <2>4, Zenon DEF AwaitTimeout, FramesSound
  <2> QED  BY <2>1, <2>2, <2>3, <2>4, Zenon
<1>5. FramesSound'
  BY <1>0, <1>1, <1>3, <1>4, Zenon DEF FramesSound, Calling
<1>6. pc' = "run" => pc = "run"
  BY <1>1, Zenon DEF Calling
<1> QED  BY <1>1, <1>2, <1>3, <1>5, <1>6, Shrinks, Zenon

(* The worker takes a frame from its receive ring: while it looks for the  *)
(* coordinator, or for the reply to its call.                              *)
LEMMA TakeStep == NetInv /\ (Discover \/ AwaitReply) => NetInv'
<1> SUFFICES ASSUME NetInv, Discover \/ AwaitReply
             PROVE  NetInv'
  BY Zenon
<1>0. NetType /\ FramesSound
  BY Zenon DEF NetInv
<1> DEFINE f == Head(rxClient)
<1>1. /\ rxClient # <<>> /\ rxClient' = Tail(rxClient)
      /\ UNCHANGED <<nic, tx, toServer, toClient, rxServer, turn, job, execs, answer, ran, stranded>>
      /\ pc \in {"discover", "await"} /\ pc' \in {"discover", "await", "idle", "run"}
  BY Zenon DEF Discover, AwaitReply, server
<1>2. /\ Tail(rxClient) \in Seq(ReplyFrame) /\ f \in ReplyFrame /\ Once(Tail(rxClient))
      /\ Range(rxClient) = Range(Tail(rxClient)) \union {f}
      /\ \A g \in Range(Tail(rxClient)) : g.id = f.id => g.id = 0
  BY <1>0, <1>1, TailOnce, Zenon DEF NetType, FramesSound
<1>3. Pending' = Pending /\ Asked' = Asked /\ Answered' \subseteq Answered /\ f \in Answered
  BY <1>1, <1>2, Zenon DEF Pending, Asked, Answered
<1>4. f.job \in Jobs \union {NoJob} /\ (f.type = "response" => f.id \in Ids)
  BY <1>2, Zenon DEF ReplyFrame
<1>5. \A g \in Answered' : g.id = f.id => g.id = 0
  BY <1>0, <1>1, <1>2, Zenon DEF Answered, FramesSound, Apart
<1> HIDE DEF f
<1>6. FramesSound'
  BY <1>0, <1>1, <1>2, <1>3, Zenon DEF FramesSound, Apart
<1>7. ASSUME UNCHANGED call, pc' # "run"
      PROVE  NetType'
  BY <1>0, <1>1, <1>2, <1>7 DEF NetType, Calling
<1>8. CASE Discover
  <2>1. UNCHANGED call /\ pc = "discover" /\ pc' \in {"idle", "discover"}
    BY <1>8, Zenon DEF Discover
  <2> QED  BY <1>1, <1>3, <1>6, <1>7, <2>1, Shrinks, Zenon DEF Calling
<1>9. CASE AwaitReply /\ ~ Matches(f, call)
  <2>1. UNCHANGED <<pc, call>> /\ pc = "await"
    BY <1>9, Zenon DEF AwaitReply, f
  <2> QED  BY <1>1, <1>3, <1>6, <1>7, <2>1, Shrinks, Zenon DEF Calling
<1>10. CASE AwaitReply /\ Matches(f, call) /\ f.job = NoJob
  <2>1. pc' = "idle" /\ call' = NoCall
    BY <1>10, Zenon DEF AwaitReply, f
  <2>2. NetType'
    BY <1>0, <1>1, <1>2, <2>1, Zenon DEF NetType, NoCall
  <2>3. AskedSound' /\ JobsSound'
    BY <1>1, <1>3, Zenon DEF NetInv, AskedSound, JobsSound
  <2>4. AnsweredSound'
    BY <1>1, <1>3, <2>1, Zenon DEF NetInv, AnsweredSound, Waiting
  <2>5. CallSound'
    BY <2>1, Zenon DEF CallSound, Calling
  <2> QED  BY <1>6, <2>2, <2>3, <2>4, <2>5, Zenon DEF NetInv
<1>11. CASE AwaitReply /\ Matches(f, call) /\ f.job # NoJob
  <2>1. pc = "await" /\ pc' = "run" /\ call' = [call EXCEPT !.job = f.job]
    BY <1>11, Zenon DEF AwaitReply, f
  <2>2. call'.id = call.id /\ call'.job = f.job
    BY <1>0, <2>1, Zenon DEF NetType
  <2>3. NetType'
    BY <1>0, <1>1, <1>2, <1>4, <2>1, Zenon DEF NetType
  <2>4. AskedSound' /\ JobsSound'
    BY <1>1, <1>3, Zenon DEF NetInv, AskedSound, JobsSound
  <2>5. AnsweredSound'
    BY <1>1, <1>3, <2>1, Zenon DEF NetInv, AnsweredSound, Waiting
  <2>6. f.id = call.id /\ call.id \in Ids /\ f.id # 0 /\ Waiting(f.id)
    BY <1>4, <1>11, <2>1, NetAssumption, Zenon DEF Matches, Waiting
  <2>7. /\ execs[f.id] = 1 /\ answer[f.id] = f.job
        /\ ran[f.job] = 0 /\ job[f.job] = "dispatched" /\ f.job \notin stranded
    BY <1>3, <1>11, <2>6, Zenon DEF NetInv, AnsweredSound
  <2>8. \A g \in (Asked \union Answered)' : g.id # call.id
    BY <1>3, <1>5, <2>6, <2>7 DEF NetInv, AskedSound
  <2>9. CallSound'
    BY <1>1, <1>4, <1>11, <2>1, <2>2, <2>6, <2>7, <2>8 DEF CallSound, Calling
  <2> QED  BY <1>6, <2>3, <2>4, <2>5, <2>9, Zenon DEF NetInv
<1> QED  BY <1>8, <1>9, <1>10, <1>11, Zenon

(* A failed call strands the job it was about, which is not ready, and no  *)
(* reply to it will be accepted any more.                                  *)
LEMMA FailStep == NetInv /\ CallFailed => NetInv'
<1> SUFFICES ASSUME NetInv, CallFailed
             PROVE  NetInv'
  BY Zenon
<1>0. NetType /\ FramesSound
  BY Zenon DEF NetInv
<1>1. /\ pc = "failed" /\ pc' = "idle" /\ call' = NoCall
      /\ stranded' = stranded \union Abandoned(call)
      /\ UNCHANGED <<nic, tx, toServer, toClient, rxServer, rxClient, turn, job, execs, answer, ran>>
  BY Zenon DEF CallFailed, link, server
<1>2. call.id \in Ids /\ (call.job # NoJob => job[call.job] # "ready")
  BY <1>1, Zenon DEF NetInv, CallSound, Calling
<1>3. answer[call.id] \in Jobs \union {NoJob}
      /\ (answer[call.id] # NoJob => job[answer[call.id]] # "ready")
  BY <1>0, <1>2, Zenon DEF NetInv, JobsSound, NetType
<1>4. Abandoned(call) \subseteq Jobs /\ \A j \in Abandoned(call) : job[j] # "ready"
  BY <1>0, <1>2, <1>3, Zenon DEF Abandoned, NetType
<1>5. NetType'
  BY <1>0, <1>1, <1>4, Zenon DEF NetType, NoCall
<1>6. Pending' = Pending /\ Asked' = Asked /\ Answered' = Answered
  BY <1>1, Zenon DEF Pending, Asked, Answered
<1>7. FramesSound'
  BY <1>0, <1>1, <1>6, Zenon DEF FramesSound
<1>8. AskedSound'
  BY <1>1, <1>6, Zenon DEF NetInv, AskedSound
<1>9. AnsweredSound'
  BY <1>1, <1>6, Zenon DEF NetInv, AnsweredSound, Waiting
<1>10. CallSound'
  BY <1>1, Zenon DEF CallSound, Calling
<1>11. JobsSound'
  BY <1>1, <1>4, Zenon DEF NetInv, JobsSound
<1> QED  BY <1>5, <1>7, <1>8, <1>9, <1>10, <1>11, Zenon DEF NetInv

(* An announcement carries no request id.                                  *)
LEMMA AnnounceStep == NetInv /\ Announce => NetInv'
<1> SUFFICES ASSUME NetInv, Announce
             PROVE  NetInv'
  BY Zenon
<1>0. NetType /\ FramesSound
  BY Zenon DEF NetInv
<1> DEFINE e == Announcement(IF turn = 1 THEN "scheduler" ELSE "executor")
<1>1. /\ toClient' = Append(toClient, e) /\ turn' \in {0, 1}
      /\ UNCHANGED <<nic, pc, call, tx, toServer, rxServer, rxClient, job, execs, answer, ran, stranded>>
  BY <1>0 DEF Announce, server, NetType
<1>2. e \in ReplyFrame /\ e.id = 0
  BY Zenon DEF Announcement, ReplyFrame
<1> HIDE DEF e
<1>3. /\ toClient' \in Seq(ReplyFrame) /\ Once(toClient')
      /\ Range(toClient') = Range(toClient) \union {e}
  <2>1. toClient \in Seq(ReplyFrame) /\ Once(toClient)
    BY <1>0, Zenon DEF NetType, FramesSound
  <2>2. \A f \in Range(toClient) : f.id = e.id => f.id = 0
    BY <1>2, Zenon
  <2>3. e \in ReplyFrame
    BY <1>2, Zenon
  <2>4. /\ Append(toClient, e) \in Seq(ReplyFrame) /\ Once(Append(toClient, e))
        /\ Range(Append(toClient, e)) = Range(toClient) \union {e}
    BY <2>1, <2>2, <2>3, AppendOnce, SMT
  <2> QED  BY <1>1, <2>4, Zenon
<1>4. NetType'
  BY <1>0, <1>1, <1>3, Zenon DEF NetType
<1>5. Pending' = Pending /\ Asked' = Asked /\ Answered' = Answered \union {e}
  BY <1>1, <1>3, Zenon DEF Pending, Asked, Answered
<1>6. FramesSound'
  BY <1>0, <1>1, <1>2, <1>3, <1>5, Zenon DEF FramesSound, Apart
<1>7. AskedSound' /\ JobsSound'
  BY <1>1, <1>5, Zenon DEF NetInv, AskedSound, JobsSound
<1>8. AnsweredSound'
  BY <1>1, <1>2, <1>5, Zenon DEF NetInv, AnsweredSound, Waiting
<1>9. CallSound'
  BY <1>1, <1>2, <1>5, NetAssumption, Zenon DEF NetInv, CallSound
<1> QED  BY <1>4, <1>6, <1>7, <1>8, <1>9, Zenon DEF NetInv

(* A call takes an id that no frame carries, and its request is the only   *)
(* frame with that id.  A report is about a job that has just been run and *)
(* that no reply in flight hands out.                                      *)
LEMMA InvokeStep ==
    ASSUME NetInv, pc \in {"idle", "run"}, NEW k \in {"next", "report"}, NEW j \in Jobs \union {NoJob},
           Invoke(k, j), UNCHANGED <<nic, link, job, stranded>>, ran' \in [Jobs -> Nat],
           k = "next" => j = NoJob /\ ran' = ran,
           k = "report" => /\ j \in Jobs /\ job[j] = "dispatched" /\ ran'[j] = 1
                           /\ \A h \in Jobs \ {j} : ran'[h] = ran[h]
                           /\ \A f \in Answered : f.id # 0 => f.job # j
    PROVE  NetInv'
<1>0. NetType /\ FramesSound
  BY Zenon DEF NetInv
<1>1. PICK i \in FreeIds :
        /\ call' = [kind |-> k, job |-> j, id |-> i]
        /\ Transmit([kind |-> k, job |-> j, id |-> i])
        /\ execs' = [h \in Ids |-> IF h \in FreeIds THEN 0 ELSE execs[h]]
        /\ answer' = [h \in Ids |-> IF h \in FreeIds THEN NoJob ELSE answer[h]]
  BY Zenon DEF Invoke
<1>2. /\ i \in Ids /\ i # 0
      /\ \A f \in Asked \union Answered : f.id # i /\ f.id \notin FreeIds
  BY FrameTypes, <1>0, NetAssumption, Zenon DEF FreeIds
<1> DEFINE e == [type |-> "request", id |-> i, kind |-> k, job |-> j]
<1>3. e = Request([kind |-> k, job |-> j, id |-> i])
  BY Zenon DEF Request
<1>4. e \in RequestFrame /\ e.id = i /\ e.kind = k /\ e.job = j
  BY <1>2, NetAssumption, Zenon DEF RequestFrame
<1> HIDE DEF e
<1>5. UNCHANGED <<nic, toServer, toClient, rxServer, rxClient, turn, job, stranded>>
  BY Zenon DEF link
<1>6. /\ pc' \in {"sending", "failed"}
      /\ nic # "gem" => tx'.todo + tx'.done = IF pc' = "sending" THEN 1 ELSE 0
      /\ tx' \in [buf : RequestFrame \union {NoFrame}, todo : {0, 1}, done : Nat]
      /\ tx'.todo = 1 => tx'.buf \in RequestFrame
      /\ Pending' = Pending \/ Pending' = {e}
  <2>1. CASE nic = "gem" /\ tx.todo > 0
    BY <1>0, <1>1, <2>1, Zenon DEF Transmit, NetType, Pending
  <2>2. CASE ~ (nic = "gem" /\ tx.todo > 0)
    <3>1. tx.todo = 0 /\ (nic # "gem" => tx.done = 0)
      BY <1>0, <2>2 DEF FramesSound, NetType
    <3>2. pc' = "sending" /\ tx' = [tx EXCEPT !.buf = e, !.todo = @ + 1]
      BY <1>1, <1>3, <2>2, Zenon DEF Transmit
    <3>3. tx'.buf = e /\ tx'.todo = 1 /\ tx'.done = tx.done
          /\ tx' \in [buf : RequestFrame \union {NoFrame}, todo : {0, 1}, done : Nat]
      <4>1. tx \in [buf : RequestFrame \union {NoFrame}, todo : {0, 1}, done : Nat]
        BY <1>0, Zenon DEF NetType
      <4>2. e \in RequestFrame \union {NoFrame} /\ tx.todo + 1 = 1
        BY <1>4, <3>1
      <4> QED  BY <3>2, <4>1, <4>2, Zenon
    <3>4. Pending' = {e}
      BY <3>3 DEF Pending
    <3> QED  BY <1>0, <1>4, <3>1, <3>2, <3>3, <3>4 DEF NetType
  <2> QED  BY <2>1, <2>2, Zenon
<1>7. execs' \in [Ids -> Nat] /\ answer' \in [Ids -> Jobs \union {NoJob}]
  BY <1>0, <1>1, Zenon DEF NetType
<1>8. call' \in [kind : {"none", "next", "report"}, job : Jobs \union {NoJob}, id : Ids \union {0}]
  BY <1>1, <1>2, Zenon
<1>9. NetType'
  BY <1>0, <1>5, <1>6, <1>7, <1>8, Zenon DEF NetType, Calling
<1>10. Asked' \subseteq Asked \union {e} /\ Answered' = Answered
  BY <1>5, <1>6, Zenon DEF Asked, Answered
<1>11. FramesSound'
  <2>1. \A f \in Range(toServer) \union Range(rxServer) : f.id # e.id
    BY <1>2, <1>4, Zenon DEF Asked
  <2>2. Apart(Pending', Range(toServer)) /\ Apart(Pending', Range(rxServer))
    BY <1>0, <1>6, <2>1, Zenon DEF FramesSound, Apart
  <2> QED  BY <1>0, <1>5, <1>6, <2>2, Zenon DEF FramesSound
<1>12. \A f \in Asked \union Answered : f.id \in Ids => execs'[f.id] = execs[f.id] /\ answer'[f.id] = answer[f.id]
  BY <1>1, <1>2, Zenon
<1>13. execs'[i] = 0
  BY <1>1, <1>2, Zenon
<1>14. AskedSound'
  <2>1. \A f \in Asked : f.id \in Ids /\ (f.kind = "report" => f.job \in Jobs)
    BY <1>0, FrameTypes, NetAssumption, Zenon DEF RequestFrame
  <2>2. \A f \in Asked : execs'[f.id] = 0
    BY <1>12, <2>1, Zenon DEF NetInv, AskedSound
  <2>3. \A f \in Asked : f.kind = "report" => ran'[f.job] = 1
    BY <2>1, Zenon DEF NetInv, AskedSound
  <2>4. execs'[e.id] = 0 /\ (e.kind = "report" => ran'[e.job] = 1)
    BY <1>4, <1>13, Zenon
  <2> QED  BY <1>10, <2>2, <2>3, <2>4, Zenon DEF AskedSound
<1>15. AnsweredSound'
  <2> SUFFICES ASSUME NEW f \in Answered, f.id # 0
               PROVE  /\ execs'[f.id] = 1 /\ answer'[f.id] = f.job /\ ~ Waiting(f.id)'
                      /\ f.job # NoJob => ran'[f.job] = 0 /\ job[f.job] = "dispatched"
    BY <1>5, <1>10, Zenon DEF AnsweredSound
  <2>1. f.id \in Ids /\ f.job \in Jobs \union {NoJob}
    BY <1>0, FrameTypes, Zenon DEF ReplyFrame
  <2>2. ~ Waiting(f.id)'
    BY <1>1, <1>2, Zenon DEF Waiting
  <2>3. /\ execs[f.id] = 1 /\ answer[f.id] = f.job
        /\ f.job # NoJob => ran[f.job] = 0 /\ job[f.job] = "dispatched"
    BY Zenon DEF NetInv, AnsweredSound
  <2>4. f.job # NoJob => ran'[f.job] = ran[f.job]
    BY <2>1, Zenon
  <2> QED  BY <1>12, <2>1, <2>2, <2>3, <2>4, Zenon
<1>16. CallSound'
  BY <1>1, <1>2, <1>5, <1>6, NetAssumption, Zenon DEF CallSound, Calling
<1>17. JobsSound'
  <2>1. \A h \in Ids : /\ answer'[h] = NoJob \/ answer'[h] = answer[h]
                       /\ \/ execs'[h] = 0 /\ answer'[h] = NoJob
                          \/ execs'[h] = execs[h] /\ answer'[h] = answer[h]
    BY <1>1, Zenon
  <2>2. \A h \in Jobs : /\ ran'[h] <= 1 /\ (job[h] = "finished" => ran'[h] = 1)
                        /\ job[h] = "ready" => ran'[h] = 0 /\ h \notin stranded
    <3> SUFFICES ASSUME NEW h \in Jobs
                 PROVE  /\ ran'[h] <= 1 /\ (job[h] = "finished" => ran'[h] = 1)
                        /\ job[h] = "ready" => ran'[h] = 0 /\ h \notin stranded
      BY Zenon
    <3>1. /\ ran[h] <= 1 /\ (job[h] = "finished" => ran[h] = 1)
          /\ job[h] = "ready" => ran[h] = 0 /\ h \notin stranded
      BY Zenon DEF NetInv, JobsSound
    <3>2. CASE ran'[h] = ran[h]
      BY <3>1, <3>2, Zenon
    <3>3. CASE job[h] = "dispatched" /\ ran'[h] = 1
      BY <3>3
    <3> QED  BY <3>2, <3>3, Zenon
  <2>3. /\ \A h, l \in Ids : answer[h] = answer[l] /\ answer[h] # NoJob => h = l
        /\ \A h \in Ids : /\ execs[h] <= 1 /\ (execs[h] = 0 => answer[h] = NoJob)
                          /\ answer[h] # NoJob => job[answer[h]] # "ready"
    BY Zenon DEF NetInv, JobsSound
  <2>4. \A h, l \in Ids : answer'[h] = answer'[l] /\ answer'[h] # NoJob => h = l
    <3> SUFFICES ASSUME NEW h \in Ids, NEW l \in Ids, answer'[h] = answer'[l], answer'[h] # NoJob
                 PROVE  h = l
      BY Zenon
    <3>1. answer'[h] = answer[h] /\ answer'[l] = answer[l]
      BY <2>1, Zenon
    <3> QED  BY <2>3, <3>1, ZenonT(60)
  <2>5. \A h \in Ids : execs'[h] <= 1 /\ (execs'[h] = 0 => answer'[h] = NoJob)
    BY <2>1, <2>3
  <2>6. \A h \in Ids : answer'[h] # NoJob => job[answer'[h]] # "ready"
    BY <2>1, <2>3, Zenon
  <2> QED  BY <1>5, <2>2, <2>4, <2>5, <2>6, Zenon DEF JobsSound
<1> QED  BY <1>9, <1>11, <1>14, <1>15, <1>16, <1>17, Zenon DEF NetInv

(* The worker asks for a job.                                              *)
LEMMA NextJobStep == NetInv /\ GetNextJob => NetInv'
<1> SUFFICES ASSUME NetInv, GetNextJob
             PROVE  NetInv'
  BY Zenon
<1>1. ran' = ran /\ ran' \in [Jobs -> Nat]
  BY Zenon DEF GetNextJob, NetInv, NetType
<1>2. pc = "idle" /\ Invoke("next", NoJob) /\ UNCHANGED <<nic, link, job, stranded>>
  BY Zenon DEF GetNextJob
<1> QED  BY <1>1, <1>2, InvokeStep, Zenon

(* The worker runs its job, once, and reports it.                          *)
LEMMA ReportStep == NetInv /\ RunAndReport => NetInv'
<1> SUFFICES ASSUME NetInv, RunAndReport
             PROVE  NetInv'
  BY Zenon
<1>1. /\ pc = "run" /\ Invoke("report", call.job) /\ UNCHANGED <<nic, link, job, stranded>>
      /\ ran' = [ran EXCEPT ![call.job] = @ + 1]
  BY Zenon DEF RunAndReport
<1>2. /\ call.id \in Ids /\ call.job \in Jobs /\ answer[call.id] = call.job
      /\ ran[call.job] = 0 /\ job[call.job] = "dispatched"
      /\ \A f \in Answered : f.id # call.id
  BY <1>1, Zenon DEF NetInv, CallSound
<1>3. ran' \in [Jobs -> Nat] /\ ran'[call.job] = 1 /\ \A h \in Jobs \ {call.job} : ran'[h] = ran[h]
  BY <1>1, <1>2 DEF NetInv, NetType
<1>4. ASSUME NEW f \in Answered, f.id # 0
      PROVE  f.job # call.job
  <2>1. f.id \in Ids /\ answer[f.id] = f.job
    BY <1>4, FrameTypes, Zenon DEF NetInv, AnsweredSound
  <2>2. f.id # call.id
    BY <1>2, Zenon
  <2>3. call.job # NoJob /\ \A i, k \in Ids : answer[i] = answer[k] /\ answer[i] # NoJob => i = k
    BY <1>2, NetAssumption, Zenon DEF NetInv, JobsSound
  <2> QED  BY <1>2, <2>1, <2>2, <2>3, Zenon
<1> QED  BY <1>1, <1>2, <1>3, <1>4, InvokeStep, Zenon

-----------------------------------------------------------------------------
(* What serving a request leaves: no other frame carries its id, so the    *)
(* coordinator executes it for the first and only time.                    *)
LEMMA ServeFrames ==
    ASSUME NetInv, ServeOnce, NEW r, r = Head(rxServer), NEW e \in ReplyFrame, e.id = r.id,
           toClient' = Append(toClient, e)
    PROVE  /\ FramesSound' /\ rxServer' \in Seq(RequestFrame) /\ toClient' \in Seq(ReplyFrame)
           /\ Asked' \subseteq Asked /\ Answered' = Answered \union {e}
           /\ \A f \in Asked' : f.id # r.id
           /\ \A f \in Answered : f.id # r.id
<1>0. NetType /\ FramesSound
  BY Zenon DEF NetInv
<1>1. /\ rxServer # <<>> /\ rxServer' = Tail(rxServer)
      /\ UNCHANGED <<nic, pc, tx, toServer, rxClient>>
  BY Zenon DEF ServeOnce
<1>2. /\ Tail(rxServer) \in Seq(RequestFrame) /\ r \in RequestFrame /\ Once(Tail(rxServer))
      /\ Range(rxServer) = Range(Tail(rxServer)) \union {r}
      /\ \A f \in Range(Tail(rxServer)) : f.id = r.id => f.id = 0
  BY <1>0, <1>1, TailOnce, Zenon DEF NetType, FramesSound
<1>3. r \in Asked /\ r.id \in Ids /\ r.id # 0 /\ execs[r.id] = 0
  BY <1>0, <1>2, FrameTypes, NetAssumption, Zenon DEF Asked, NetInv, AskedSound
<1>4. \A f \in Answered : f.id # r.id
  BY <1>3 DEF NetInv, AnsweredSound
<1>5. Pending' = Pending
  BY <1>1, Zenon DEF Pending
<1>6. Asked' \subseteq Asked
  BY <1>1, <1>2, <1>5, Zenon DEF Asked
<1>7. \A f \in Asked' : f.id # r.id
  BY <1>0, <1>1, <1>2, <1>3, <1>5, Zenon DEF Asked, FramesSound, Apart
<1>8. toClient \in Seq(ReplyFrame) /\ Once(toClient) /\ \A f \in Range(toClient) : f.id = e.id => f.id = 0
  BY <1>0, <1>4, Zenon DEF NetType, FramesSound, Answered
<1>9. /\ toClient' \in Seq(ReplyFrame) /\ Once(toClient')
      /\ Range(toClient') = Range(toClient) \union {e}
  <2>1. /\ Append(toClient, e) \in Seq(ReplyFrame) /\ Once(Append(toClient, e))
        /\ Range(Append(toClient, e)) = Range(toClient) \union {e}
    BY <1>8, AppendOnce, SMT
  <2> QED  BY <2>1, Zenon
<1>10. Answered' = Answered \union {e}
  BY <1>1, <1>9, Zenon DEF Answered
<1>11. FramesSound'
  <2>1. Apart(Range(toClient'), Range(rxClient'))
    BY <1>0, <1>1, <1>4, <1>9, Zenon DEF FramesSound, Apart, Answered
  <2>2. Apart(Pending', Range(rxServer')) /\ Apart(Range(toServer'), Range(rxServer'))
    BY <1>0, <1>1, <1>2, <1>5, Zenon DEF FramesSound, Apart
  <2> QED  BY <1>0, <1>1, <1>2, <1>5, <1>9, <2>1, <2>2, Zenon DEF FramesSound
<1> QED  BY <1>1, <1>2, <1>4, <1>6, <1>7, <1>9, <1>10, <1>11, Zenon

(* Serving a request, when the answer is job a: a ready job, or none.  The *)
(* jobs whose state changes are no other frame's.                          *)
LEMMA AnswerStep ==
    ASSUME NetInv, ServeOnce, NEW r, r = Head(rxServer), NEW a \in Jobs \union {NoJob},
           toClient' = Append(toClient, Response(r, a)),
           answer' = [answer EXCEPT ![r.id] = a],
           job' \in [Jobs -> {"ready", "dispatched", "finished"}],
           stranded' \in SUBSET Jobs, stranded \subseteq stranded', stranded' \subseteq stranded \union {a},
           Waiting(r.id) => stranded' = stranded,
           a # NoJob => job[a] = "ready" /\ job'[a] = "dispatched",
           \A j \in Jobs : job'[j] # job[j] => j = a \/ (job'[j] = "finished" /\ ran[j] = 1)
    PROVE  NetInv'
<1>0. NetType /\ FramesSound
  BY Zenon DEF NetInv
<1> DEFINE e == Response(r, a)
<1>1. /\ UNCHANGED <<nic, pc, call, tx, toServer, rxClient, turn, ran>>
      /\ execs' = [execs EXCEPT ![r.id] = @ + 1] /\ rxServer # <<>>
  BY Zenon DEF ServeOnce
<1>2. r \in RequestFrame /\ r \in Asked
  <2>1. r \in RequestFrame /\ r \in Range(rxServer)
    BY <1>0, <1>1, TailOnce DEF NetType, FramesSound
  <2> QED  BY <2>1, Zenon DEF Asked
<1>3. r.id \in Ids /\ r.kind \in {"next", "report"} /\ execs[r.id] = 0
  BY <1>2, Zenon DEF RequestFrame, NetInv, AskedSound
<1>4. e \in ReplyFrame /\ e.id = r.id /\ e.job = a
  BY <1>3, Zenon DEF Response, ReplyFrame
<1> HIDE DEF e
<1>5. toClient' = Append(toClient, e)
  BY Zenon DEF e
<1>6. /\ FramesSound' /\ rxServer' \in Seq(RequestFrame) /\ toClient' \in Seq(ReplyFrame)
      /\ Asked' \subseteq Asked /\ Answered' = Answered \union {e}
      /\ \A f \in Asked' : f.id # r.id
      /\ \A f \in Answered : f.id # r.id
  BY <1>4, <1>5, ServeFrames, Zenon
<1>7. /\ execs' \in [Ids -> Nat] /\ execs'[r.id] = 1 /\ \A i \in Ids \ {r.id} : execs'[i] = execs[i]
      /\ answer' \in [Ids -> Jobs \union {NoJob}] /\ answer'[r.id] = a
      /\ \A i \in Ids \ {r.id} : answer'[i] = answer[i]
  <2>1. execs' \in [Ids -> Nat] /\ execs'[r.id] = 1
    BY <1>0, <1>1, <1>3 DEF NetType
  <2> QED  BY <1>0, <1>1, <1>3, <2>1, ZenonT(60) DEF NetType
<1>8. NetType'
  <2>1. execs' \in [Ids -> Nat] /\ answer' \in [Ids -> Jobs \union {NoJob}]
    BY <1>7, Zenon
  <2> QED  BY <1>0, <1>1, <1>6, <2>1, ZenonT(60) DEF NetType
<1>9. \A j \in Jobs : job[j] = "dispatched" /\ ran[j] = 0 => job'[j] = "dispatched" /\ j # a
  BY <1>0, NetAssumption
<1>10. \A j \in Jobs : job[j] # "ready" => job'[j] # "ready"
  BY NetAssumption, Zenon
<1>11. AskedSound'
  <2> SUFFICES ASSUME NEW f \in Asked'
               PROVE  execs'[f.id] = 0 /\ (f.kind = "report" => ran'[f.job] = 1)
    BY Zenon DEF AskedSound
  <2>1. execs[f.id] = 0 /\ (f.kind = "report" => ran[f.job] = 1)
    BY <1>6, Zenon DEF NetInv, AskedSound
  <2>2. f.id \in Ids \ {r.id}
    BY <1>0, <1>6, FrameTypes, Zenon
  <2> QED  BY <1>1, <1>7, <2>1, <2>2, Zenon
<1>12. AnsweredSound'
  <2>1. ASSUME NEW f \in Answered, f.id # 0
        PROVE  /\ execs'[f.id] = 1 /\ answer'[f.id] = f.job
               /\ f.job # NoJob => /\ ran'[f.job] = 0 /\ job'[f.job] = "dispatched"
                                   /\ Waiting(f.id)' => f.job \notin stranded'
    <3>1. f.id \in Ids \ {r.id} /\ f.job \in Jobs \union {NoJob}
      BY <1>0, <1>6, <2>1, FrameTypes, Zenon DEF ReplyFrame
    <3>2. /\ execs[f.id] = 1 /\ answer[f.id] = f.job
          /\ f.job # NoJob => /\ ran[f.job] = 0 /\ job[f.job] = "dispatched"
                              /\ Waiting(f.id) => f.job \notin stranded
      BY <2>1, Zenon DEF NetInv, AnsweredSound
    <3>3. Waiting(f.id)' => Waiting(f.id)
      BY <1>1, Zenon DEF Waiting
    <3>4. f.job # NoJob => /\ job'[f.job] = "dispatched" /\ f.job # a
      BY <1>9, <3>1, <3>2, Zenon
    <3> QED  BY <1>1, <1>7, <3>1, <3>2, <3>3, <3>4, Zenon
  <2>2. /\ execs'[e.id] = 1 /\ answer'[e.id] = e.job
        /\ e.job # NoJob => /\ ran'[e.job] = 0 /\ job'[e.job] = "dispatched"
                            /\ Waiting(e.id)' => e.job \notin stranded'
    <3>1. Waiting(r.id)' => Waiting(r.id)
      BY <1>1, Zenon DEF Waiting
    <3>2. a # NoJob => ran[a] = 0 /\ a \notin stranded
      BY Zenon DEF NetInv, JobsSound
    <3> QED  BY <1>1, <1>4, <1>7, <3>1, <3>2, Zenon
  <2> QED  BY <1>6, <2>1, <2>2, Zenon DEF AnsweredSound
<1>13. CallSound'
  <2>1. pc \in Calling => call.id \in Ids /\ (call.job # NoJob => job'[call.job] # "ready")
    BY <1>0, <1>10, Zenon DEF NetInv, CallSound, NetType
  <2>2. ASSUME pc = "run"
        PROVE  /\ call.id \in Ids /\ call.job \in Jobs
               /\ answer'[call.id] = call.job
               /\ ran[call.job] = 0 /\ job'[call.job] = "dispatched" /\ call.job \notin stranded'
               /\ \A f \in (Asked \union Answered)' : f.id # call.id
    <3>1. /\ call.id \in Ids /\ call.job \in Jobs
          /\ answer[call.id] = call.job
          /\ ran[call.job] = 0 /\ job[call.job] = "dispatched" /\ call.job \notin stranded
          /\ \A f \in Asked \union Answered : f.id # call.id
      BY <2>2, Zenon DEF NetInv, CallSound
    <3>2. call.id # r.id /\ job'[call.job] = "dispatched" /\ call.job # a
      BY <1>2, <1>9, <3>1, Zenon
    <3>3. answer'[call.id] = call.job /\ call.job \notin stranded'
      BY <1>7, <3>1, <3>2, Zenon
    <3>4. \A f \in (Asked \union Answered)' : f.id # call.id
      BY <1>4, <1>6, <3>1, <3>2, Zenon
    <3> QED  BY <3>1, <3>2, <3>3, <3>4, Zenon
  <2> QED  BY <1>1, <2>1, <2>2, Zenon DEF CallSound
<1>14. JobsSound'
  <2>0. /\ \A i, k \in Ids : answer[i] = answer[k] /\ answer[i] # NoJob => i = k
        /\ \A i \in Ids : /\ execs[i] <= 1 /\ (execs[i] = 0 => answer[i] = NoJob)
                          /\ answer[i] # NoJob => answer[i] \in Jobs /\ job[answer[i]] # "ready"
        /\ \A j \in Jobs : /\ ran[j] <= 1 /\ (job[j] = "finished" => ran[j] = 1)
                           /\ job[j] = "ready" => ran[j] = 0 /\ j \notin stranded
    BY <1>0, ZenonT(60) DEF NetInv, JobsSound, NetType
  <2>1. \A i, k \in Ids : answer'[i] = answer'[k] /\ answer'[i] # NoJob => i = k
    <3>1. \A i \in Ids : answer[i] # NoJob => answer[i] # a
      BY <2>0, Zenon
    <3> SUFFICES ASSUME NEW i \in Ids, NEW k \in Ids, answer'[i] = answer'[k], answer'[i] # NoJob, i # k
                 PROVE  FALSE
      BY Zenon
    <3>2. CASE i = r.id
      <4>1. answer'[k] = answer[k] /\ answer[k] = a
        BY <1>7, <3>2, Zenon
      <4> QED  BY <3>1, <3>2, <4>1, <1>7, Zenon
    <3>3. CASE k = r.id
      <4>1. answer'[i] = answer[i] /\ answer[i] = a
        BY <1>7, <3>3, Zenon
      <4> QED  BY <3>1, <3>3, <4>1, <1>7, Zenon
    <3>4. CASE i # r.id /\ k # r.id
      <4>1. answer'[i] = answer[i] /\ answer'[k] = answer[k]
        BY <1>7, <3>4, Zenon
      <4> QED  BY <2>0, <4>1
    <3> QED  BY <3>2, <3>3, <3>4, Zenon
  <2>2. \A i \in Ids : execs'[i] <= 1 /\ (execs'[i] = 0 => answer'[i] = NoJob)
    BY <1>7, <2>0
  <2>3. \A i \in Ids : answer'[i] # NoJob => job'[answer'[i]] # "ready"
    <3> SUFFICES ASSUME NEW i \in Ids, answer'[i] # NoJob PROVE job'[answer'[i]] # "ready"
      BY Zenon
    <3>1. CASE i = r.id
      BY <1>7, <3>1, Zenon
    <3>2. CASE i # r.id
      <4>1. answer'[i] = answer[i]
        BY <1>7, <3>2, Zenon
      <4> QED  BY <1>10, <2>0, <4>1, Zenon
    <3> QED  BY <3>1, <3>2, Zenon
  <2>4. \A j \in Jobs : ran[j] <= 1 /\ (job'[j] = "finished" => ran[j] = 1)
    BY <2>0, NetAssumption
  <2>5. \A j \in Jobs : job'[j] = "ready" => ran[j] = 0 /\ j \notin stranded'
    BY <1>10, <2>0, NetAssumption
  <2> QED  BY <1>1, <2>1, <2>2, <2>3, <2>4, <2>5, Zenon DEF JobsSound
<1> QED  BY <1>6, <1>8, <1>11, <1>12, <1>13, <1>14, Zenon DEF NetInv

(* The coordinator serves one request.                                     *)
LEMMA ServeStep == NetInv /\ ServeOnce => NetInv'
<1> SUFFICES ASSUME NetInv, ServeOnce
             PROVE  NetInv'
  BY Zenon
<1>0. NetType /\ FramesSound
  BY Zenon DEF NetInv
<1> DEFINE r == Head(rxServer)
           ready == {j \in Jobs : job[j] = "ready"}
<1>1. r \in RequestFrame /\ r \in Asked
  <2>1. rxServer # <<>>
    BY Zenon DEF ServeOnce
  <2>2. r \in RequestFrame /\ r \in Range(rxServer)
    BY <1>0, <2>1, TailOnce DEF NetType, FramesSound
  <2> QED  BY <2>2, Zenon DEF Asked
<1>2. /\ r.id \in Ids /\ execs[r.id] = 0
      /\ r.kind = "report" => r.job \in Jobs /\ ran[r.job] = 1
  BY <1>1, Zenon DEF RequestFrame, NetInv, AskedSound
<1>3. CASE r.kind = "next"
  <2>1. PICK a \in IF ready = {} THEN {NoJob} ELSE ready :
          /\ job' = IF a = NoJob THEN job ELSE [job EXCEPT ![a] = "dispatched"]
          /\ answer' = [answer EXCEPT ![r.id] = a]
          /\ toClient' = Append(toClient, Response(r, a))
          /\ stranded' = IF Waiting(r.id) \/ a = NoJob THEN stranded ELSE stranded \union {a}
    BY <1>3, Zenon DEF ServeOnce
  <2>2. a \in Jobs \union {NoJob} /\ (a # NoJob => a \in Jobs /\ job[a] = "ready")
    BY Zenon
  <2> HIDE DEF r
  <2>3. /\ job' \in [Jobs -> {"ready", "dispatched", "finished"}]
        /\ a # NoJob => job'[a] = "dispatched"
        /\ \A j \in Jobs : job'[j] # job[j] => j = a
    BY <1>0, <2>1, <2>2, Zenon DEF NetType
  <2>4. /\ stranded' \in SUBSET Jobs /\ stranded \subseteq stranded'
        /\ stranded' \subseteq stranded \union {a} /\ (Waiting(r.id) => stranded' = stranded)
    BY <1>0, <2>1, <2>2, Zenon DEF NetType
  <2>5. \A j \in Jobs : job'[j] # job[j] => j = a \/ (job'[j] = "finished" /\ ran[j] = 1)
    BY <2>3, Zenon
  <2>6. r = Head(rxServer)
    BY Zenon DEF r
  <2>7. /\ toClient' = Append(toClient, Response(r, a)) /\ answer' = [answer EXCEPT ![r.id] = a]
        /\ a # NoJob => job[a] = "ready"
    BY <2>1, <2>2, Zenon
  <2> HIDE DEF ready
  <2> QED  BY <2>2, <2>3, <2>4, <2>5, <2>6, <2>7, AnswerStep, Zenon
<1>4. CASE r.kind = "report"
  <2>1. /\ job' = [job EXCEPT ![r.job] = "finished"]
        /\ toClient' = Append(toClient, Response(r, NoJob))
        /\ UNCHANGED <<answer, stranded>>
    BY <1>4, Zenon DEF ServeOnce
  <2> HIDE DEF r
  <2>2. answer[r.id] = NoJob
    BY <1>2, Zenon DEF NetInv, JobsSound
  <2>3. answer' = [answer EXCEPT ![r.id] = NoJob]
    BY <1>0, <1>2, <2>1, <2>2, Zenon DEF NetType
  <2>4. /\ job' \in [Jobs -> {"ready", "dispatched", "finished"}]
        /\ \A j \in Jobs : job'[j] # job[j] => job'[j] = "finished" /\ ran[j] = 1
    BY <1>0, <1>2, <1>4, <2>1, Zenon DEF NetType
  <2>5. stranded' \in SUBSET Jobs /\ stranded' = stranded
    BY <1>0, <2>1, Zenon DEF NetType
  <2> QED  BY <2>1, <2>3, <2>4, <2>5, AnswerStep, Zenon DEF r
<1> QED  BY <1>1, <1>3, <1>4, Zenon DEF RequestFrame

-----------------------------------------------------------------------------
(* Every step keeps the invariant.                                         *)
LEMMA NetStep ==
    ASSUME Stalling \subseteq {"gem"}
    PROVE  NetInv /\ [Next]_vars => NetInv'
<1> SUFFICES ASSUME NetInv, [Next]_vars
             PROVE  NetInv'
  BY Zenon
<1>1. CASE UNCHANGED vars
  <2>1. NetType'
    BY <1>1 DEF vars, NetInv, NetType
  <2>2. Pending' = Pending /\ Asked' = Asked /\ Answered' = Answered
    BY <1>1, Zenon DEF vars, Pending, Asked, Answered
  <2>3. FramesSound'
    BY <1>1, <2>2, Zenon DEF vars, NetInv, FramesSound
  <2> QED  BY <1>1, <2>1, <2>2, <2>3, Shrinks, Zenon DEF vars
<1>2. CASE Discover \/ AwaitReply
  BY <1>2, TakeStep, Zenon
<1>3. CASE DiscoverTimeout \/ Sent \/ SendTimeout \/ AwaitTimeout
  BY <1>3, WaitStep, Zenon
<1>4. CASE GetNextJob
  BY <1>4, NextJobStep, Zenon
<1>5. CASE RunAndReport
  BY <1>5, ReportStep, Zenon
<1>6. CASE CallFailed
  BY <1>6, FailStep, Zenon
<1>7. CASE Network \/ Lose
  BY <1>7, CarryStep, Zenon
<1>8. CASE ServeOnce
  BY <1>8, ServeStep, Zenon
<1>9. CASE Announce
  BY <1>9, AnnounceStep, Zenon
<1> QED  BY <1>1, <1>2, <1>3, <1>4, <1>5, <1>6, <1>7, <1>8, <1>9, Zenon DEF Next, Worker

(* network_rpc.h: a transport must not retry after an ambiguous send.  The *)
(* coordinator executes each request at most once and no job runs twice or *)
(* is taken for finished unrun (network_rpc_invoke, network_rpc_serve),    *)
(* whatever the link loses or delays, unless a virtio device outlasts its  *)
(* driver's wait.                                                          *)
THEOREM ExecutedAtMostOnce ==
    ASSUME Stalling \subseteq {"gem"}
    PROVE  Spec => []AtMostOnce
<1>1. NetInv => AtMostOnce
  BY Zenon DEF NetInv, JobsSound, AtMostOnce
<1> QED  BY <1>1, NetInit, NetStep, PTL DEF Spec

(* network_rpc_response_matches: the worker runs only the job that its own *)
(* request was handed, which the coordinator still counts as dispatched,   *)
(* however late earlier replies arrive.                                    *)
THEOREM RunsOwnAnswer ==
    ASSUME Stalling \subseteq {"gem"}
    PROVE  Spec => []RunsWhatItWasHanded
<1>1. NetInv => RunsWhatItWasHanded
  BY Zenon DEF NetInv, CallSound, RunsWhatItWasHanded
<1> QED  BY <1>1, NetInit, NetStep, PTL DEF Spec
=============================================================================
