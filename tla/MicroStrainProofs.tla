------------------------- MODULE MicroStrainProofs -------------------------
(***************************************************************************)
(* Proofs about MicroStrain for any number of nodes, operations, slots of   *)
(* the queue, pages and calls: whatever comes over the serial line, the     *)
(* platform takes only steps of GatewayCore, and MsIInv is inductive.       *)
(***************************************************************************)
EXTENDS MicroStrain, GatewayCoreProofs, MsLoggingProofs

(* The parts of MsIInv that the core does not give.                        *)
Serial ==
  /\ queue \in [Slots -> Message]
  /\ line \in Seq(Message)
  /\ asked \in Seq(Replies)

MsParts ==
  /\ MsTypeOK /\ MsOwner /\ MsControl /\ MsExchange
  /\ StaysIdle /\ BusyUnlessUpdated /\ DownloadHasNode

-----------------------------------------------------------------------------
(* The queue and the line hold messages, whatever is read and mistaken.    *)

(* What the air and the buffer may hold.                                   *)
LEMMA MessagesAre ==
  /\ NoMsg \in Message /\ Junk \in Message
  /\ \A k \in Replies : Reply(k) \in Message
  /\ \A k \in Packets : \A d \in Device : Msg(k, d) \in Message
  BY DEF NoMsg, Junk, Reply, Msg, Message

(* Taking one out of the queue leaves messages.                            *)
LEMMA TakeKeepsMessages ==
  ASSUME NEW q \in [Slots -> Message], NEW kind
  PROVE  Take(q, kind) \in [Slots -> Message]
  BY MessagesAre DEF Take

(* So does putting one in.                                                 *)
LEMMA PutKeepsMessages ==
  ASSUME NEW q \in [Slots -> Message], NEW m \in Message
  PROVE  Put(q, m) \in [Slots -> Message]
  BY DEF Put

(* So does removing what is stale.                                         *)
LEMMA StaleKeepsMessages ==
  ASSUME NEW q \in [Slots -> Message]
  PROVE  WithoutStale(q) \subseteq [Slots -> Message]
  BY MessagesAre DEF WithoutStale

(* So does reading one from the line.                                      *)
LEMMA ParseKeepsMessages ==
  ASSUME line \in Seq(Message), line # << >>, NEW multiple, NEW p \in Parse(multiple)
  PROVE  p[1] \in Message /\ p[2] \in Seq(Message)
  <1> DEFINE m    == Head(line)
             more == Tail(line)
  <1>1. m \in Message /\ more \in Seq(Message)
    BY HeadTailProperties
  <1>2. \A s \in Seq(Message) : << Junk >> \o s \in Seq(Message)
    BY MessagesAre, ConcatProperties
  <1>3. ASSUME more # << >>
        PROVE  AfterTwoBytes(more) \subseteq Seq(Message)
    <2>1. Tail(more) \in Seq(Message) /\ (Tail(more) # << >> => Tail(Tail(more)) \in Seq(Message))
      BY <1>1, <1>3, HeadTailProperties
    <2> QED
      BY <1>2, <2>1 DEF AfterTwoBytes
  <1>4. Mistaken(multiple) \subseteq Message
    BY MsAssumption, MessagesAre DEF Mistaken, NoMsg
  <1>5. Reply("bs") \in Message
    BY MessagesAre DEF Replies, OneByte
  <1> HIDE DEF m, more
  <1>6. Parse(multiple) =
          CASE m.kind = "junk"                     -> Mistaken(multiple) \X { line, more }
            [] m.kind \in Packets /\ ~ multiple    -> { << Reply("bs"), << Junk >> \o more >> }
            [] m.kind = "bs" /\ multiple /\ more # << >> -> { m } \X AfterTwoBytes(more)
            [] m.kind \in Packets \cup { "value", "page" } /\ (m.kind \in Packets => multiple) ->
                 { << m, more >>, << NoMsg, << Junk >> \o more >> }
            [] OTHER                               -> { << m, more >> }
    BY DEF Parse, m, more
  <1>7. CASE p \in Mistaken(multiple) \X { line, more }
    BY <1>1, <1>4, <1>7
  <1>8. CASE p = << Reply("bs"), << Junk >> \o more >>
    BY <1>1, <1>2, <1>5, <1>8
  <1>9. CASE more # << >> /\ p \in { m } \X AfterTwoBytes(more)
    BY <1>1, <1>3, <1>9
  <1>10. CASE p = << m, more >>
    BY <1>1, <1>10
  <1>11. CASE p = << NoMsg, << Junk >> \o more >>
    BY <1>1, <1>2, <1>11, MessagesAre
  <1> QED
    BY <1>6, <1>7, <1>8, <1>9, <1>10, <1>11

(* readMessage leaves messages in the queue and on the line. *)
LEMMA ReadKeepsMessages ==
  ASSUME queue \in [Slots -> Message], line \in Seq(Message), NEW multiple,
         NEW r \in Read(multiple)
  PROVE  r[1] \in [Slots -> Message] /\ r[2] \in Seq(Message)
  <1>1. PICK q \in WithoutStale(queue) :
          r \in IF ~ Holds(q, "none") \/ line = << >>
                  THEN { << q, line >> }
                  ELSE { << Put(q, p[1]), p[2] >> : p \in Parse(multiple) }
    BY DEF Read
  <1>2. q \in [Slots -> Message]
    BY StaleKeepsMessages
  <1>3. CASE r = << q, line >>
    BY <1>2, <1>3
  <1>4. CASE line # << >> /\ \E p \in Parse(multiple) : r = << Put(q, p[1]), p[2] >>
    <2>1. PICK p \in Parse(multiple) : r = << Put(q, p[1]), p[2] >>
      BY <1>4
    <2>2. p[1] \in Message /\ p[2] \in Seq(Message)
      BY <1>4, ParseKeepsMessages
    <2> QED
      BY <1>2, <2>1, <2>2, PutKeepsMessages
  <1> QED
    BY <1>1, <1>3, <1>4

(* An answer of the base station, if there is one, is read while somebody   *)
(* waits for it.                                                           *)
LEMMA AnswerKeepsMessages ==
  ASSUME queue \in [Slots -> Message], line \in Seq(Message), Answered \/ Failed
  PROVE  queue' \in [Slots -> Message] /\ line' \in Seq(Message)
  BY ReadKeepsMessages, TakeKeepsMessages DEF Answered, Failed

-----------------------------------------------------------------------------
(* What the threads and the base station write to the line and the queue.   *)

(* A step of an exchange leaves messages in the queue and on the line.     *)
LEMMA ExchangeSerial ==
  ASSUME MsTypeOK, Exchange \/ MsRegistered
  PROVE  Serial'
  <1> USE DEF Serial, MsTypeOK, ExchangeEnds, serialVars
  <1>1. CASE MsAsk
    <2>1. want \in Replies
      BY <1>1 DEF MsAsk
    <2>2. << want >> \in Seq(Replies) /\ << "bs", "stop" >> \in Seq(Replies)
      BY <2>1 DEF Replies, OneByte
    <2>3. asked' \in Seq(Replies)
      BY <1>1, <2>2, ConcatProperties DEF MsAsk
    <2> QED
      BY <1>1, <2>3 DEF MsAsk
  <1>2. CASE MsReadOn
    BY <1>2, ReadKeepsMessages DEF MsReadOn
  <1>3. CASE (Answered \/ Failed) /\ UNCHANGED asked
    BY <1>3, AnswerKeepsMessages
  <1>4. \/ MsNextCommand \/ MsLdcStarted \/ MsPinged \/ MsStopped \/ MsSessions
        \/ MsLoggingStarted \/ MsDownloadStarted \/ MsNoDownload \/ MsExchangeOver
        \/ MsRegistered
        => (Answered \/ Failed) /\ UNCHANGED asked
    BY DEF MsNextCommand, MsLdcStarted, MsPinged, MsStopped, MsSessions, MsLoggingStarted,
           MsDownloadStarted, MsNoDownload, MsExchangeOver, MsRegistered
  <1> QED
    BY <1>1, <1>2, <1>3, <1>4 DEF Exchange

(* So does a step of the worker.                                           *)
LEMMA WorkerSerial ==
  ASSUME MsTypeOK, MsWorker
  PROVE  Serial'
  <1> USE DEF Serial, MsTypeOK, serialVars
  <1>1. ASSUME NEW multiple, NEW r \in Read(multiple)
        PROVE  r[1] \in [Slots -> Message] /\ r[2] \in Seq(Message)
    BY <1>1, ReadKeepsMessages
  <1>2. \A kind : Take(queue, kind) \in [Slots -> Message]
    BY TakeKeepsMessages
  <1>3. CASE MsRead
    BY <1>1, <1>3 DEF MsRead
  <1>4. ASSUME NEW d \in Device, Announced(d), UNCHANGED asked PROVE Serial'
    <2>1. PICK r \in Read(TRUE) :
            /\ queue' = IF Holds(r[1], "discovery") THEN Take(r[1], "discovery") ELSE r[1]
            /\ line' = r[2]
      BY <1>4 DEF Announced
    <2>2. r[1] \in [Slots -> Message] /\ r[2] \in Seq(Message)
      BY <1>1
    <2>3. Take(r[1], "discovery") \in [Slots -> Message]
      BY <2>2, TakeKeepsMessages
    <2> QED
      BY <1>4, <2>1, <2>2, <2>3
  <1>5. ASSUME NEW d \in Device, MsKnown(d) \/ MsNew(d) PROVE Serial'
    BY <1>4, <1>5 DEF MsKnown, MsNew, Announced
  <1>6. CASE MsDrop \/ MsLdc \/ MsPageOfNobody \/ MsPage
    BY <1>2, <1>6 DEF MsDrop, MsLdc, MsPageOfNobody, MsPage
  <1>7. CASE MsNextPage
    <2>1. "page" \in Replies
      BY DEF Replies
    <2>2. asked' \in Seq(Replies)
      BY <1>7, <2>1, AppendProperties DEF MsNextPage
    <2> QED
      BY <1>7, <2>2 DEF MsNextPage
  <1>8. CASE \/ MsCheck \/ MsPass \/ MsNoDiscovery \/ MsClearGWState \/ MsUpdateGWState
             \/ MsNoPage \/ MsFirst \/ MsNotFirst \/ MsLastPage \/ MsSessionOver \/ MsGWIdle
             \/ MsEndPass \/ MsLeave \/ MsStopUnlock \/ MsClose \/ MsWorkerElse
    BY <1>8 DEF MsCheck, MsPass, MsNoDiscovery, MsClearGWState, MsUpdateGWState, MsNoPage,
                MsFirst, MsNotFirst, MsLastPage, MsSessionOver, DownloadOver, MsGWIdle,
                MsEndPass, MsLeave, MsStopUnlock, MsClose, MsWorkerElse
  <1>9. ASSUME NEW d \in Device, MsStopDevice(d) PROVE Serial'
    BY <1>9 DEF MsStopDevice
  <1> QED
    BY <1>3, <1>5, <1>6, <1>7, <1>8, <1>9, ExchangeSerial DEF MsWorker

(* So does a step of main.                                                 *)
LEMMA MainSerial ==
  ASSUME MsTypeOK, MsMain
  PROVE  Serial'
  <1>1. CASE \/ MsSend \/ MsTestNode \/ MsTestGateway \/ MsLock \/ MsUnlock \/ MsReturn
             \/ MsMainElse
    BY <1>1 DEF MsSend, MsTestNode, MsTestGateway, MsLock, MsUnlock, MsReturn, MsMainElse,
                serialVars, MsTypeOK, Serial
  <1> QED
    BY <1>1, ExchangeSerial DEF MsMain

(* So do the nodes and the base station.                                   *)
LEMMA EnvironmentSerial ==
  ASSUME MsTypeOK, MsEnvironment
  PROVE  Serial'
  <1> USE DEF Serial, MsTypeOK, serialVars
  <1>1. ASSUME NEW ms \in Seq(Message), Arrives(ms) PROVE line' \in Seq(Message)
    BY <1>1, ConcatProperties DEF Arrives
  <1>2. CASE BaseAnswers
    <2>1. Head(asked) \in Replies /\ Tail(asked) \in Seq(Replies)
      BY <1>2, HeadTailProperties DEF BaseAnswers
    <2>2. \A k \in { Head(asked), "failure" } : << Reply(k) >> \in Seq(Message)
      BY <2>1, MessagesAre DEF Replies, OneByte
    <2> QED
      BY <1>1, <1>2, <2>1, <2>2 DEF BaseAnswers
  <1>3. ASSUME NEW d \in Device, NodeStarts(d) \/ NodeStreams(d) PROVE Serial'
    <2>1. Msg("discovery", d) \in Message /\ Msg("ldc", d) \in Message
      BY MessagesAre DEF Packets
    <2>2. \A n \in 1 .. 2 : [i \in 1 .. n |-> Msg("discovery", d)] \in Seq(Message)
      BY <2>1, IsASeq
    <2>3. << Msg("ldc", d) >> \in Seq(Message)
      BY <2>1
    <2> QED
      BY <1>1, <1>3, <2>2, <2>3 DEF NodeStarts, NodeStreams
  <1> QED
    BY <1>2, <1>3 DEF MsEnvironment

-----------------------------------------------------------------------------
(* The platform and the core. *)

(* An exchange with a node is no step of the core.                         *)
LEMMA ExchangeLeavesCore == Exchange => UNCHANGED vars
  BY DEF Exchange, MsAsk, MsReadOn, MsNextCommand, MsLdcStarted, MsPinged, MsStopped,
         MsSessions, MsLoggingStarted, MsDownloadStarted, MsNoDownload, MsExchangeOver

(* Main's steps are main's steps of the core, or none.                     *)
LEMMA MsMainRefines == MsMain => Main \/ UNCHANGED vars
  <1>1. CASE MsSend \/ MsReturn \/ MsMainElse
    BY <1>1 DEF MsSend, MsReturn, MsMainElse, Main
  <1>2. CASE MsTestNode \/ MsTestGateway \/ MsLock \/ MsUnlock
    BY <1>2 DEF MsTestNode, MsTestGateway, MsLock, MsUnlock
  <1> QED
    BY <1>1, <1>2, ExchangeLeavesCore DEF MsMain

(* The worker's steps are the worker's steps of the core, or none.         *)
LEMMA MsWorkerRefines ==
  ASSUME TypeOK, MsExchange, MsWorker
  PROVE  Worker \/ UNCHANGED vars
  <1>1. CASE MsCheck \/ MsPass \/ MsEndPass \/ MsLeave \/ MsWorkerElse
    BY <1>1 DEF MsCheck, MsPass, MsEndPass, MsLeave, MsWorkerElse, Worker
  <1>2. CASE MsRegistered
    <2>1. target \in Device
      BY <1>2 DEF MsRegistered, ExchangeEnds, MsExchange
    <2> QED
      BY <1>2, <2>1 DEF MsRegistered, Worker
  <1>3. CASE MsLdc \/ MsPage \/ MsFirst
    <2>1. \A d : WMessage(d) => d \in Device
      BY DEF WMessage, TypeOK
    <2> QED
      BY <1>3, <2>1 DEF MsLdc, MsPage, MsFirst, Deliver, Worker
  <1>4. CASE \/ MsRead \/ MsNoDiscovery \/ MsClearGWState \/ MsUpdateGWState \/ MsDrop
             \/ MsNoPage \/ MsPageOfNobody \/ MsNotFirst \/ MsNextPage \/ MsLastPage
             \/ MsSessionOver \/ MsGWIdle \/ MsStopUnlock \/ MsClose
    BY <1>4 DEF MsRead, MsNoDiscovery, MsClearGWState, MsUpdateGWState, MsDrop, MsNoPage,
                MsPageOfNobody, MsNotFirst, MsNextPage, MsLastPage, MsSessionOver,
                DownloadOver, MsGWIdle, MsStopUnlock, MsClose
  <1>5. ASSUME NEW d \in Device, MsKnown(d) \/ MsNew(d) \/ MsStopDevice(d)
        PROVE  UNCHANGED vars
    BY <1>5 DEF MsKnown, MsNew, Announced, MsStopDevice
  <1> QED
    BY <1>1, <1>2, <1>3, <1>4, <1>5, ExchangeLeavesCore DEF MsWorker

(* A step of the gateway with the MicroStrain platform is one of the core,  *)
(* or leaves the core alone.                                               *)
LEMMA MsStepRefinesCore ==
  ASSUME TypeOK, MsExchange, [MsNext]_msVars
  PROVE  [Next]_vars
  <1>1. CASE MsEnvironment
    BY <1>1 DEF MsEnvironment, Next
  <1>2. CASE UNCHANGED msVars
    BY <1>2 DEF msVars
  <1> QED
    BY <1>1, <1>2, MsMainRefines, MsWorkerRefines DEF MsNext, Next

-----------------------------------------------------------------------------
(* MsIInv is inductive.                                                    *)

(* discovery_worker_init may have listed nodes before the threads start.    *)
LEMMA InitMsParts == MsInit => IInv /\ MsParts
  <1> SUFFICES ASSUME MsInit PROVE IInv /\ MsParts
    OBVIOUS
  <1> USE DEF MsInit
  <1>1. TypeOK
    <2>1. mem \in [Device -> Memory]
      BY DEF Memory
    <2>2. work \in 0 .. MaxWork
      BY MaxWorkAssumption
    <2> QED
      BY <2>1, <2>2 DEF TypeOK, MainPC, WorkerPC
  <1>2. Owner /\ InHand /\ ListedAreUp /\ Owned
    BY DEF Owner, InHand, ListedAreUp, Owned, MainHoldsMutex, WorkerHoldsMutex
  <1>3. Snapshot /\ Closing /\ NoLostWakeup
    BY DEF Snapshot, Closing, NoLostWakeup, MainHasSnapshot
  <1>4. MsTypeOK
    <2>1. queue \in [Slots -> Message] /\ line \in Seq(Message) /\ asked \in Seq(Replies)
      BY MessagesAre, EmptySeq
    <2>2. nstate \in [Device -> NodeState]
      BY DEF NodeState
    <2>3. page \in 0 .. LastPage /\ calls \in 0 .. MaxCalls /\ packets \in 0 .. MaxPackets
      BY MsAssumption
    <2> QED
      BY <1>1, <2>1, <2>2, <2>3 DEF MsTypeOK
  <1>5. MsOwner /\ MsControl /\ MsExchange
    BY DEF MsOwner, MsControl, MsExchange
  <1>6. StaysIdle /\ BusyUnlessUpdated /\ DownloadHasNode
    BY DEF StaysIdle, BusyUnlessUpdated, BusyHasNode, DownloadHasNode
  <1> QED
    BY <1>1, <1>2, <1>3, <1>4, <1>5, <1>6 DEF IInv, MsParts

(* What updateGWState finds is true of the list. *)
LEMMA GatewayStateIsTrue ==
  ASSUME NEW states \in [Device -> NodeState], NEW g \in GatewayStates(states)
  PROVE  /\ g \in { "idle", "ldc", "receiving" }
         /\ g = "ldc" => \E d \in listed : states[d] = "ldc"
         /\ g = "receiving" => \E d \in listed : states[d] = "sending"
  BY DEF GatewayStates, Busy

(* Whoever gets an answer has asked for it. *)
LEMMA OnlyReadersGetAnswers ==
  Answered \/ Failed => want # "none"
  BY DEF Answered, Failed, Reading

(* What an exchange waits for first is a reply.                            *)
LEMMA FirstWantIsReply ==
  \A s \in Operations \cup { "sessions", "register" } : FirstWant(s) \in Replies
  BY DEF FirstWant, Operations, Replies, OneByte

(* The exchange of main or of the worker: only its holder is affected.      *)
LEMMA ExchangeMsParts ==
  ASSUME IInv, IInv', MsParts, Exchange,
         gwMutex \in { "main", "worker" }
  PROVE  MsParts'
  <1> USE DEF MsParts, MsTypeOK, MsOwner, MsControl, MsExchange, StaysIdle,
              BusyUnlessUpdated, BusyHasNode, DownloadHasNode, Operations, Starts,
              ExchangeEnds, NothingWanted, MainGoesOn, SetState, vars, mainVars, workerVars,
              nodeVars, callVars, passVars, exchangeVars
  <1>0. /\ TypeOK' /\ Serial' /\ UNCHANGED vars
        /\ pcM = "await" /\ lastRem # NoDevice => lastRem \in listed
    BY ExchangeSerial, ExchangeLeavesCore DEF IInv, Snapshot
  <1>1. /\ queue' \in [Slots -> Message]
        /\ line' \in Seq(Message)
        /\ asked' \in Seq(Replies)
    BY <1>0 DEF Serial
  <1> USE <1>0, <1>1
  <1>2. CASE MsAsk
    BY <1>2 DEF MsAsk
  <1>3. CASE MsReadOn
    BY <1>3 DEF MsReadOn
  <1>4. CASE MsNextCommand
    BY <1>4, OnlyReadersGetAnswers
       DEF MsNextCommand, LastAnswer, NextWant, Replies, OneByte
  <1>5. CASE MsLdcStarted
    BY <1>5, OnlyReadersGetAnswers, GatewayStateIsTrue DEF MsLdcStarted, NodeState
  <1>6. CASE MsPinged
    BY <1>6, OnlyReadersGetAnswers DEF MsPinged, NodeState
  <1>7. CASE MsStopped
    <2> USE <1>7 DEF MsStopped, AfterStop
    <2>1. nstate' \in [Device -> NodeState]
      BY DEF NodeState
    <2>2. /\ gwState' \in { "idle", "ldc", "receiving" }
          /\ BusyHasNode'
      BY <2>1, GatewayStateIsTrue
    <2>3. \/ mstep = "run" /\ gwMutex = "main"
          \/ wstep = "stop" /\ gwMutex = "worker" /\ mstep # "run"
      <3>1. section = "stop"
        OBVIOUS
      <3>2. mstep = "run" \/ wstep \in { "register", "stop" }
        BY <3>1
      <3>3. wstep # "register"
        BY <3>1
      <3> QED
        BY <3>2, <3>3
    <2>4. MsTypeOK'
      BY <2>1, <2>2, <2>3
    <2>5. (MsOwner /\ MsControl /\ MsExchange)'
      BY <2>3
    <2>6. (StaysIdle /\ BusyUnlessUpdated /\ DownloadHasNode)'
      BY <2>2, <2>3
    <2> QED
      BY <2>4, <2>5, <2>6
  <1>8. CASE MsSessions
    BY <1>8, OnlyReadersGetAnswers DEF MsSessions
  <1>9. CASE MsLoggingStarted
    BY <1>9, OnlyReadersGetAnswers DEF MsLoggingStarted, NodeState
  <1>10. CASE MsDownloadStarted
    <2> USE <1>10, MsAssumption DEF MsDownloadStarted
    <2>1. nstate' \in [Device -> NodeState]
      BY DEF NodeState
    <2>2. /\ gwState' \in { "idle", "ldc", "receiving" }
          /\ BusyHasNode'
      BY <2>1, GatewayStateIsTrue
    <2>3. mstep = "run" /\ gwMutex = "main" /\ target \in listed
      BY OnlyReadersGetAnswers
    <2>4. MsTypeOK'
      BY <2>1, <2>2, <2>3
    <2>5. (MsOwner /\ MsControl /\ MsExchange)'
      BY <2>3
    <2>6. (StaysIdle /\ BusyUnlessUpdated /\ DownloadHasNode)'
      BY <2>2, <2>3
    <2> QED
      BY <2>4, <2>5, <2>6
  <1>11. CASE MsNoDownload
    BY <1>11, OnlyReadersGetAnswers, MsAssumption DEF MsNoDownload
  <1>12. CASE MsExchangeOver
    BY <1>12, OnlyReadersGetAnswers DEF MsExchangeOver, AfterStop
  <1> QED
    BY <1>2, <1>3, <1>4, <1>5, <1>6, <1>7, <1>8, <1>9, <1>10, <1>11, <1>12 DEF Exchange

(* From the look-up of the node to the return of rcv_buf. *)
LEMMA MainMsParts ==
  ASSUME IInv, IInv', MsParts, MsMain
  PROVE  MsParts'
  <1> USE DEF MsParts, MsTypeOK, MsOwner, MsControl, MsExchange, StaysIdle,
              BusyUnlessUpdated, BusyHasNode, DownloadHasNode, Operations, Starts,
              MainAt, vars, mainVars, workerVars, nodeVars, serialVars, exchangeVars,
              callVars, passVars
  <1>0. /\ TypeOK /\ TypeOK'
        /\ pcM = "await" /\ lastRem # NoDevice => lastRem \in listed
    BY DEF IInv, Snapshot
  <1> USE <1>0
  <1>1. CASE MsSend
    <2>1. mstep = "none"
      BY <1>1 DEF MsSend, MSend
    <2>2. lastRem' = NoDevice \/ lastRem' \in listed
      BY <1>1 DEF MsSend, MSend
    <2>3. CASE lastRem' = NoDevice
      BY <1>1, <2>1, <2>3 DEF MsSend, MSend
    <2>4. CASE lastRem' # NoDevice
      <3>1. calls' \in 0 .. MaxCalls
        BY <1>1, <2>4, MsAssumption DEF MsSend
      <3>2. op' \in Operations /\ mstep' = IF op' = "info" THEN "gw" ELSE "node"
        BY <1>1, <2>4, MsAssumption DEF MsSend
      <3> QED
        BY <1>1, <2>1, <2>2, <2>4, <3>1, <3>2 DEF MsSend, MSend
    <2> QED
      BY <2>3, <2>4
  <1>2. CASE MsTestNode
    BY <1>2 DEF MsTestNode, NodeFits
  <1>3. CASE MsTestGateway
    BY <1>3 DEF MsTestGateway, GatewayFits
  <1>4. CASE MsLock
    <2> DEFINE s == IF mstep = "lock" /\ op \in { "log", "download" } THEN "sessions" ELSE op
    <2>1. s \in Operations \cup { "sessions" } /\ lastRem \in listed
      BY <1>4 DEF MsLock
    <2>2. FirstWant(s) \in Replies /\ FirstWant(s) # "none"
      BY <2>1, FirstWantIsReply DEF Replies, OneByte
    <2>3. Times(s) \in Nat /\ Times(s) > 0
      BY MsAssumption DEF Times
    <2>4. section' = s /\ want' = FirstWant(s) /\ left' = Times(s) /\ phase' = "ask" /\ target' = lastRem
      BY <1>4 DEF MsLock, Begin
    <2> HIDE DEF s
    <2>5. s \in { op, "sessions" } /\ (s = "sessions" => op \in { "log", "download" })
      BY <1>4 DEF s, MsLock
    <2>6. MsTypeOK'
      <3>1. section' \in Operations \cup { "none", "sessions", "register" }
        BY <2>1, <2>4
      <3>2. want' \in Replies \cup { "none" } /\ left' \in Nat /\ phase' \in { "ask", "read" }
        BY <2>2, <2>3, <2>4
      <3>3. target' \in Device \cup { NoDevice }
        BY <2>4 DEF TypeOK
      <3> QED
        BY <1>4, <3>1, <3>2, <3>3 DEF MsLock
    <2>7. MsOwner' /\ MsControl'
      BY <1>4 DEF MsLock
    <2>8. MsExchange'
      <3>1. lastRem \in Device /\ wstep \in { "out", "stopping" }
        BY <1>4, <2>1 DEF MsLock, TypeOK
      <3> QED
        BY <1>4, <2>1, <2>2, <2>3, <2>4, <2>5, <3>1 DEF MsLock
    <2>9. (StaysIdle /\ BusyUnlessUpdated /\ DownloadHasNode)'
      BY <1>4 DEF MsLock
    <2> QED
      BY <2>6, <2>7, <2>8, <2>9
  <1>5. CASE MsUnlock
    BY <1>5 DEF MsUnlock
  <1>6. CASE MsReturn
    BY <1>6 DEF MsReturn, MServed
  <1>7. CASE MsMainElse
    <2>1. pcM # "await"
      BY <1>7 DEF MsMainElse, MLoop, MLock, MWait, MGoOn, MReacquire, MCount, MCollect,
                  MTimeout, MAccept, MUnlock, MSweepLock, MSweep, MSweepUnlock
    <2>2. UNCHANGED << listed, lastRem, workerVars >>
      BY <1>7 DEF MsMainElse, MLoop, MLock, MWait, MGoOn, MReacquire, MCount, MCollect,
                  MTimeout, MAccept, MUnlock, MSweepLock, MSweep, MSweepUnlock
    <2> QED
      BY <1>7, <2>1, <2>2 DEF MsMainElse
  <1>8. CASE gwMutex = "main" /\ Exchange
    BY <1>8, ExchangeMsParts
  <1> QED
    BY <1>1, <1>2, <1>3, <1>4, <1>5, <1>6, <1>7, <1>8 DEF MsMain

(* The loop of the worker and what follows it. *)
LEMMA WorkerMsParts ==
  ASSUME IInv, IInv', MsParts, MsWorker
  PROVE  MsParts'
  <1> USE MsAssumption
      DEF MsParts, MsTypeOK, MsOwner, MsControl, MsExchange, StaysIdle,
          BusyUnlessUpdated, BusyHasNode, DownloadHasNode, Operations, Starts,
          WorkerAt, InLoop, SetState, vars, mainVars, workerVars, nodeVars,
          exchangeVars, callVars, passVars
  <1>0. /\ TypeOK /\ TypeOK'
        /\ Serial'
        /\ queue' \in [Slots -> Message] /\ line' \in Seq(Message) /\ asked' \in Seq(Replies)
    BY WorkerSerial DEF IInv, Serial
  <1> USE <1>0
  <1>1. CASE MsCheck
    BY <1>1 DEF MsCheck, WCheck, serialVars
  <1>2. CASE MsPass
    BY <1>2 DEF MsPass, WSelect, serialVars
  <1>3. CASE MsRead
    BY <1>3 DEF MsRead
  <1>4. CASE MsNoDiscovery
    BY <1>4 DEF MsNoDiscovery, serialVars
  <1>5. CASE MsClearGWState
    BY <1>5 DEF MsClearGWState, serialVars
  <1>6. CASE MsUpdateGWState
    BY <1>6, GatewayStateIsTrue DEF MsUpdateGWState, serialVars
  <1>7. CASE MsRegistered
    <2>1. wstep = "register" /\ gwMutex = "worker" /\ mstep # "run"
      BY <1>7 DEF MsRegistered, ExchangeEnds
    <2>2. \/ UNCHANGED vars
          \/ pcW = "scan" /\ pcW' = "add_lock" /\ UNCHANGED << listed, mainVars >>
      BY <1>7 DEF MsRegistered, WBuild
    <2> QED
      BY <1>7, <2>1, <2>2 DEF MsRegistered, ExchangeEnds, NothingWanted
  <1>8. CASE MsDrop
    BY <1>8 DEF MsDrop
  <1>9. CASE MsLdc \/ MsPage \/ MsFirst
    <2>1. \/ UNCHANGED vars
          \/ pcW = "scan" /\ pcW' = "deliver" /\ UNCHANGED << listed, mainVars >>
      BY <1>9 DEF MsLdc, MsPage, MsFirst, Deliver, WMessage
    <2> QED
      BY <1>9, <2>1 DEF MsLdc, MsPage, MsFirst, serialVars
  <1>10. CASE MsNoPage
    BY <1>10 DEF MsNoPage, serialVars
  <1>11. CASE MsPageOfNobody
    BY <1>11 DEF MsPageOfNobody
  <1>12. CASE MsNotFirst
    BY <1>12 DEF MsNotFirst, serialVars
  <1>13. CASE MsNextPage
    BY <1>13 DEF MsNextPage, PageDone
  <1>14. CASE MsLastPage \/ MsSessionOver
    <2>1. nstate' \in [Device -> NodeState]
      BY <1>14 DEF MsLastPage, MsSessionOver, DownloadOver, NodeState
    <2>2. /\ wstep \in { "page_done", "first_done" }
          /\ wstep' \in { "page_update", "page_direct" }
          /\ cur' = NoDevice /\ page' = 0
          /\ UNCHANGED << vars, gwMutex, gwState, exchangeVars, callVars, todo, packets >>
      BY <1>14 DEF MsLastPage, MsSessionOver, DownloadOver, PageDone
    <2>3. \A d \in Device : nstate'[d] \in { "idle", nstate[d] }
      BY <1>14 DEF MsLastPage, MsSessionOver, DownloadOver
    <2>4. mstep \notin { "run", "unlock", "unlock_go" }
      BY <2>2
    <2>5. StaysIdle'
      BY <2>2, <2>3, <2>4 DEF TypeOK
    <2>6. MsTypeOK' /\ (MsOwner /\ MsControl /\ MsExchange)'
      BY <2>1, <2>2
    <2> QED
      BY <2>2, <2>5, <2>6
  <1>15. CASE MsGWIdle
    BY <1>15 DEF MsGWIdle
  <1>16. CASE MsEndPass
    BY <1>16 DEF MsEndPass, WScanned
  <1>17. CASE MsLeave
    BY <1>17 DEF MsLeave, WStop, TypeOK
  <1>18. CASE MsStopUnlock
    BY <1>18 DEF MsStopUnlock
  <1>19. CASE MsClose
    BY <1>19 DEF MsClose
  <1>20. CASE MsWorkerElse
    <2>1. /\ pcW \notin { "loop", "select", "cleanup" } /\ pcW' \notin { "loop", "select" }
          /\ pcM = "await" => pcM' = "await"
          /\ listed \subseteq listed' /\ lastRem' = lastRem
      BY <1>20 DEF MsWorkerElse, WAddLock, WAdd, WAddUnlock, WDelivered, Broadcast
    <2> QED
      BY <1>20, <2>1 DEF MsWorkerElse
  <1>21. ASSUME NEW d \in Device, MsKnown(d) PROVE MsParts'
    <2>1. nstate' \in [Device -> NodeState]
      BY <1>21 DEF MsKnown, NodeState
    <2> QED
      BY <1>21, <2>1 DEF MsKnown, Announced
  <1>22. ASSUME NEW d \in Device, MsNew(d) PROVE MsParts'
    <2>1. /\ section' = "register" /\ want' = "value" /\ left' \in Nat \ {0}
          /\ phase' = "ask" /\ target' = d
      BY <1>22 DEF MsNew, Begin, FirstWant, Times
    <2>2. "value" \in Replies
      BY DEF Replies
    <2>3. wstep = "disc" /\ gwMutex = "worker" /\ mstep # "run"
      BY <1>22 DEF MsNew, Announced
    <2> QED
      BY <1>22, <2>1, <2>2, <2>3 DEF MsNew, Announced
  <1>23. ASSUME NEW d \in Device, MsStopDevice(d) PROVE MsParts'
    <2>1. /\ section' = "stop" /\ want' = "bs" /\ left' = 1
          /\ phase' = "ask" /\ target' = d
      BY <1>23 DEF MsStopDevice, Begin, FirstWant, Times
    <2>2. "bs" \in Replies
      BY DEF Replies, OneByte
    <2>3. wstep = "stopping" /\ gwMutex = "none" /\ mstep # "run"
      BY <1>23 DEF MsStopDevice
    <2> QED
      BY <1>23, <2>1, <2>2, <2>3 DEF MsStopDevice
  <1>24. CASE gwMutex = "worker" /\ Exchange
    BY <1>24, ExchangeMsParts
  <1> QED
    BY <1>1, <1>2, <1>3, <1>4, <1>5, <1>6, <1>7, <1>8, <1>9, <1>10, <1>11, <1>12, <1>13,
       <1>14, <1>15, <1>16, <1>17, <1>18, <1>19, <1>20, <1>21, <1>22, <1>23, <1>24
    DEF MsWorker

(* The base station and the nodes touch nothing but the line. *)
LEMMA EnvironmentMsParts ==
  ASSUME IInv', MsParts, MsEnvironment
  PROVE  MsParts'
  <1> USE DEF MsParts, MsTypeOK, MsOwner, MsControl, MsExchange, StaysIdle,
              BusyUnlessUpdated, BusyHasNode, DownloadHasNode, vars, mainVars,
              workerVars, nodeVars, exchangeVars, callVars, passVars
  <1>0. /\ TypeOK' /\ Serial'
        /\ queue' \in [Slots -> Message] /\ line' \in Seq(Message) /\ asked' \in Seq(Replies)
    BY EnvironmentSerial DEF IInv, Serial
  <1> USE <1>0
  <1>1. CASE MSpuriousWakeup \/ Sigint
    BY <1>1 DEF MsEnvironment, MSpuriousWakeup, Sigint, MainAt
  <1>2. CASE ~ (MSpuriousWakeup \/ Sigint)
    <2>1. packets' \in 0 .. MaxPackets
      BY <1>2, MsAssumption DEF MsEnvironment
    <2> QED
      BY <1>2, <2>1 DEF MsEnvironment
  <1> QED
    BY <1>1, <1>2

(* The invariant of the MicroStrain platform holds in every state, for any  *)
(* number of nodes, any of the operations, any length of the queue and any  *)
(* number of pages.  The proof needs the platform's own parts to show that  *)
(* it takes a step of the core (a new device is one of Device), and the     *)
(* core's invariant in both states to show that the parts are kept.        *)
THEOREM MsInductiveInvariant == MsSpec => []MsIInv
  <1>1. IInv /\ MsParts /\ [MsNext]_msVars => IInv' /\ MsParts'
    <2> SUFFICES ASSUME IInv, MsParts, [MsNext]_msVars PROVE IInv' /\ MsParts'
      OBVIOUS
    <2>1. IInv'
      BY MsStepRefinesCore, NextIInv DEF IInv, MsParts
    <2>2. CASE UNCHANGED msVars
      BY <2>1, <2>2 DEF msVars, vars, mainVars, workerVars, nodeVars, serialVars,
         exchangeVars, callVars, passVars, IInv, MsParts, MsTypeOK, MsOwner, MsControl,
         MsExchange, StaysIdle, BusyUnlessUpdated, BusyHasNode, DownloadHasNode
    <2> QED
      BY <2>1, <2>2, MainMsParts, WorkerMsParts, EnvironmentMsParts DEF MsNext
  <1>2. IInv /\ MsParts => MsIInv
    BY DEF MsParts, MsIInv
  <1> QED
    BY InitMsParts, <1>1, <1>2, PTL DEF MsSpec

(* The start operations find their node idle although its state is read     *)
(* before gw_mutex is taken, and for logging and download before gw_mutex   *)
(* is given up once more: nobody but main makes a node busy.               *)
THEOREM StartsFindNodeIdle == MsSpec => []StartsIdleNode
  <1>1. MsIInv => StartsIdleNode
    BY DEF MsIInv, StaysIdle, StartsIdleNode
  <1> QED
    BY MsInductiveInvariant, <1>1, PTL

(* When nobody has gw_mutex, gw_state is busy only because of a listed node *)
(* that is: no path of the worker or of send_buf forgets to update it.     *)
THEOREM GatewayBusyIsTrue == MsSpec => []BusyIsTrue
  <1>1. MsIInv => BusyIsTrue
    BY DEF MsIInv, MsOwner, BusyUnlessUpdated, BusyIsTrue
  <1> QED
    BY MsInductiveInvariant, <1>1, PTL

(* gw_cur_device is a listed node, and its session never runs beyond the    *)
(* last page of the memory.                                                *)
THEOREM DownloadsStayInMemory == MsSpec => []DownloadHasNode
  <1>1. MsIInv => DownloadHasNode
    BY DEF MsIInv
  <1> QED
    BY MsInductiveInvariant, <1>1, PTL

(* In send_buf and rcv_buf, and wherever else main has devices in hand,     *)
(* none of them is torn down.                                              *)
THEOREM MsMainSafe == MsSpec => []MainUsesOnlyLive
  <1>1. MsIInv => MainUsesOnlyLive
    BY DEF MsIInv, IInv, Snapshot, ListedAreUp, MainUsesOnlyLive
  <1> QED
    BY MsInductiveInvariant, <1>1, PTL

(* The threads block each other in three ways only: a worker that needs     *)
(* proxy_mutex and one that needs gw_mutex have nothing else to wait for,   *)
(* and main never waits for anything while it has gw_mutex.                *)
THEOREM DeadlocksAreKnown == MsSpec => []OnlyKnownDeadlocks
  <1>1. MsIInv => OnlyKnownDeadlocks
    <2> SUFFICES ASSUME MsIInv, MainBlocked, WorkerBlocked, wstep \notin { "left", "close" }
                 PROVE  Abba
      BY DEF OnlyKnownDeadlocks
    <2> USE DEF MsIInv, MsTypeOK, MsOwner, MsControl
    <2>1. CASE mutex # "none" /\ pcW = "add_lock"
      <3>1. mutex = "main"
        BY <2>1 DEF IInv, TypeOK, Owner, WorkerHoldsMutex
      <3>2. gwMutex = "worker"
        BY <2>1
      <3> QED
        BY <2>1, <3>1, <3>2 DEF Abba
    <2>2. CASE gwMutex # "none" /\ (pcW = "select" \/ wstep = "stopping")
      <3>1. gwMutex = "main"
        BY <2>2
      <3>2. mstep \in { "run", "unlock", "unlock_go" } /\ pcM = "await"
        BY <3>1
      <3> QED
        BY <3>2 DEF MainBlocked, MainWaits, WaitsForGWMutex
    <2> QED
      BY <2>1, <2>2 DEF WorkerBlocked
  <1> QED
    BY MsInductiveInvariant, <1>1, PTL

(* The list of the MicroStrain platform is a DeviceRegistry from whatever   *)
(* the scan of the addresses has listed: no step of a thread changes it     *)
(* while main walks over it or has devices of it in hand.                  *)
THEOREM MsKeepsRegistry == MsSpec => [][Registry!Next]_(Registry!vars)
  <1>1. MsIInv /\ [MsNext]_msVars => [Registry!Next]_(Registry!vars)
    BY MsStepRefinesCore, StepRefinesRegistry DEF MsIInv, IInv
  <1> QED
    BY MsInductiveInvariant, <1>1, PTL DEF MsSpec

(* The sessions the runs try are decoded, because all sessions are          *)
(* (SessionIsDecoded).                                                     *)
THEOREM SessionsAreDecoded == MsSpec => []SessionsDecoded
  <1>1. SessionsDecoded
    BY NoneUndecoded DEF SessionsDecoded
  <1> QED
    BY <1>1, PTL
=============================================================================
