------------------------------- MODULE Stream -------------------------------
(***************************************************************************)
(* One connection between two nodes, byte by byte: the queue of messages   *)
(* to send and the partial writes of SocketSendData, the socket, the       *)
(* framing of ReceiveMsgBytes, the answers of ProcessMessages with the     *)
(* back pressure of the send buffer, and the ways a connection ends.       *)
(*                                                                         *)
(* cs_vSend and cs_vRecvMsg make each action atomic.  Messages are well    *)
(* formed; their bytes say which message and which position they are.      *)
(***************************************************************************)
EXTENDS Integers, FiniteSetsExt, SequencesExt

CONSTANTS
  End,             \* the two nodes
  Message,
  Size,            \* bytes of data of each message
  HeaderSize,      \* 24
  Items,           \* the messages that answer each message, in order
  Getdata,         \* messages answered through vRecvGetData
  Script,          \* what each end sends by itself, in order
  Pipe,            \* bytes that the sockets hold in each direction
  SendBufferSize,
  ReceiveFloodSize,
  Faults           \* TRUE if connections may break

ASSUME StreamAssumption ==
  /\ \E a, b \in End : a # b /\ End = {a, b}
  /\ Size \in [Message -> Nat]
  /\ HeaderSize \in Nat \ {0} /\ Pipe \in Nat \ {0}
  /\ SendBufferSize \in Nat /\ ReceiveFloodSize \in Nat
  /\ Getdata \subseteq Message
  /\ Items \in [Message -> Seq(Message)]
  /\ \A m \in Message \ Getdata : Len(Items[m]) <= 1
  /\ Script \in [End -> Seq(Message)]
  /\ Faults \in BOOLEAN

VARIABLES
  vSendMsg,      \* the CNode at each end: messages to send,
  nSendOffset,   \* bytes of the first one that are sent,
  nSendSize,     \* bytes of all of them,
  vRecvMsg,      \* messages received, the last perhaps in part,
  vRecvGetData,  \* items asked for and not sent,
  fDisconnect,
  pipe,          \* bytes on their way from each end
  script,        \* what is left of Script
  sent,          \* messages given to EndMessage at each end
  replies,       \* those of them that answer a message
  handled        \* messages given to ProcessMessage at each end

sendVars == <<vSendMsg, nSendOffset, nSendSize, sent>>
vars == <<sendVars, vRecvMsg, vRecvGetData, fDisconnect, pipe, script, replies, handled>>

Other(e) == CHOOSE f \in End : f # e

TotalSize(m) == HeaderSize + Size[m]

Bytes(m) == [k \in 1..TotalSize(m) |-> <<m, k>>]

Init ==
  /\ vSendMsg = [e \in End |-> <<>>]
  /\ nSendOffset = [e \in End |-> 0]
  /\ nSendSize = [e \in End |-> 0]
  /\ vRecvMsg = [e \in End |-> <<>>]
  /\ vRecvGetData = [e \in End |-> <<>>]
  /\ fDisconnect = [e \in End |-> FALSE]
  /\ pipe = [e \in End |-> <<>>]
  /\ script = Script
  /\ sent = [e \in End |-> <<>>]
  /\ replies = [e \in End |-> <<>>]
  /\ handled = [e \in End |-> <<>>]

Open(e) == ~fDisconnect[e]

-----------------------------------------------------------------------------
(* Sending.  `s' is what sending changes at one end, as in Sending(e).     *)

SizeOf(queue) ==
  LET sum[i \in 0..Len(queue)] == IF i = 0 THEN 0 ELSE sum[i - 1] + TotalSize(queue[i])
  IN  sum[Len(queue)]

(* A round of the loop of SocketSendData: the socket takes what it can of  *)
(* the first message, which leaves the queue when it is sent.              *)
SendOne(s) ==
  LET m == Head(s.vSendMsg)
      nBytes == Min({Pipe - Len(s.pipe), TotalSize(m) - s.nSendOffset})
      pos == s.nSendOffset + nBytes
      whole == pos = TotalSize(m)
  IN  IF s.vSendMsg = <<>> THEN s
      ELSE [vSendMsg |-> IF whole THEN Tail(s.vSendMsg) ELSE s.vSendMsg,
            nSendOffset |-> IF whole THEN 0 ELSE pos,
            nSendSize |-> IF whole THEN s.nSendSize - TotalSize(m) ELSE s.nSendSize,
            pipe |-> s.pipe \o SubSeq(Bytes(m), s.nSendOffset + 1, pos),
            sent |-> s.sent]

(* The loop ends with the queue, or when the socket is full: then a round  *)
(* changes nothing.                                                        *)
SocketSendData(s) ==
  LET after[i \in 0..Len(s.vSendMsg)] == IF i = 0 THEN s ELSE SendOne(after[i - 1])
  IN  after[Len(s.vSendMsg)]

(* Mutant of Queued: a message that waits in the queue is replaced.        *)
QueuedReplaces(s, m) ==
  [vSendMsg |-> Append(SubSeq(s.vSendMsg, 1, Min({1, Len(s.vSendMsg)})), m),
   nSendOffset |-> s.nSendOffset,
   nSendSize |-> s.nSendSize + TotalSize(m),
   pipe |-> s.pipe,
   sent |-> Append(s.sent, m)]

Queued(s, m) ==
  [vSendMsg |-> Append(s.vSendMsg, m),
   nSendOffset |-> s.nSendOffset,
   nSendSize |-> s.nSendSize + TotalSize(m),
   pipe |-> s.pipe,
   sent |-> Append(s.sent, m)]

(* EndMessage: queue the message; if it is alone, try to write at once.    *)
PushMessage(s, m) ==
  IF s.vSendMsg = <<>> THEN SocketSendData(Queued(s, m)) ELSE Queued(s, m)

Sending(e) == [vSendMsg |-> vSendMsg[e], nSendOffset |-> nSendOffset[e],
               nSendSize |-> nSendSize[e], pipe |-> pipe[e], sent |-> sent[e]]

Sends(e, after) ==
  \E s \in {after} :
    /\ vSendMsg' = [vSendMsg EXCEPT ![e] = s.vSendMsg]
    /\ nSendOffset' = [nSendOffset EXCEPT ![e] = s.nSendOffset]
    /\ nSendSize' = [nSendSize EXCEPT ![e] = s.nSendSize]
    /\ pipe' = [pipe EXCEPT ![e] = s.pipe]
    /\ sent' = [sent EXCEPT ![e] = s.sent]

(* The socket thread finds the queue not empty and the socket writable.    *)
SendReady(e) ==
  /\ Open(e)
  /\ vSendMsg[e] # <<>>
  /\ Len(pipe[e]) < Pipe
  /\ Sends(e, SocketSendData(Sending(e)))
  /\ UNCHANGED <<vRecvMsg, vRecvGetData, fDisconnect, script, replies, handled>>

(* SendMessages: the node speaks without being asked.                      *)
SendMessages(e) ==
  /\ Open(e)
  /\ script[e] # <<>>
  /\ Sends(e, PushMessage(Sending(e), Head(script[e])))
  /\ script' = [script EXCEPT ![e] = Tail(@)]
  /\ UNCHANGED <<vRecvMsg, vRecvGetData, fDisconnect, replies, handled>>

-----------------------------------------------------------------------------
(* Receiving                                                               *)

NewMessage == [hdr |-> <<>>, vRecv |-> <<>>]

InData(msg) == Len(msg.hdr) = HeaderSize

(* The size is in the header; only a header that is a header tells it.     *)
MessageSize(msg) == Size[msg.hdr[1][1]]

Complete(msg) == InData(msg) /\ Len(msg.vRecv) = MessageSize(msg)

(* Bytes go to the header first, then to the data.                         *)
PutByte(msg, byte) ==
  IF InData(msg) THEN [hdr |-> msg.hdr, vRecv |-> Append(msg.vRecv, byte)]
  ELSE [hdr |-> Append(msg.hdr, byte), vRecv |-> msg.vRecv]

(* Mutant of ReadByte: a message without data waits for one byte.          *)
ReadByteEager(v, byte) ==
  IF v = <<>> \/ (Complete(Last(v)) /\ Last(v).vRecv # <<>>)
  THEN Append(v, PutByte(NewMessage, byte))
  ELSE [v EXCEPT ![Len(v)] = PutByte(@, byte)]

(* ReceiveMsgBytes for one byte: a message that is complete is followed by *)
(* a new one.                                                              *)
ReadByte(v, byte) ==
  IF v = <<>> \/ Complete(Last(v)) THEN Append(v, PutByte(NewMessage, byte))
  ELSE [v EXCEPT ![Len(v)] = PutByte(@, byte)]

ReceiveMsgBytes(v, bytes) ==
  LET after[k \in 0..Len(bytes)] == IF k = 0 THEN v ELSE ReadByte(after[k - 1], bytes[k])
  IN  after[Len(bytes)]

GetTotalRecvSize(v) ==
  FoldLeft(LAMBDA n, msg : n + Len(msg.vRecv) + HeaderSize, 0, v)

(* "do not read, if draining write queue".                                 *)
Selected(e) == Open(e) /\ vSendMsg[e] = <<>>

Receive(e) ==
  /\ Selected(e)
  /\ GetTotalRecvSize(vRecvMsg[e]) <= ReceiveFloodSize
  /\ \E n \in 1..Len(pipe[Other(e)]) :
       /\ vRecvMsg' = [vRecvMsg EXCEPT ![e] =
                         ReceiveMsgBytes(@, SubSeq(pipe[Other(e)], 1, n))]
       /\ pipe' = [pipe EXCEPT ![Other(e)] = SubSeq(@, n + 1, Len(@))]
  /\ UNCHANGED <<sendVars, vRecvGetData, fDisconnect, script, replies, handled>>

-----------------------------------------------------------------------------
(* The message thread                                                      *)

Full(e) == nSendSize[e] >= SendBufferSize

(* A round of the loop of ProcessGetData: it stops when the buffer is      *)
(* full.  Blocks that go out together in one mblk count as one item.  The  *)
(* loop holds cs_vRecvMsg; what is read between its rounds is behind what  *)
(* it looks at.                                                            *)
ProcessGetData(e) ==
  /\ Open(e)
  /\ vRecvGetData[e] # <<>>
  /\ ~Full(e)
  /\ Sends(e, PushMessage(Sending(e), Head(vRecvGetData[e])))
  /\ replies' = [replies EXCEPT ![e] = Append(@, Head(vRecvGetData[e]))]
  /\ vRecvGetData' = [vRecvGetData EXCEPT ![e] = Tail(@)]
  /\ UNCHANGED <<vRecvMsg, fDisconnect, script, handled>>

(* "this maintains the order of responses".                                *)
Blocked(e) == vRecvGetData[e] # <<>>

(* What a message that is not a getdata is answered with, at once.         *)
Answer(m) == IF m \in Getdata THEN <<>> ELSE Items[m]

(* One message, if it is complete and there is room to answer.  A getdata  *)
(* leaves its items to ProcessGetData; another answer is sent at once.     *)
ProcessMessages(e) ==
  LET v == vRecvMsg[e]
      m == Head(v).hdr[1][1]
  IN  /\ Open(e)
      /\ ~Blocked(e) /\ ~Full(e)
      /\ v # <<>> /\ Complete(Head(v))
      /\ vRecvMsg' = [vRecvMsg EXCEPT ![e] = Tail(@)]
      /\ handled' = [handled EXCEPT ![e] = Append(@, m)]
      /\ vRecvGetData' = IF m \in Getdata THEN [vRecvGetData EXCEPT ![e] = @ \o Items[m]]
                                          ELSE vRecvGetData
      /\ Sends(e, IF Answer(m) = <<>> THEN Sending(e) ELSE PushMessage(Sending(e), Answer(m)[1]))
      /\ replies' = [replies EXCEPT ![e] = @ \o Answer(m)]
      /\ UNCHANGED <<fDisconnect, script>>

-----------------------------------------------------------------------------
(* The end of a connection                                                 *)

(* CloseSocketDisconnect.  Bytes that the peer has not read may be lost.   *)
Close(e) ==
  /\ fDisconnect' = [fDisconnect EXCEPT ![e] = TRUE]
  /\ vRecvMsg' = [vRecvMsg EXCEPT ![e] = <<>>]
  /\ \E n \in {0, Len(pipe[e])} : pipe' = [pipe EXCEPT ![e] = SubSeq(@, 1, n)]
  /\ UNCHANGED <<sendVars, vRecvGetData, script, replies, handled>>

(* The socket thread finds more received than the message thread handles.  *)
Flood(e) ==
  /\ Selected(e)
  /\ GetTotalRecvSize(vRecvMsg[e]) > ReceiveFloodSize
  /\ pipe[Other(e)] # <<>>
  /\ Close(e)

(* Mutant of PeerGone: only a reader notices.                              *)
PeerGoneReading(e) == ~Open(Other(e)) /\ Selected(e) /\ pipe[Other(e)] = <<>>

(* The peer has closed: recv returns 0, or send returns an error.          *)
PeerGone(e) ==
  /\ ~Open(Other(e))
  /\ IF Selected(e) THEN pipe[Other(e)] = <<>> ELSE TRUE

Disconnected(e) == Open(e) /\ PeerGone(e) /\ Close(e)

(* Neither end can write, and neither reads while it has something to      *)
(* write.                                                                  *)
Stalled == \A e \in End : Open(e) /\ vSendMsg[e] # <<>> /\ Len(pipe[e]) = Pipe

(* nLastSend is older than TIMEOUT_INTERVAL.  The threads poll ten times a *)
(* second and pings keep a quiet connection busy, so the twenty minutes    *)
(* pass only when no byte can move.                                        *)
InactivityTimeout(e) == Stalled /\ Close(e)

(* The connection breaks, or the node is told to disconnect.               *)
Breaks(e) == Faults /\ Open(e) /\ Close(e)

Next ==
  \E e \in End : \/ SendMessages(e) \/ SendReady(e) \/ Receive(e) \/ ProcessMessages(e)
                \/ ProcessGetData(e)
                \/ Flood(e) \/ Disconnected(e) \/ InactivityTimeout(e) \/ Breaks(e)

Spec == Init /\ [][Next]_vars

(* The threads of both nodes run.                                          *)
Fairness ==
  \A e \in End :
    /\ WF_vars(SendReady(e) \/ Receive(e) \/ Flood(e) \/ Disconnected(e))
    /\ WF_vars(ProcessMessages(e) \/ ProcessGetData(e))
    /\ WF_vars(SendMessages(e))
    /\ WF_vars(InactivityTimeout(e))

FairSpec == Spec /\ Fairness

-----------------------------------------------------------------------------
(* Properties                                                              *)

ByteType == Message \X Nat
MessageType == [hdr : Seq(ByteType), vRecv : Seq(ByteType)]

(* The type of the variables; the sockets hold at most Pipe bytes.         *)
TypeOK ==
  /\ vSendMsg \in [End -> Seq(Message)]
  /\ nSendOffset \in [End -> Nat] /\ nSendSize \in [End -> Nat]
  /\ vRecvMsg \in [End -> Seq(MessageType)]
  /\ vRecvGetData \in [End -> Seq(Message)]
  /\ fDisconnect \in [End -> BOOLEAN]
  /\ pipe \in [End -> Seq(ByteType)] /\ \A e \in End : Len(pipe[e]) <= Pipe
  /\ script \in [End -> Seq(Message)]
  /\ sent \in [End -> Seq(Message)] /\ replies \in [End -> Seq(Message)]
  /\ handled \in [End -> Seq(Message)]

(* However the stream is cut into reads and writes, headers are read as    *)
(* headers: every entry of vRecvMsg is the beginning of one message, and   *)
(* all but the last are whole.                                             *)
FramesAligned ==
  \A e \in End : \A i \in DOMAIN vRecvMsg[e] :
    LET msg == vRecvMsg[e][i]
    IN  /\ msg.hdr # <<>>
        /\ IsPrefix(msg.hdr \o msg.vRecv, Bytes(msg.hdr[1][1]))
        /\ i < Len(vRecvMsg[e]) => Complete(msg)

(* The assertions of SocketSendData, after each partial write: the offset  *)
(* lies inside the first message, and nSendSize is the size of the queue.  *)
SendQueueExact ==
  \A e \in End :
    /\ nSendSize[e] = SizeOf(vSendMsg[e])
    /\ IF vSendMsg[e] = <<>> THEN nSendOffset[e] = 0
       ELSE nSendOffset[e] < TotalSize(Head(vSendMsg[e]))

(* All the answers to the messages of a sequence, in order.                *)
Answers(msgs) ==
  LET upTo[i \in 0..Len(msgs)] == IF i = 0 THEN <<>> ELSE upTo[i - 1] \o Items[msgs[i]]
  IN  upTo[Len(msgs)]

(* "this maintains the order of responses" (ProcessMessages): requests are *)
(* answered in the order they came, also when the answers to a getdata     *)
(* have to wait for room in the send buffer.                               *)
ResponsesInOrder == \A e \in End : IsPrefix(replies[e], Answers(handled[e]))

C == INSTANCE Channel WITH closed <- {e \in End : ~Open(e)}

(* The two queues, the partial writes and reads and the framing together   *)
(* are a reliable ordered channel of messages.                             *)
ImplementsChannel == C!Spec

(* Everything that is sent is handled, and everything asked for is         *)
(* answered, unless the connection is closed.  Two nodes that both have    *)
(* more to write than the sockets hold do not read ("do not read, if       *)
(* draining write queue"): only the timeout ends that.                     *)
Settles ==
  <>[](\A e \in End : Open(e) =>
         \/ ~Open(Other(e))
         \/ /\ script[e] = <<>>
            /\ handled[Other(e)] = sent[e]
            /\ vRecvGetData[e] = <<>>)

(* When one end has closed the connection the other does so too, even if   *)
(* it is writing and does not read.                                        *)
CloseSpreads == \A e \in End : ~Open(e) ~> ~Open(Other(e))

(* The queues of both ends as a whole: exact counters, whole frames and    *)
(* answers in order.                                                       *)
QueuesExact == TypeOK /\ FramesAligned /\ SendQueueExact /\ ResponsesInOrder

(* Every connection either gets everything across or is closed at both     *)
(* ends.                                                                   *)
SettlesOrCloses == Settles /\ CloseSpreads
=============================================================================
