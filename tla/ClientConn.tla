----------------------------- MODULE ClientConn -----------------------------
(***************************************************************************)
(* The connections of the MJPEG daemon: the lwIP callbacks of mjpegd.c,    *)
(* the list of clients, the limits, and what is written to TCP.            *)
(*                                                                         *)
(* lwIP runs in main's loop and so does the service, so a callback is one  *)
(* step.  tcp_write is called without TCP_WRITE_FLAG_COPY: the send queue  *)
(* of a connection refers to the file it was given, and goes on doing so   *)
(* until the peer acknowledges.  A file is a number of units (about one    *)
(* segment each); of a file only its source matters, the response in flash *)
(* or a frame of the pool.  Which frame the pool has for a client is       *)
(* FramePipeline's business: here any, or none.                            *)
(***************************************************************************)
EXTENDS Integers, Sequences, FiniteSets, FiniteSetsExt

CONSTANTS
    Clients,      \* connections lwIP can hold
    Frames,       \* the frame pool
    StreamLimit,  \* MJPEGD_STREAM_CLIENT_LIMIT
    TotalLimit,   \* MJPEGD_TOTAL_CLIENT_LIMIT
    MaxRetries,   \* MJPEGD_MAX_RETRIES
    ResponseLen,  \* units of a response
    FrameLen,     \* units of a frame with its headers
    WriteMax,     \* units of 2*tcp_mss, the most one call of SendData writes
    SndBuf,       \* units of TCP_SND_BUF
    NULL

\* Requests as the code tells them apart; "page" is any with a fixed answer.
Requests == {"page", "toomany", "snap", "stream"}

ASSUME ConstantsAssumption ==
    /\ IsFiniteSet(Clients)
    /\ NULL \notin Clients /\ NULL \notin Frames
    /\ "response" \notin Frames /\ NULL # "response"
    /\ NULL \notin Requests
    /\ {StreamLimit, TotalLimit, MaxRetries, WriteMax, SndBuf} \subseteq Nat
    /\ ResponseLen \in Nat \ {0} /\ FrameLen \in Nat \ {0}

VARIABLES
    conn,         \* conn[c]: the ClientState_t of a connection and its send queue
    head,         \* mjpegd->_clients_list
    next,         \* next[c]: cs->_next
    clientCount,  \* mjpegd->_client_count
    streamCount,  \* mjpegd->_stream_count
    refused       \* refused[c]: lwIP keeps a received pbuf to pass it on later

vars == <<conn, head, next, clientCount, streamCount, refused>>

Sources == Frames \cup {"response"}

Conn == [
    pcb     : {"free", "open", "closing"},
    state   : {"NONE", "ACCEPTED", "RECEIVED", "CLOSING", "TCP_ERR"},
    req     : Requests \cup {NULL},   \* cs->request_handler
    more    : BOOLEAN,                \* cs->get_nextfile_func, FrameSent or NULL
    file    : Sources \cup {NULL},
    left    : Nat,                    \* client_file_bytestosend
    frame   : Frames \cup {NULL},
    retries : Nat,
    queue   : Seq(Sources)]           \* pcb->unacked and pcb->unsent

TypeOK ==
    /\ conn \in [Clients -> Conn]
    /\ head \in Clients \cup {NULL} /\ next \in [Clients -> Clients \cup {NULL}]
    /\ clientCount \in 0..TotalLimit
    /\ streamCount \in 0..StreamLimit
    /\ refused \in [Clients -> BOOLEAN]
    /\ \A c \in Clients : /\ conn[c].retries <= MaxRetries
                          /\ Len(conn[c].queue) <= SndBuf

\* No ClientState_t: before accept, and after Mjpegd_Client_Free.
NoClient == [
    pcb |-> "free", state |-> "NONE", req |-> NULL, more |-> FALSE,
    file |-> NULL, left |-> 0, frame |-> NULL, retries |-> 0, queue |-> <<>>]

Init ==
    /\ conn = [c \in Clients |-> NoClient]
    /\ head = NULL /\ next = [c \in Clients |-> NULL]
    /\ clientCount = 0 /\ streamCount = 0
    /\ refused = [c \in Clients |-> FALSE]

Attached == {c \in Clients : conn[c].state # "NONE"}

-----------------------------------------------------------------------------
\* Files.  The operators map the record of a connection to the next one.

\* client_assign_file
AssignFile(r, f, n) == [r EXCEPT !.file = f, !.left = n, !.retries = 0]

\* A release that leaves the file pointing into the frame.
FrameSentKeepsFile(r) ==
    IF r.frame = NULL THEN AssignFile(r, NULL, 0)
    ELSE [r EXCEPT !.frame = NULL, !.more = r.req # "snap"]

\* One that treats a snap like a stream.
FrameSentNoSnap(r) == [AssignFile(r, NULL, 0) EXCEPT !.frame = NULL]

\* Mjpegd_Stream_FrameSent.  A snap that has had its frame gets no other.
FrameSent(r) ==
    LET q == AssignFile(r, NULL, 0) IN
    IF r.frame = NULL THEN q ELSE [q EXCEPT !.frame = NULL, !.more = r.req # "snap"]

Units(f, n) == [i \in 1..n |-> f]
\* A room that does not look at tcp_sndbuf.
RoomUnbounded(r) == Min({WriteMax, r.left})
Room(r) == Min({WriteMax, r.left, SndBuf - Len(r.queue)})

\* tcp_write takes w units, fewer than asked for, or none, when memory is short.
Write(r, w) ==
    LET n == Min({w, Room(r)}) IN
    [r EXCEPT !.left = @ - n, !.queue = @ \o Units(r.file, n)]

\* Mjpegd_SendData.  At the end of a file the next is asked for: FrameSent has
\* none ready yet, or tells to close.
SendData(r, w) ==
    IF r.left > 0 THEN Write(r, w)
    ELSE IF ~r.more THEN [r EXCEPT !.state = "CLOSING"]
    ELSE LET q == FrameSent(r)
         IN  IF q.more THEN q ELSE [q EXCEPT !.state = "CLOSING"]

-----------------------------------------------------------------------------
\* The list of clients.

\* An unlink that always takes the head off.
UnlinkHead(c) ==
    /\ head' = next[c]
    /\ next' = [next EXCEPT ![c] = NULL]

\* The removal of Mjpegd_Client_Free: from the client that points to c, or from
\* the head if none does.
Unlink(c) ==
    LET before == {p \in Clients : next[p] = c} IN
    IF before = {}
    THEN head' = next[c] /\ next' = [next EXCEPT ![c] = NULL]
    ELSE /\ head' = head
         /\ next' = [p \in Clients |-> IF p = c THEN NULL
                                       ELSE IF p \in before THEN next[c] ELSE next[p]]

\* Following the list from its head: the clients on it.
Listed ==
    LET N == Cardinality(Clients)
        at[i \in 0..N] == IF i = 0 THEN head
                          ELSE IF at[i - 1] = NULL THEN NULL ELSE next[at[i - 1]]
    IN  {at[i] : i \in 0..N} \ {NULL}

\* Mjpegd_Stream_CloseRequest, the handler of stream requests only.
CloseRequest(c) ==
    streamCount' = IF conn[c].req = "stream" /\ streamCount # 0
                   THEN streamCount - 1 ELSE streamCount

\* Mjpegd_CloseConn: the client is freed and its frame released at once, while
\* lwIP keeps the pcb, in state p, with queue q.
CloseConn(c, p, q) ==
    /\ conn' = [conn EXCEPT ![c] = [NoClient EXCEPT !.pcb = p, !.queue = q]]
    /\ CloseRequest(c)
    /\ Unlink(c)
    /\ clientCount' = clientCount - 1

-----------------------------------------------------------------------------
\* The callbacks.

\* Mjpegd_LwipAccept_Handler and Mjpegd_Client_New, when there is room; past the
\* limit, or out of memory, the handler returns ERR_MEM and lwIP drops the pcb.
Accept(c) ==
    /\ conn[c].pcb = "free"
    /\ clientCount + 1 <= TotalLimit
    /\ conn' = [conn EXCEPT ![c] = [NoClient EXCEPT !.pcb = "open", !.state = "ACCEPTED"]]
    /\ head' = c /\ next' = [next EXCEPT ![c] = head]
    /\ clientCount' = clientCount + 1
    /\ UNCHANGED <<streamCount, refused>>

\* The record of a connection whose request was parsed: the response is its
\* first file.
Received(c, q) ==
    AssignFile([conn[c] EXCEPT !.state = "RECEIVED", !.req = q,
                               !.more = q \in {"snap", "stream"}],
               "response", ResponseLen)

\* A limit whose handler stays that of streams.
ReceivedAs(q, full) == q
\* Mjpegd_Stream_RecvRequest, for streams only, turns away those past the limit.
Answered(q, full) == IF full THEN "toomany" ELSE q

\* A handler that takes every request of a connection.
RecvRequestAgain(c) ==
    /\ conn[c].state \in {"ACCEPTED", "RECEIVED"}
    /\ \E q \in Requests \ {"toomany"}, w \in 0..WriteMax :
          conn' = [conn EXCEPT ![c] = SendData(Received(c, q), w)]
    /\ UNCHANGED <<head, next, clientCount, streamCount, refused>>

\* Mjpegd_LwipRecv_Handler, the first and only request of a connection.
RecvRequest(c) ==
    /\ conn[c].state = "ACCEPTED"
    /\ \E q \in Requests \ {"toomany"}, w \in 0..WriteMax :
          LET full == q = "stream" /\ streamCount + 1 > StreamLimit IN
          /\ conn' = [conn EXCEPT ![c] = SendData(Received(c, Answered(q, full)), w)]
          /\ streamCount' = IF q = "stream" /\ ~full THEN streamCount + 1 ELSE streamCount
    /\ UNCHANGED <<head, next, clientCount, refused>>

\* A request that cannot be parsed closes the connection.  The handler has freed
\* the pbuf and returns the error, upon which lwIP keeps the pbuf.
RecvBadRequest(c) ==
    /\ conn[c].state = "ACCEPTED"
    /\ CloseConn(c, "closing", conn[c].queue)
    /\ refused' = [refused EXCEPT ![c] = TRUE]

\* The peer closes (a NULL pbuf).
RecvClosed(c) ==
    /\ c \in Attached
    /\ CloseConn(c, "closing", conn[c].queue)
    /\ UNCHANGED refused

\* An acknowledgement taken for that of the whole frame.
SentTooMuch(c) ==
    /\ conn[c].queue # <<>>
    /\ \E k \in 1..Len(conn[c].queue), w \in 0..WriteMax :
          LET r == [conn[c] EXCEPT !.queue = SubSeq(@, k + 1, Len(@))] IN
          conn' = [conn EXCEPT ![c] =
                     IF r.state = "RECEIVED" THEN SendData([r EXCEPT !.left = 0], w) ELSE r]
    /\ UNCHANGED <<head, next, clientCount, streamCount, refused>>

\* Mjpegd_LwipSent_Handler: the peer has acknowledged k units.  A connection that
\* is closing, failed or freed writes nothing more.
Sent(c) ==
    /\ conn[c].queue # <<>>
    /\ \E k \in 1..Len(conn[c].queue), w \in 0..WriteMax :
          LET r == [conn[c] EXCEPT !.queue = SubSeq(@, k + 1, Len(@))] IN
          conn' = [conn EXCEPT ![c] =
                     IF r.state = "RECEIVED" THEN SendData([r EXCEPT !.retries = 0], w)
                     ELSE r]
    /\ UNCHANGED <<head, next, clientCount, streamCount, refused>>

\* A poll that has no patience limit.
PollPatient(c) ==
    /\ c \in Attached
    /\ IF conn[c].state \in {"CLOSING", "TCP_ERR"}
       THEN CloseConn(c, "closing", conn[c].queue)
       ELSE UNCHANGED <<conn, head, next, clientCount, streamCount>>
    /\ UNCHANGED refused

\* One that waits for a request as long as it takes.
PollReceived(c) ==
    /\ c \in Attached
    /\ IF conn[c].state \in {"CLOSING", "TCP_ERR"} \/ conn[c].retries + 1 > MaxRetries
       THEN CloseConn(c, "closing", conn[c].queue)
       ELSE /\ conn' = [conn EXCEPT ![c].retries = IF conn[c].state = "RECEIVED"
                                                  THEN @ + 1 ELSE @]
            /\ UNCHANGED <<head, next, clientCount, streamCount>>
    /\ UNCHANGED refused

\* Mjpegd_LwipPoll_Handler: close what has ended, failed, or shown no progress
\* for MJPEGD_MAX_RETRIES polls.
Poll(c) ==
    /\ c \in Attached
    /\ IF conn[c].state \in {"CLOSING", "TCP_ERR"} \/ conn[c].retries + 1 > MaxRetries
       THEN CloseConn(c, "closing", conn[c].queue)
       ELSE /\ conn' = [conn EXCEPT ![c].retries = @ + 1]
            /\ UNCHANGED <<head, next, clientCount, streamCount>>
    /\ UNCHANGED refused

\* Mjpegd_LwipErr_Handler: lwIP has freed the pcb, and its queue with it.
Err(c) ==
    /\ c \in Attached
    /\ CloseConn(c, "free", <<>>)
    /\ refused' = [refused EXCEPT ![c] = FALSE]

\* lwIP frees the pcb of a connection the daemon has closed.
PcbGone(c) ==
    /\ conn[c].pcb = "closing"
    /\ conn' = [conn EXCEPT ![c].pcb = "free", ![c].queue = <<>>]
    /\ refused' = [refused EXCEPT ![c] = FALSE]
    /\ UNCHANGED <<head, next, clientCount, streamCount>>

-----------------------------------------------------------------------------
\* The service loop's walks over the list.

GetsFrames(c) == conn[c].state = "RECEIVED" /\ conn[c].req \in {"snap", "stream"}

\* Mjpegd_AssignNewframe: some of the waiting clients are due and find a frame.
AssignNewframe ==
    /\ \E due \in SUBSET {c \in Listed : GetsFrames(c) /\ conn[c].frame = NULL} :
       \E f \in [due -> Frames], w \in [due -> 0..WriteMax] :
          /\ due # {}
          /\ conn' = [c \in Clients |->
                        IF c \notin due THEN conn[c]
                        ELSE SendData([AssignFile(conn[c], f[c], FrameLen)
                                          EXCEPT !.frame = f[c]], w[c])]
    /\ UNCHANGED <<head, next, clientCount, streamCount, refused>>

\* Mjpegd_Stream_Output: tcp_output fails for some; they may not be removed from
\* the list under the walk, and wait for poll.
StreamOutput ==
    /\ \E E \in SUBSET {c \in Listed : GetsFrames(c) /\ conn[c].queue # <<>>} :
          /\ E # {}
          /\ conn' = [c \in Clients |-> IF c \in E THEN [conn[c] EXCEPT !.state = "TCP_ERR"]
                                        ELSE conn[c]]
    /\ UNCHANGED <<head, next, clientCount, streamCount, refused>>

Next ==
    \/ \E c \in Clients :
          \/ Accept(c) \/ RecvRequest(c) \/ RecvBadRequest(c) \/ RecvClosed(c)
          \/ Sent(c) \/ Poll(c) \/ Err(c) \/ PcbGone(c)
    \/ AssignNewframe \/ StreamOutput

Spec == Init /\ [][Next]_vars

\* lwIP's timer polls every connection; nothing is assumed of the peer or the
\* camera.
FairSpec == Spec /\ \A c \in Clients : WF_vars(Poll(c))

(***************************************************************************)
(* Safety.                                                                 *)
(***************************************************************************)

\* The two counters say how many clients there are and how many of them stream,
\* whatever way each has ended: the limits let in neither more nor, after a while,
\* fewer.
CountsMatch ==
    /\ clientCount = Cardinality(Attached)
    /\ streamCount = Cardinality({c \in Clients : conn[c].req = "stream"})

\* The list reaches every client and nothing else, in whatever order they come
\* and go; the service visits exactly the clients there are.
ListIsClients == Listed = Attached /\ \A c \in Clients \ Attached : next[c] = NULL

\* What a client writes next comes from flash or from the frame it has: no frame
\* given back is written from again.
WritesItsFrame ==
    \A c \in Clients : /\ conn[c].file \in Frames => conn[c].frame = conn[c].file
                       /\ conn[c].state = "RECEIVED" /\ conn[c].frame # NULL
                             => conn[c].file = conn[c].frame

\* Seen from the frame path a connection does what FramePipeline expects of it.
St(c) ==
    CASE conn[c].state = "NONE" -> "free"
      [] conn[c].state = "ACCEPTED" -> "request"
      [] GetsFrames(c) -> "stream"
      [] OTHER -> "closing"
Contract == INSTANCE ClientFrames WITH
               st <- [c \in Clients |-> St(c)],
               frame <- [c \in Clients |-> conn[c].frame]
KeepsContract == Contract!Spec

(***************************************************************************)
(* Action properties.                                                      *)
(***************************************************************************)

\* Once begun, a frame is written to its end, unless the connection closes: the
\* receiver finds the next chunk where it expects it.
FramesWhole ==
    [][\A c \in Clients :
          conn[c].file \in Frames /\ conn[c].left > 0 /\ conn[c].state = "RECEIVED"
             => \/ conn'[c].file = conn[c].file /\ conn'[c].left <= conn[c].left
                \/ conn'[c].state = "NONE"]_vars

\* A snap ends with its frame.
OneFramePerSnap ==
    [][\A c \in Clients :
          conn[c].req = "snap" /\ conn[c].frame # NULL /\ conn'[c].frame = NULL
             => conn'[c].state \in {"CLOSING", "NONE"}]_vars

(***************************************************************************)
(* Liveness.                                                               *)
(***************************************************************************)

\* However slow or silent a peer is, the frame it has comes back to the pool.
FrameComesBack == \A c \in Clients : conn[c].frame # NULL ~> conn[c].frame = NULL

\* No connection sits idle for ever: it ends, or it is given frames again and again.
NoIdleForever ==
    \A c \in Clients : []<>(conn[c].state = "NONE" \/ conn[c].frame # NULL)

(***************************************************************************)
(* What the repository says of itself and the code does not keep.          *)
(***************************************************************************)

\* "cs->file is mostly point to ram and we dont use TCP_WRITE_FLAG_COPY so we
\* cant close conn(e.g. close file) until receive ack" (mjpegd.c:520-521): on a
\* connection at work, the client has every frame lwIP may still send bytes of.
UnackedFramesHeld ==
    \A c \in Clients : conn[c].state = "RECEIVED" =>
        \A i \in DOMAIN conn[c].queue :
            conn[c].queue[i] \in Frames => conn[c].frame = conn[c].queue[i]

\* "check if stream client transfer done" (mjpegd.c:647): no frame takes the place
\* of a file that is not written to its end.
TransferDone ==
    [][\A c \in Clients :
          conn[c].file # NULL /\ conn'[c].file \in Frames /\ conn'[c].file # conn[c].file
             => conn[c].left = 0]_vars

\* lwIP: "If the callback function returns ERR_OK or ERR_ABRT it must have freed
\* the pbuf, otherwise it must not have freed it" (tcp.c:2006-2008).  The receive
\* handler always frees it, so lwIP may never be left with one.
NoFreedPbufKept == \A c \in Clients : ~refused[c]
=============================================================================
