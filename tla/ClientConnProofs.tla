-------------------------- MODULE ClientConnProofs --------------------------
(***************************************************************************)
(* Proofs about ClientConn, for any number of connections and frames, any  *)
(* limits, file lengths and send buffer.                                   *)
(***************************************************************************)
EXTENDS ClientConn, FiniteSetTheorems, SequenceTheorems, WellFoundedInduction, TLAPS

-----------------------------------------------------------------------------
\* The inductive invariant.

\* What holds of the record of a connection in every state.
Good(r) ==
    /\ Len(r.queue) <= SndBuf /\ r.retries <= MaxRetries
    /\ r.pcb = "open" <=> r.state # "NONE"
    /\ r.state \in {"NONE", "ACCEPTED"} => r.req = NULL /\ r.file = NULL
    /\ r.state \notin {"NONE", "ACCEPTED"} => r.req # NULL
    /\ r.left > 0 => r.file # NULL
    /\ r.more \/ r.frame # NULL => r.req \in {"snap", "stream"}
    /\ r.file \in Frames => r.frame = r.file
    /\ r.state = "RECEIVED" /\ r.frame # NULL => r.file = r.frame

Types ==
    /\ conn \in [Clients -> Conn]
    /\ head \in Clients \cup {NULL} /\ next \in [Clients -> Clients \cup {NULL}]
    /\ clientCount \in 0..TotalLimit
    /\ streamCount \in 0..StreamLimit
    /\ refused \in [Clients -> BOOLEAN]

\* s is the list of clients: each is on it once, and next leads from each to the
\* one after it.
Chain(s, n) ==
    /\ s \in [1..n -> Attached]
    /\ \A c \in Attached : \E i \in 1..n : s[i] = c
    /\ \A i, j \in 1..n : s[i] = s[j] => i = j
    /\ head = IF n = 0 THEN NULL ELSE s[1]
    /\ \A i \in 1..n : next[s[i]] = IF i = n THEN NULL ELSE s[i + 1]

Linked ==
    /\ \E n \in Nat : \E s \in [1..n -> Clients] : Chain(s, n)
    /\ \A c \in Clients \ Attached : next[c] = NULL

IInv ==
    /\ Types
    /\ \A c \in Clients : Good(conn[c])
    /\ CountsMatch
    /\ Linked

-----------------------------------------------------------------------------
\* What the operators on records do.

\* The least of two numbers.
LEMMA MinOfTwo ==
    ASSUME NEW a \in Int, NEW b \in Int
    PROVE  Min({a, b}) = IF a <= b THEN a ELSE b
<1> DEFINE m == IF a <= b THEN a ELSE b
<1>1. m \in {a, b} /\ \A y \in {a, b} : m <= y
  OBVIOUS
<1>2. \A x \in {a, b} : (\A y \in {a, b} : x <= y) => x = m
  OBVIOUS
<1> QED BY <1>1, <1>2, Zenon DEF Min

\* The least of three numbers is one of them and above none.
LEMMA MinOfThree ==
    ASSUME NEW a \in Int, NEW b \in Int, NEW c \in Int
    PROVE  /\ Min({a, b, c}) \in {a, b, c}
           /\ Min({a, b, c}) <= a /\ Min({a, b, c}) <= b /\ Min({a, b, c}) <= c
<1> DEFINE P(x) == x \in {a, b, c} /\ \A y \in {a, b, c} : x <= y
<1>1. \E x \in {a, b, c} : \A y \in {a, b, c} : x <= y
  <2>1. CASE a <= b /\ a <= c
    BY <2>1
  <2>2. CASE b <= a /\ b <= c
    BY <2>2
  <2>3. CASE c <= a /\ c <= b
    BY <2>3
  <2> QED BY <2>1, <2>2, <2>3
<1>2. P(Min({a, b, c}))
  BY <1>1, Zenon DEF Min
<1> QED BY <1>2

\* tcp_write takes no more than there is to write and no more than there is room.
LEMMA WriteTaken ==
    ASSUME NEW r \in Conn, NEW w \in 0..WriteMax, Len(r.queue) <= SndBuf
    PROVE  Min({w, Room(r)}) \in 0..r.left /\ Len(r.queue) + Min({w, Room(r)}) <= SndBuf
<1> DEFINE free == SndBuf - Len(r.queue)
<1>1. r.left \in Nat /\ Len(r.queue) \in Nat /\ WriteMax \in Nat /\ SndBuf \in Nat
  BY ConstantsAssumption, LenProperties DEF Conn
<1>2. Room(r) \in {WriteMax, r.left, free} /\ Room(r) <= r.left /\ Room(r) <= free
  <2>1. WriteMax \in Int /\ r.left \in Int /\ free \in Int
    BY <1>1
  <2>2. Room(r) = Min({WriteMax, r.left, free})
    BY DEF Room
  <2> HIDE DEF free
  <2>3. /\ Min({WriteMax, r.left, free}) \in {WriteMax, r.left, free}
        /\ Min({WriteMax, r.left, free}) <= r.left
        /\ Min({WriteMax, r.left, free}) <= free
    BY <2>1, MinOfThree, Zenon
  <2> QED BY <2>2, <2>3
<1>3. Room(r) \in Nat
  BY <1>1, <1>2
<1>4. Min({w, Room(r)}) = IF w <= Room(r) THEN w ELSE Room(r)
  BY <1>3, MinOfTwo
<1> HIDE DEF free
<1> QED BY <1>1, <1>2, <1>3, <1>4 DEF free

\* A write moves some units from what is left of the file to a queue that still fits.
LEMMA WriteIs ==
    ASSUME NEW r \in Conn, NEW w \in 0..WriteMax, Len(r.queue) <= SndBuf, r.file # NULL
    PROVE  \E n \in 0..r.left, s \in Seq(Sources) :
              /\ Write(r, w) = [r EXCEPT !.left = r.left - n, !.queue = s]
              /\ Len(s) <= SndBuf
<1> DEFINE n == Min({w, Room(r)})
           s == r.queue \o Units(r.file, n)
<1>1. n \in 0..r.left /\ Len(r.queue) + n <= SndBuf /\ r.left \in Nat
  BY WriteTaken DEF Conn
<1> HIDE DEF n
<1>2. r.queue \in Seq(Sources) /\ r.file \in Sources
  BY DEF Conn
<1>3. Units(r.file, n) \in Seq(Sources) /\ Len(Units(r.file, n)) = n
  <2>1. n \in Nat /\ Units(r.file, n) \in [1..n -> Sources]
    BY <1>1, <1>2 DEF Units
  <2> QED BY <2>1, SeqDef, LenProperties
<1>4. s \in Seq(Sources) /\ Len(s) = Len(r.queue) + n
  BY <1>2, <1>3, ConcatProperties
<1>5. Write(r, w) = [r EXCEPT !.left = r.left - n, !.queue = s]
  BY DEF Write, n
<1> HIDE DEF s
<1> QED BY <1>1, <1>4, <1>5

\* SendData on a connection at work: it writes on, or ends its file and with a snap
\* that has had its frame, or a page, the connection.
LEMMA SendDataIs ==
    ASSUME NEW r \in Conn, Good(r), r.state = "RECEIVED", NEW w \in 0..WriteMax,
           NEW q, q = SendData(r, w)
    PROVE  /\ q \in Conn /\ Good(q)
           /\ q.pcb = r.pcb /\ q.req = r.req
           /\ q.state \in {"RECEIVED", "CLOSING"}
           /\ r.left > 0 => /\ q.state = "RECEIVED" /\ q.file = r.file
                            /\ q.left <= r.left /\ q.frame = r.frame
           /\ q.frame # r.frame => q.frame = NULL /\ (r.req = "snap" => q.state = "CLOSING")
<1>0. /\ r.state = "RECEIVED" /\ r.left \in Nat /\ NULL \notin Sources
      /\ NULL \notin Requests
  BY ConstantsAssumption DEF Conn, Sources
<1>1. CASE r.left > 0
  <2>1. PICK n \in 0..r.left, s \in Seq(Sources) :
          /\ q = [r EXCEPT !.left = r.left - n, !.queue = s]
          /\ Len(s) <= SndBuf
    BY <1>1, WriteIs DEF Good, SendData
  <2> USE <1>0, <1>1, <2>1
  <2>2. q \in Conn
    <3> DEFINE m == r.left - n
    <3>1. m \in Nat /\ q = [r EXCEPT !.left = m, !.queue = s]
      OBVIOUS
    <3> HIDE DEF m
    <3> QED BY <3>1 DEF Conn
  <2>3. /\ q.pcb = r.pcb /\ q.req = r.req /\ q.state = r.state /\ q.more = r.more
        /\ q.file = r.file /\ q.frame = r.frame /\ q.retries = r.retries
        /\ q.left = r.left - n /\ q.queue = s
    BY DEF Conn
  <2>4. Good(q)
    BY <2>3 DEF Good
  <2> QED BY <2>2, <2>3, <2>4
<1>2. CASE r.left = 0 /\ ~r.more
  <2>1. q = [r EXCEPT !.state = "CLOSING"]
    BY <1>0, <1>2 DEF SendData
  <2>2. /\ q \in Conn /\ q.state = "CLOSING"
        /\ q.pcb = r.pcb /\ q.req = r.req /\ q.more = r.more
        /\ q.file = r.file /\ q.frame = r.frame /\ q.retries = r.retries
        /\ q.left = r.left /\ q.queue = r.queue
    BY <2>1 DEF Conn
  <2>3. Good(q)
    BY <1>0, <2>2 DEF Good
  <2> QED BY <1>2, <2>2, <2>3
<1>3. CASE r.left = 0 /\ r.more
  <2> DEFINE e == AssignFile(r, NULL, 0)
             f == FrameSent(r)
  <2>1. /\ e \in Conn /\ e.state = r.state /\ e.pcb = r.pcb /\ e.req = r.req
        /\ e.more = r.more /\ e.file = NULL /\ e.frame = r.frame /\ e.retries = 0
        /\ e.left = 0 /\ e.queue = r.queue
    BY DEF AssignFile, Conn
  <2> HIDE DEF e
  <2>2. /\ f \in Conn /\ f.state = r.state /\ f.pcb = r.pcb /\ f.req = r.req
        /\ f.file = NULL /\ f.frame = NULL /\ f.retries = 0
        /\ f.left = 0 /\ f.queue = r.queue
        /\ f.more => r.more
        /\ r.frame # NULL /\ r.req = "snap" => ~f.more
    <3>1. CASE r.frame = NULL
      BY <2>1, <3>1 DEF FrameSent, e
    <3>2. CASE r.frame # NULL
      <4>1. f = [e EXCEPT !.frame = NULL, !.more = r.req # "snap"]
        BY <3>2 DEF FrameSent, e
      <4> QED BY <1>3, <2>1, <3>2, <4>1 DEF Conn
    <3> QED BY <3>1, <3>2
  <2> HIDE DEF f
  <2>3. q = IF f.more THEN f ELSE [f EXCEPT !.state = "CLOSING"]
    BY <1>0, <1>3 DEF SendData, f
  <2>4. /\ q \in Conn
        /\ f.more => q.state = "RECEIVED"
        /\ ~f.more => q.state = "CLOSING"
        /\ q.pcb = r.pcb /\ q.req = r.req /\ q.file = NULL /\ q.frame = NULL
        /\ q.retries = 0 /\ q.left = 0 /\ q.queue = r.queue /\ q.more = f.more
    <3>1. CASE f.more
      BY <1>0, <2>2, <2>3, <3>1
    <3>2. CASE ~f.more
      BY <1>0, <2>2, <2>3, <3>2 DEF Conn
    <3> QED BY <3>1, <3>2
  <2>5. Good(q)
    BY <1>0, <2>2, <2>4, ConstantsAssumption DEF Good
  <2> QED BY <1>3, <2>2, <2>4, <2>5
<1> QED BY <1>0, <1>1, <1>2, <1>3

-----------------------------------------------------------------------------
\* What a step does to one connection: from the record r to the record q.

\* To what it does not write: polled, or acknowledged after its end.
Same(r, q) ==
    /\ q.state = r.state /\ q.req = r.req /\ q.frame = r.frame
    /\ q.file = r.file /\ q.left = r.left

Opens(r, q) == r.state = "NONE" /\ q.state = "ACCEPTED"

Ends(r, q) == r.state # "NONE" /\ q.state = "NONE"

Asks(r, q) == r.state = "ACCEPTED" /\ q.state \in {"RECEIVED", "CLOSING"} /\ q.frame = NULL

Writes(r, q) ==
    /\ r.state = "RECEIVED" /\ q.state \in {"RECEIVED", "CLOSING"} /\ q.req = r.req
    /\ r.left > 0 => /\ q.state = "RECEIVED" /\ q.file = r.file
                     /\ q.left <= r.left /\ q.frame = r.frame
    /\ q.frame # r.frame => q.frame = NULL /\ (r.req = "snap" => q.state = "CLOSING")

IsGiven(r, q) ==
    /\ r.state = "RECEIVED" /\ r.req \in {"snap", "stream"} /\ r.frame = NULL
    /\ q.state = "RECEIVED" /\ q.req = r.req /\ q.frame \in Frames

Fails(r, q) ==
    /\ r.state = "RECEIVED" /\ q.state = "TCP_ERR" /\ q.req = r.req
    /\ q.frame = r.frame /\ q.file = r.file /\ q.left = r.left

\* What leaves it a client, or none, with the request it had.
Works(r, q) == Same(r, q) \/ Writes(r, q) \/ IsGiven(r, q) \/ Fails(r, q)

Does(r, q) ==
    /\ q \in Conn /\ Good(q)
    /\ Opens(r, q) \/ Ends(r, q) \/ Asks(r, q) \/ Works(r, q)

Records == conn \in [Clients -> Conn] /\ \A c \in Clients : Good(conn[c])

ConnsStep == conn' \in [Clients -> Conn] /\ \A c \in Clients : Does(conn[c], conn'[c])

ConnsWork ==
    /\ conn' \in [Clients -> Conn]
    /\ \A c \in Clients : Good(conn'[c]) /\ Works(conn[c], conn'[c])

\* Working is one of the things a step may do to a connection.
LEMMA WorkIsStep == ConnsWork => ConnsStep
BY DEF ConnsWork, ConnsStep, Does

\* Leaving every connection alone counts as working.
LEMMA NoneWorks == Records /\ UNCHANGED conn => ConnsWork
BY DEF Records, ConnsWork, Works, Same

\* A step that rewrites the record of one connection, and does so allowably.
LEMMA OneDoes ==
    ASSUME Records, NEW c \in Clients, NEW q, conn' = [conn EXCEPT ![c] = q],
           Does(conn[c], q)
    PROVE  /\ ConnsStep
           /\ conn'[c] = q /\ \A d \in Clients \ {c} : conn'[d] = conn[d]
<1>1. q \in Conn
  BY DEF Does
<1>2. conn' \in [Clients -> Conn] /\ conn'[c] = q
      /\ \A d \in Clients \ {c} : conn'[d] = conn[d]
  BY <1>1 DEF Records
<1>3. ASSUME NEW d \in Clients \ {c} PROVE Does(conn[d], conn'[d])
  BY <1>2, <1>3 DEF Records, Does, Works, Same
<1> QED BY <1>2, <1>3, Zenon DEF ConnsStep

\* The same, when the connection stays the client it was, or none.
LEMMA OneWorks ==
    ASSUME Records, NEW c \in Clients, NEW q, conn' = [conn EXCEPT ![c] = q],
           q \in Conn, Good(q), Works(conn[c], q)
    PROVE  ConnsWork
<1>1. conn' \in [Clients -> Conn] /\ conn'[c] = q
      /\ \A d \in Clients \ {c} : conn'[d] = conn[d]
  BY DEF Records
<1>2. ASSUME NEW d \in Clients \ {c} PROVE Good(conn'[d]) /\ Works(conn[d], conn'[d])
  BY <1>1, <1>2 DEF Records, Works, Same
<1> QED BY <1>1, <1>2, Zenon DEF ConnsWork

\* The record of a connection that is free.
LEMMA NoClientIs ==
    /\ NoClient \in Conn
    /\ NoClient.pcb = "free" /\ NoClient.state = "NONE" /\ NoClient.req = NULL
    /\ NoClient.more = FALSE /\ NoClient.file = NULL /\ NoClient.left = 0
    /\ NoClient.frame = NULL /\ NoClient.retries = 0 /\ NoClient.queue = <<>>
    /\ Len(NoClient.queue) = 0
<1>1. <<>> \in Seq(Sources) /\ Len(<<>>) = 0
  BY EmptySeq
<1>2. NoClient \in Conn
  BY <1>1 DEF NoClient, Conn
<1>3. NoClient.queue = <<>>
  BY DEF NoClient
<1> QED BY <1>1, <1>2, <1>3 DEF NoClient

\* Accept opens one connection and touches no other.
LEMMA AcceptDoes ==
    ASSUME Records, NEW c \in Clients, Accept(c)
    PROVE  /\ ConnsStep /\ Opens(conn[c], conn'[c])
           /\ \A d \in Clients \ {c} : conn'[d] = conn[d]
<1> DEFINE q == [NoClient EXCEPT !.pcb = "open", !.state = "ACCEPTED"]
<1>1. q \in Conn /\ Good(q) /\ q.state = "ACCEPTED"
  <2>1. /\ q \in Conn /\ q.state = "ACCEPTED" /\ q.pcb = "open" /\ q.req = NULL
        /\ q.more = FALSE /\ q.file = NULL /\ q.left = 0 /\ q.frame = NULL
        /\ q.retries = 0 /\ q.queue = NoClient.queue
    BY NoClientIs DEF Conn
  <2> HIDE DEF q
  <2> QED BY <2>1, NoClientIs, ConstantsAssumption DEF Good
<1>2. conn[c].state = "NONE"
  BY DEF Accept, Records, Good, Conn
<1>3. conn' = [conn EXCEPT ![c] = q]
  BY DEF Accept
<1> HIDE DEF q
<1> QED BY <1>1, <1>2, <1>3, OneDoes DEF Does, Opens

\* A request is read once, and counted if it is for a stream.
LEMMA RecvRequestDoes ==
    ASSUME Records, NEW c \in Clients, RecvRequest(c)
    PROVE  /\ ConnsStep /\ Asks(conn[c], conn'[c])
           /\ \A d \in Clients \ {c} : conn'[d] = conn[d]
           /\ \/ /\ conn'[c].req = "stream" /\ ~(streamCount + 1 > StreamLimit)
                 /\ streamCount' = streamCount + 1
              \/ conn'[c].req # "stream" /\ streamCount' = streamCount
<1> DEFINE r == conn[c]
<1>1. r \in Conn /\ Good(r) /\ r.state = "ACCEPTED"
  BY DEF RecvRequest, Records
<1>2. PICK t \in Requests, w \in 0..WriteMax :
        /\ conn' = [conn EXCEPT ![c] = SendData(Received(c, t), w)]
        /\ \/ /\ t = "stream" /\ ~(streamCount + 1 > StreamLimit)
              /\ streamCount' = streamCount + 1
           \/ t # "stream" /\ streamCount' = streamCount
  <2>1. PICK t \in Requests \ {"toomany"}, w \in 0..WriteMax :
          LET full == t = "stream" /\ streamCount + 1 > StreamLimit IN
          /\ conn' = [conn EXCEPT ![c] = SendData(Received(c, Answered(t, full)), w)]
          /\ streamCount' = IF t = "stream" /\ ~full THEN streamCount + 1 ELSE streamCount
    BY DEF RecvRequest
  <2> DEFINE full == t = "stream" /\ streamCount + 1 > StreamLimit
  <2>2. CASE full
    BY <2>1, <2>2 DEF Answered, Requests
  <2>3. CASE ~full
    BY <2>1, <2>3 DEF Answered
  <2> QED BY <2>2, <2>3
<1> DEFINE a == Received(c, t)
           q == SendData(a, w)
<1>3. /\ a \in Conn /\ a.pcb = r.pcb /\ a.state = "RECEIVED" /\ a.req = t
      /\ a.more <=> t \in {"snap", "stream"}
      /\ a.file = "response" /\ a.left = ResponseLen /\ a.frame = r.frame
      /\ a.retries = 0 /\ a.queue = r.queue
  <2> DEFINE more == t \in {"snap", "stream"}
             e == [r EXCEPT !.state = "RECEIVED", !.req = t, !.more = more]
  <2>1. more \in BOOLEAN /\ "response" \in Sources /\ ResponseLen \in Nat
    BY ConstantsAssumption DEF Sources
  <2> HIDE DEF more
  <2>2. /\ e \in Conn /\ e.pcb = r.pcb /\ e.state = "RECEIVED" /\ e.req = t
        /\ e.more = more /\ e.frame = r.frame /\ e.queue = r.queue
    BY <1>1, <2>1 DEF Conn
  <2> HIDE DEF e
  <2>3. a = [e EXCEPT !.file = "response", !.left = ResponseLen, !.retries = 0]
    BY DEF Received, AssignFile, e, more
  <2> HIDE DEF a
  <2>4. /\ a \in Conn /\ a.pcb = r.pcb /\ a.state = "RECEIVED" /\ a.req = t
        /\ a.more = more
        /\ a.file = "response" /\ a.left = ResponseLen /\ a.frame = r.frame
        /\ a.retries = 0 /\ a.queue = r.queue
    BY <2>1, <2>2, <2>3 DEF Conn
  <2> QED BY <2>4 DEF more
<1>4. r.frame = NULL
  BY <1>1, ConstantsAssumption DEF Good, Requests
<1>5. Good(a)
  BY <1>1, <1>3, <1>4, ConstantsAssumption DEF Good, Requests
<1> HIDE DEF a
<1>6. /\ q \in Conn /\ Good(q) /\ q.state \in {"RECEIVED", "CLOSING"}
      /\ q.frame = NULL /\ q.req = t
  <2> HIDE DEF q
  <2>1. a.left > 0
    BY <1>3, ConstantsAssumption
  <2> QED BY <1>3, <1>4, <1>5, <2>1, SendDataIs DEF q
<1> HIDE DEF q
<1>7. conn' = [conn EXCEPT ![c] = q]
  BY <1>2 DEF q, a
<1> QED BY <1>1, <1>2, <1>6, <1>7, OneDoes DEF Does, Asks

\* CloseConn ends one connection, whatever becomes of its pcb.
LEMMA CloseConnDoes ==
    ASSUME Records, NEW c \in Attached, NEW p \in {"free", "closing"}, NEW u \in Seq(Sources),
           Len(u) <= SndBuf, CloseConn(c, p, u)
    PROVE  /\ ConnsStep /\ Ends(conn[c], conn'[c])
           /\ \A d \in Clients \ {c} : conn'[d] = conn[d]
<1> DEFINE q == [NoClient EXCEPT !.pcb = p, !.queue = u]
<1>1. q \in Conn /\ Good(q) /\ q.state = "NONE"
  <2>1. /\ q \in Conn /\ q.state = "NONE" /\ q.pcb = p /\ q.req = NULL
        /\ q.more = FALSE /\ q.file = NULL /\ q.left = 0 /\ q.frame = NULL
        /\ q.retries = 0 /\ q.queue = u
    BY NoClientIs DEF Conn
  <2> HIDE DEF q
  <2> QED BY <2>1, ConstantsAssumption DEF Good
<1>2. conn' = [conn EXCEPT ![c] = q] /\ c \in Clients /\ conn[c].state # "NONE"
  BY DEF CloseConn, Attached
<1> HIDE DEF q
<1> QED BY <1>1, <1>2, OneDoes DEF Does, Ends

\* An acknowledgement leaves every connection the client it was.
LEMMA SentDoes == ASSUME Records, NEW c \in Clients, Sent(c) PROVE ConnsWork
<1> DEFINE r == conn[c]
<1>1. r \in Conn /\ Good(r) /\ Len(r.queue) \in Nat /\ SndBuf \in Nat
  BY ConstantsAssumption, LenProperties DEF Records, Conn
<1>2. PICK k \in 1..Len(r.queue), w \in 0..WriteMax :
        LET a == [r EXCEPT !.queue = SubSeq(@, k + 1, Len(@))] IN
        conn' = [conn EXCEPT ![c] =
                   IF a.state = "RECEIVED" THEN SendData([a EXCEPT !.retries = 0], w) ELSE a]
  BY DEF Sent
<1> DEFINE u == SubSeq(r.queue, k + 1, Len(r.queue))
           a == [r EXCEPT !.queue = u]
           b == [a EXCEPT !.retries = 0]
<1>3. u \in Seq(Sources) /\ Len(u) <= SndBuf
  <2>1. r.queue \in Seq(Sources)
    BY <1>1 DEF Conn
  <2>2. \A i \in k + 1 .. Len(r.queue) : r.queue[i] \in Sources
    BY <1>1, <2>1, ElementOfSeq
  <2>3. /\ u \in Seq(Sources)
        /\ Len(u) = IF k + 1 <= Len(r.queue) THEN Len(r.queue) - (k + 1) + 1 ELSE 0
    BY <1>1, <2>2, SubSeqProperties
  <2> QED BY <1>1, <2>3 DEF Good
<1> HIDE DEF u
<1>4. /\ a \in Conn /\ a.pcb = r.pcb /\ a.state = r.state /\ a.req = r.req /\ a.more = r.more
      /\ a.file = r.file /\ a.left = r.left /\ a.frame = r.frame
      /\ a.retries = r.retries /\ a.queue = u
  BY <1>1, <1>3 DEF Conn
<1> HIDE DEF a
<1>5. /\ b \in Conn /\ b.pcb = r.pcb /\ b.state = r.state /\ b.req = r.req /\ b.more = r.more
      /\ b.file = r.file /\ b.left = r.left /\ b.frame = r.frame
      /\ b.retries = 0 /\ b.queue = u
  BY <1>4 DEF Conn
<1> HIDE DEF b
<1>6. Good(a) /\ Good(b)
  BY <1>1, <1>3, <1>4, <1>5, ConstantsAssumption DEF Good
<1>7. CASE r.state = "RECEIVED"
  <2> DEFINE q == SendData(b, w)
  <2>1. conn' = [conn EXCEPT ![c] = q]
    BY <1>2, <1>4, <1>7 DEF a, b, u
  <2>2. /\ q \in Conn /\ Good(q) /\ q.req = b.req
        /\ q.state \in {"RECEIVED", "CLOSING"}
        /\ b.left > 0 => /\ q.state = "RECEIVED" /\ q.file = b.file
                         /\ q.left <= b.left /\ q.frame = b.frame
        /\ q.frame # b.frame => q.frame = NULL /\ (b.req = "snap" => q.state = "CLOSING")
    <3> HIDE DEF q
    <3> QED BY <1>5, <1>6, <1>7, SendDataIs DEF q
  <2> HIDE DEF q
  <2>3. Writes(r, q)
    BY <1>5, <1>7, <2>2 DEF Writes
  <2> QED BY <2>1, <2>2, <2>3, OneWorks DEF Works
<1>8. CASE r.state # "RECEIVED"
  <2>1. conn' = [conn EXCEPT ![c] = a]
    BY <1>2, <1>4, <1>8 DEF a, u
  <2> QED BY <1>4, <1>6, <2>1, OneWorks DEF Works, Same
<1> QED BY <1>7, <1>8

\* Closing is an action of its own to what follows.
Closes(c) ==
    \E p \in {"free", "closing"}, u \in Seq(Sources) : Len(u) <= SndBuf /\ CloseConn(c, p, u)

\* A poll closes a client that has waited too long, or leaves it the client it was.
LEMMA PollDoes ==
    ASSUME Records, NEW c \in Clients, Poll(c)
    PROVE  \/ c \in Attached /\ Closes(c)
           \/ ConnsWork /\ UNCHANGED <<head, next, clientCount, streamCount>>
<1> DEFINE r == conn[c]
           q == [r EXCEPT !.retries = r.retries + 1]
<1>1. r \in Conn /\ Good(r) /\ c \in Attached /\ r.queue \in Seq(Sources)
      /\ Len(r.queue) <= SndBuf
  BY DEF Poll, Records, Good, Conn
<1>2. CASE CloseConn(c, "closing", r.queue)
  BY <1>1, <1>2 DEF Closes
<1>3. CASE /\ r.retries + 1 <= MaxRetries /\ conn' = [conn EXCEPT ![c] = q]
           /\ UNCHANGED <<head, next, clientCount, streamCount>>
  <2>1. /\ q \in Conn /\ q.pcb = r.pcb /\ q.state = r.state /\ q.req = r.req
        /\ q.more = r.more /\ q.file = r.file /\ q.left = r.left /\ q.frame = r.frame
        /\ q.retries = r.retries + 1 /\ q.queue = r.queue
    BY <1>1 DEF Conn
  <2> HIDE DEF q
  <2>2. Good(q) /\ Works(r, q)
    BY <1>1, <1>3, <2>1 DEF Good, Works, Same
  <2> QED BY <1>3, <2>1, <2>2, OneWorks
<1>4. r.retries \in Nat /\ MaxRetries \in Nat
  BY <1>1, ConstantsAssumption DEF Conn
<1> QED BY <1>2, <1>3, <1>4 DEF Poll

\* Closing upon a bad request, the peer's close and an error.
LEMMA ClosingDoes ==
    ASSUME Records, NEW c \in Clients, RecvBadRequest(c) \/ RecvClosed(c) \/ Err(c)
    PROVE  c \in Attached /\ Closes(c)
<1>1. c \in Attached /\ conn[c].queue \in Seq(Sources) /\ Len(conn[c].queue) <= SndBuf
  BY DEF RecvBadRequest, RecvClosed, Err, Attached, Records, Good, Conn
<1>2. <<>> \in Seq(Sources) /\ Len(<<>>) <= SndBuf
  BY EmptySeq, ConstantsAssumption
<1>3. CloseConn(c, "closing", conn[c].queue) \/ CloseConn(c, "free", <<>>)
  BY DEF RecvBadRequest, RecvClosed, Err
<1> QED BY <1>1, <1>2, <1>3 DEF Closes

\* lwIP forgets a pcb only after its client state is gone.
LEMMA PcbGoneDoes == ASSUME Records, NEW c \in Clients, PcbGone(c) PROVE ConnsWork
<1> DEFINE r == conn[c]
           q == [r EXCEPT !.pcb = "free", !.queue = <<>>]
<1>1. r \in Conn /\ Good(r) /\ r.pcb = "closing" /\ conn' = [conn EXCEPT ![c] = q]
  BY DEF PcbGone, Records
<1>2. <<>> \in Seq(Sources) /\ Len(<<>>) <= SndBuf
  BY EmptySeq, ConstantsAssumption
<1>3. /\ q \in Conn /\ q.pcb = "free" /\ q.state = r.state /\ q.req = r.req
      /\ q.more = r.more /\ q.file = r.file /\ q.left = r.left /\ q.frame = r.frame
      /\ q.retries = r.retries /\ q.queue = <<>>
  BY <1>1, <1>2 DEF Conn
<1> HIDE DEF q
<1>4. Good(q) /\ Works(r, q)
  BY <1>1, <1>2, <1>3 DEF Good, Works, Same
<1> QED BY <1>1, <1>3, <1>4, OneWorks

\* A waiting client that is given a frame writes from it at once.
LEMMA GivenDoes ==
    ASSUME Records, NEW c \in Clients, GetsFrames(c), conn[c].frame = NULL,
           NEW f \in Frames, NEW w \in 0..WriteMax,
           NEW q, q = SendData([AssignFile(conn[c], f, FrameLen) EXCEPT !.frame = f], w)
    PROVE  q \in Conn /\ Good(q) /\ Works(conn[c], q)
<1> DEFINE r == conn[c]
           a == [AssignFile(r, f, FrameLen) EXCEPT !.frame = f]
<1>1. r \in Conn /\ Good(r) /\ r.state = "RECEIVED" /\ r.req \in {"snap", "stream"}
  BY DEF Records, GetsFrames
<1>2. /\ a \in Conn /\ a.pcb = r.pcb /\ a.state = r.state /\ a.req = r.req
      /\ a.more = r.more /\ a.file = f /\ a.left = FrameLen /\ a.frame = f
      /\ a.retries = 0 /\ a.queue = r.queue
  <2>1. f \in Sources /\ FrameLen \in Nat
    BY ConstantsAssumption DEF Sources
  <2>2. a = [r EXCEPT !.file = f, !.left = FrameLen, !.retries = 0, !.frame = f]
    BY DEF AssignFile
  <2> HIDE DEF a
  <2> QED BY <1>1, <2>1, <2>2 DEF Conn
<1>3. q = SendData(a, w)
  OBVIOUS
<1> HIDE DEF a
<1>4. Good(a) /\ a.left > 0
  BY <1>1, <1>2, ConstantsAssumption DEF Good
<1>5. q \in Conn /\ Good(q) /\ q.req = r.req /\ q.state = "RECEIVED" /\ q.frame = f
  BY <1>1, <1>2, <1>3, <1>4, SendDataIs
<1> QED BY <1>1, <1>5 DEF Works, IsGiven

\* The walk of AssignNewframe gives frames to waiting clients and changes nothing else
\* of them.
LEMMA AssignNewframeDoes == ASSUME Records, AssignNewframe PROVE ConnsWork
<1>1. PICK due \in SUBSET {c \in Listed : GetsFrames(c) /\ conn[c].frame = NULL} :
      \E f \in [due -> Frames], w \in [due -> 0..WriteMax] :
        conn' = [c \in Clients |->
                   IF c \notin due THEN conn[c]
                   ELSE SendData([AssignFile(conn[c], f[c], FrameLen)
                                     EXCEPT !.frame = f[c]], w[c])]
  BY Zenon DEF AssignNewframe
<1>2. PICK f \in [due -> Frames], w \in [due -> 0..WriteMax] :
        conn' = [c \in Clients |->
                   IF c \notin due THEN conn[c]
                   ELSE SendData([AssignFile(conn[c], f[c], FrameLen)
                                     EXCEPT !.frame = f[c]], w[c])]
  BY <1>1
<1>3. ASSUME NEW c \in Clients
      PROVE  conn'[c] \in Conn /\ Good(conn'[c]) /\ Works(conn[c], conn'[c])
  <2>1. CASE c \notin due
    BY <1>2, <2>1 DEF Records, Works, Same
  <2>2. CASE c \in due
    <3>1. conn'[c] = SendData([AssignFile(conn[c], f[c], FrameLen)
                                  EXCEPT !.frame = f[c]], w[c])
      BY <1>2, <2>2, Zenon
    <3>2. GetsFrames(c) /\ conn[c].frame = NULL /\ f[c] \in Frames /\ w[c] \in 0..WriteMax
      BY <2>2
    <3> QED BY <3>1, <3>2, GivenDoes
  <2> QED BY <2>1, <2>2
<1>4. conn' \in [Clients -> Conn]
  <2>1. /\ DOMAIN conn' = Clients
        /\ conn' = [c \in DOMAIN conn' |-> conn'[c]]
    BY <1>2
  <2>2. \A c \in Clients : conn'[c] \in Conn
    BY <1>3
  <2> QED BY <2>1, <2>2
<1> QED BY <1>3, <1>4 DEF ConnsWork

\* An output error leaves the client waiting for its close, with what it has.
LEMMA StreamOutputDoes == ASSUME Records, StreamOutput PROVE ConnsWork
<1>1. PICK E \in SUBSET {c \in Listed : GetsFrames(c) /\ conn[c].queue # <<>>} :
        conn' = [c \in Clients |-> IF c \in E THEN [conn[c] EXCEPT !.state = "TCP_ERR"]
                                   ELSE conn[c]]
  BY Zenon DEF StreamOutput
<1>2. ASSUME NEW c \in Clients
      PROVE  conn'[c] \in Conn /\ Good(conn'[c]) /\ Works(conn[c], conn'[c])
  <2> DEFINE r == conn[c]
             q == conn'[c]
  <2>1. CASE c \notin E
    BY <1>1, <2>1 DEF Records, Works, Same
  <2>2. CASE c \in E
    <3>1. r \in Conn /\ Good(r) /\ r.state = "RECEIVED" /\ q = [r EXCEPT !.state = "TCP_ERR"]
      BY <1>1, <2>2 DEF Records, GetsFrames
    <3> HIDE DEF q
    <3>2. /\ q \in Conn /\ q.pcb = r.pcb /\ q.state = "TCP_ERR" /\ q.req = r.req
          /\ q.more = r.more /\ q.file = r.file /\ q.left = r.left /\ q.frame = r.frame
          /\ q.retries = r.retries /\ q.queue = r.queue
      BY <3>1 DEF Conn
    <3> QED BY <3>1, <3>2 DEF Good, Works, Fails, q
  <2> QED BY <2>1, <2>2
<1>3. conn' \in [Clients -> Conn]
  <2>1. /\ DOMAIN conn' = Clients
        /\ conn' = [c \in DOMAIN conn' |-> conn'[c]]
    BY <1>1
  <2>2. \A c \in Clients : conn'[c] \in Conn
    BY <1>2
  <2> QED BY <2>1, <2>2
<1> QED BY <1>2, <1>3 DEF ConnsWork

\* Every step of the daemon does to each connection one of the things above.
LEMMA StepDoes == Records /\ [Next]_vars => ConnsStep
<1> SUFFICES ASSUME Records, [Next]_vars PROVE ConnsStep
  OBVIOUS
<1>1. ASSUME NEW c \in Clients, c \in Attached /\ Closes(c) PROVE ConnsStep
  BY <1>1, CloseConnDoes DEF Closes
<1>2. ASSUME NEW c \in Clients, Accept(c) \/ RecvRequest(c) \/ RecvBadRequest(c)
                 \/ RecvClosed(c) \/ Sent(c) \/ Poll(c) \/ Err(c) \/ PcbGone(c)
      PROVE  ConnsStep
  BY <1>1, <1>2, AcceptDoes, RecvRequestDoes, ClosingDoes, SentDoes, PollDoes,
     PcbGoneDoes, WorkIsStep
<1>3. CASE AssignNewframe \/ StreamOutput
  BY <1>3, AssignNewframeDoes, StreamOutputDoes, WorkIsStep
<1>4. CASE UNCHANGED vars
  BY <1>4, NoneWorks, WorkIsStep DEF vars
<1> QED BY <1>2, <1>3, <1>4 DEF Next

-----------------------------------------------------------------------------
\* The counters and the list.  A step brings one client, takes one away, or leaves
\* both; of a client that stays it may make a stream.

Streams == {c \in Clients : conn[c].req = "stream"}

Comes(c) ==
    /\ c \notin Attached /\ Attached' = Attached \cup {c} /\ Streams' = Streams
    /\ clientCount + 1 <= TotalLimit /\ clientCount' = clientCount + 1
    /\ head' = c /\ next' = [next EXCEPT ![c] = head]
    /\ UNCHANGED streamCount

Goes(c) ==
    /\ c \in Attached /\ Attached' = Attached \ {c} /\ Streams' = Streams \ {c}
    /\ clientCount' = clientCount - 1
    /\ Unlink(c) /\ CloseRequest(c)

Stays ==
    /\ Attached' = Attached /\ UNCHANGED <<head, next, clientCount>>
    /\ \/ Streams' = Streams /\ UNCHANGED streamCount
       \/ \E c \in Clients \ Streams : /\ Streams' = Streams \cup {c}
                                       /\ ~(streamCount + 1 > StreamLimit)
                                       /\ streamCount' = streamCount + 1

Moves == (\E c \in Clients : Comes(c) \/ Goes(c)) \/ Stays

\* Who has asked is a client.
LEMMA StreamsAttached == Records => Streams \subseteq Attached
BY ConstantsAssumption DEF Records, Good, Streams, Attached, Requests

\* Work changes neither who is a client nor who streams.
LEMMA WorkStays ==
    ConnsWork => Attached' = Attached /\ Streams' = Streams
<1>1. ASSUME ConnsWork, NEW c \in Clients
      PROVE  /\ conn'[c].req = conn[c].req
             /\ conn'[c].state = "NONE" <=> conn[c].state = "NONE"
  BY <1>1 DEF ConnsWork, Works, Same, Writes, IsGiven, Fails
<1> QED BY <1>1 DEF Attached, Streams

\* Accept counts the client and puts it at the head of the list.
LEMMA AcceptComes == ASSUME Records, NEW c \in Clients, Accept(c) PROVE Comes(c)
<1>1. conn' \in [Clients -> Conn] /\ Good(conn[c]) /\ Good(conn'[c])
      /\ conn[c].state = "NONE" /\ conn'[c].state = "ACCEPTED"
      /\ \A d \in Clients \ {c} : conn'[d] = conn[d]
  BY AcceptDoes DEF Opens, ConnsStep, Does, Records
<1>2. conn[c].req # "stream" /\ conn'[c].req # "stream"
  BY <1>1, ConstantsAssumption DEF Good, Requests
<1>3. c \notin Attached /\ Attached' = Attached \cup {c}
  BY <1>1 DEF Attached
<1>4. Streams' = Streams
  BY <1>1, <1>2 DEF Streams
<1> QED BY <1>3, <1>4 DEF Accept, Comes

\* A close takes one client off the list and out of the counters.
LEMMA CloseGoes ==
    ASSUME Records, NEW c \in Clients, c \in Attached, Closes(c)
    PROVE  Goes(c)
<1>1. PICK p \in {"free", "closing"}, u \in Seq(Sources) : Len(u) <= SndBuf /\ CloseConn(c, p, u)
  BY DEF Closes
<1>2. conn' \in [Clients -> Conn] /\ Good(conn'[c]) /\ conn'[c].state = "NONE"
      /\ \A d \in Clients \ {c} : conn'[d] = conn[d]
  BY <1>1, CloseConnDoes DEF Ends, ConnsStep, Does
<1>3. conn'[c].req # "stream"
  BY <1>2, ConstantsAssumption DEF Good, Requests
<1>4. Attached' = Attached \ {c}
  BY <1>2 DEF Attached
<1>5. Streams' = Streams \ {c}
  BY <1>2, <1>3 DEF Streams
<1> QED BY <1>1, <1>4, <1>5 DEF CloseConn, Goes

\* A request may make a client a stream, within the limit, and leaves the list alone.
LEMMA RequestStays == ASSUME Records, NEW c \in Clients, RecvRequest(c) PROVE Stays
<1>1. /\ Good(conn[c]) /\ conn[c].state = "ACCEPTED" /\ conn'[c].state # "NONE"
      /\ \A d \in Clients \ {c} : conn'[d] = conn[d]
      /\ \/ /\ conn'[c].req = "stream" /\ ~(streamCount + 1 > StreamLimit)
            /\ streamCount' = streamCount + 1
         \/ conn'[c].req # "stream" /\ streamCount' = streamCount
  BY RecvRequestDoes DEF Records, Asks
<1>2. c \notin Streams
  BY <1>1, ConstantsAssumption DEF Good, Requests, Streams
<1>3. Attached' = Attached
  BY <1>1 DEF Attached
<1>4. CASE conn'[c].req = "stream"
  <2>1. Streams' = Streams \cup {c}
    BY <1>1, <1>4 DEF Streams
  <2> QED BY <1>1, <1>2, <1>3, <1>4, <2>1 DEF RecvRequest, Stays
<1>5. CASE conn'[c].req # "stream"
  <2>1. Streams' = Streams
    BY <1>1, <1>2, <1>5 DEF Streams
  <2> QED BY <1>1, <1>3, <1>5, <2>1 DEF RecvRequest, Stays
<1> QED BY <1>4, <1>5

\* Every step brings one client, takes one away or leaves them as they are.
LEMMA StepMoves == Records /\ [Next]_vars => Moves
<1> SUFFICES ASSUME Records, [Next]_vars PROVE Moves
  OBVIOUS
<1>1. ASSUME NEW c \in Clients, Accept(c) PROVE Moves
  BY <1>1, AcceptComes DEF Moves
<1>2. ASSUME NEW c \in Clients, RecvRequest(c) PROVE Moves
  BY <1>2, RequestStays DEF Moves
<1>3. ASSUME NEW c \in Clients, c \in Attached, Closes(c) PROVE Moves
  BY <1>3, CloseGoes DEF Moves
<1>4. ASSUME ConnsWork, UNCHANGED <<head, next, clientCount, streamCount>> PROVE Moves
  BY <1>4, WorkStays DEF Stays, Moves
<1>5. ASSUME NEW c \in Clients, RecvBadRequest(c) \/ RecvClosed(c) \/ Err(c) PROVE Moves
  BY <1>3, <1>5, ClosingDoes
<1>6. ASSUME NEW c \in Clients, Poll(c) PROVE Moves
  BY <1>3, <1>4, <1>6, PollDoes
<1>7. ASSUME NEW c \in Clients, Sent(c) \/ PcbGone(c) PROVE Moves
  BY <1>4, <1>7, SentDoes, PcbGoneDoes DEF Sent, PcbGone
<1>8. CASE AssignNewframe \/ StreamOutput
  BY <1>4, <1>8, AssignNewframeDoes, StreamOutputDoes DEF AssignNewframe, StreamOutput
<1>9. CASE UNCHANGED vars
  BY <1>4, <1>9, NoneWorks DEF vars
<1> QED BY <1>1, <1>2, <1>5, <1>6, <1>7, <1>8, <1>9 DEF Next

\* What lwIP keeps to pass on later stays a flag for each connection.
LEMMA RefusedType ==
    refused \in [Clients -> BOOLEAN] /\ [Next]_vars => refused' \in [Clients -> BOOLEAN]
BY DEF Next, vars, Accept, RecvRequest, RecvBadRequest, RecvClosed, Sent, Poll, Err,
       PcbGone, AssignNewframe, StreamOutput

\* The counters follow the sets.
LEMMA CountsFollow ==
    ASSUME Streams \subseteq Attached, clientCount \in 0..TotalLimit,
           streamCount \in 0..StreamLimit, CountsMatch, Moves
    PROVE  /\ CountsMatch'
           /\ clientCount' \in 0..TotalLimit /\ streamCount' \in 0..StreamLimit
<1>1. IsFiniteSet(Attached) /\ IsFiniteSet(Streams)
  BY ConstantsAssumption, FS_Subset DEF Attached, Streams
<1>2. clientCount = Cardinality(Attached) /\ streamCount = Cardinality(Streams)
  BY DEF CountsMatch, Streams
<1>3. /\ TotalLimit \in Nat /\ StreamLimit \in Nat
      /\ clientCount \in Nat /\ streamCount \in Nat
  BY ConstantsAssumption
<1> DEFINE Follow == /\ clientCount' = Cardinality(Attached')
                     /\ streamCount' = Cardinality(Streams')
                     /\ clientCount' \in 0..TotalLimit /\ streamCount' \in 0..StreamLimit
<1>4. SUFFICES Follow
  BY DEF CountsMatch, Streams
<1>5. ASSUME NEW c \in Clients, Comes(c) PROVE Follow
  <2>1. Cardinality(Attached \cup {c}) = Cardinality(Attached) + 1
    BY <1>1, <1>5, FS_AddElement DEF Comes
  <2> HIDE DEF Attached, Streams
  <2> QED BY <1>2, <1>3, <1>5, <2>1 DEF Comes
<1>6. ASSUME NEW c \in Clients, Goes(c) PROVE Follow
  <2>1. clientCount' = Cardinality(Attached') /\ clientCount # 0
    BY <1>1, <1>2, <1>6, FS_RemoveElement, FS_EmptySet DEF Goes
  <2>2. c \in Streams <=> conn[c].req = "stream"
    BY DEF Streams
  <2>3. streamCount' = Cardinality(Streams')
    <3>1. c \in Streams => streamCount # 0
      BY <1>1, <1>2, FS_EmptySet
    <3> QED BY <1>1, <1>2, <1>6, <2>2, <3>1, FS_RemoveElement DEF Goes, CloseRequest
  <2> QED BY <1>3, <1>6, <2>1, <2>3 DEF Goes, CloseRequest
<1>7. CASE Stays
  <2>1. ASSUME NEW c \in Clients \ Streams, Streams' = Streams \cup {c},
               ~(streamCount + 1 > StreamLimit), streamCount' = streamCount + 1
        PROVE  streamCount' = Cardinality(Streams') /\ streamCount' \in 0..StreamLimit
    <3>1. Cardinality(Streams \cup {c}) = Cardinality(Streams) + 1
      BY <1>1, <2>1, FS_AddElement
    <3> QED BY <1>2, <1>3, <2>1, <3>1
  <2> QED BY <1>2, <1>7, <2>1 DEF Stays
<1> QED BY <1>5, <1>6, <1>7 DEF Moves

\* The list with a new client in front of it.
LEMMA ComesLinked ==
    ASSUME next \in [Clients -> Clients \cup {NULL}], Linked, NEW c \in Clients, Comes(c)
    PROVE  Linked'
<1>0. PICK n \in Nat : \E s \in [1..n -> Clients] : Chain(s, n)
  BY DEF Linked
<1>1. PICK s \in [1..n -> Clients] : Chain(s, n)
  BY <1>0
<1>2. /\ s \in [1..n -> Attached] /\ \A d \in Attached : \E i \in 1..n : s[i] = d
      /\ \A i, j \in 1..n : s[i] = s[j] => i = j
      /\ head = IF n = 0 THEN NULL ELSE s[1]
      /\ \A i \in 1..n : next[s[i]] = IF i = n THEN NULL ELSE s[i + 1]
  BY <1>1 DEF Chain
<1>3. /\ c \notin Attached /\ Attached' = Attached \cup {c} /\ Attached \subseteq Clients
      /\ head' = c /\ next'[c] = head /\ \A d \in Clients \ {c} : next'[d] = next[d]
  BY DEF Comes, Attached
<1> HIDE DEF Attached
<1> DEFINE m == n + 1
           t == [i \in 1..m |-> IF i = 1 THEN c ELSE s[i - 1]]
<1>4. /\ m \in Nat /\ m # 0 /\ t \in [1..m -> Attached'] /\ t \in [1..m -> Clients]
      /\ t[1] = c /\ \A i \in 1..n : t[i + 1] = s[i]
      /\ \A i \in 2..m : i - 1 \in 1..n /\ t[i] = s[i - 1]
  BY <1>2, <1>3
<1> HIDE DEF t
<1>5. \A d \in Attached' : \E i \in 1..m : t[i] = d
  <2>1. \A i \in 1..n : i + 1 \in 1..m
    OBVIOUS
  <2>2. 1 \in 1..m
    OBVIOUS
  <2> HIDE DEF m
  <2> QED BY <1>2, <1>3, <1>4, <2>1, <2>2
<1>6. \A i, j \in 1..m : t[i] = t[j] => i = j
  <2>1. \A i \in 1..m : i = 1 \/ i \in 2..m
    OBVIOUS
  <2>2. \A i \in 2..m : t[i] # c
    BY <1>2, <1>3, <1>4
  <2>3. ASSUME NEW i \in 2..m, NEW j \in 2..m, t[i] = t[j] PROVE i = j
    BY <1>2, <1>4, <2>3
  <2> QED BY <1>4, <2>1, <2>2, <2>3
<1>7. ASSUME NEW i \in 1..m PROVE next'[t[i]] = IF i = m THEN NULL ELSE t[i + 1]
  <2>1. CASE i = 1
    BY <1>2, <1>3, <1>4, <2>1
  <2>2. CASE i \in 2..m
    <3>1. t[i] = s[i - 1] /\ i - 1 \in 1..n /\ s[i - 1] \in Clients \ {c}
      BY <1>2, <1>3, <1>4, <2>2
    <3>2. next'[t[i]] = IF i - 1 = n THEN NULL ELSE s[i - 1 + 1]
      BY <1>2, <1>3, <3>1
    <3>3. i # m => i \in 1..n /\ t[i + 1] = s[i]
      BY <1>4, <2>2
    <3> QED BY <2>2, <3>2, <3>3
  <2> QED BY <2>1, <2>2
<1>8. Chain(t, m)'
  BY <1>3, <1>4, <1>5, <1>6, <1>7 DEF Chain
<1>9. \A d \in Clients \ Attached' : next'[d] = NULL
  BY <1>3 DEF Linked
<1> QED BY <1>4, <1>8, <1>9 DEF Linked

\* The list without one of its clients.
LEMMA GoesLinked ==
    ASSUME next \in [Clients -> Clients \cup {NULL}], Linked, NEW c \in Clients, Goes(c)
    PROVE  Linked'
<1>0. PICK n \in Nat : \E s \in [1..n -> Clients] : Chain(s, n)
  BY DEF Linked
<1>1. PICK s \in [1..n -> Clients] : Chain(s, n)
  BY <1>0
<1>2. /\ s \in [1..n -> Attached] /\ \A d \in Attached : \E i \in 1..n : s[i] = d
      /\ \A i, j \in 1..n : s[i] = s[j] => i = j
      /\ head = IF n = 0 THEN NULL ELSE s[1]
      /\ \A i \in 1..n : next[s[i]] = IF i = n THEN NULL ELSE s[i + 1]
  BY <1>1 DEF Chain
<1>3. /\ c \in Attached /\ Attached' = Attached \ {c} /\ Attached \subseteq Clients
      /\ \A d \in Clients \ Attached : next[d] = NULL
      /\ NULL \notin Clients
  BY ConstantsAssumption DEF Goes, Attached, Linked
<1> HIDE DEF Attached
<1>4. PICK k \in 1..n : s[k] = c
  BY <1>2, <1>3
\* The clients that point to c: the one before it, if it is not the first.
<1> DEFINE before == {p \in Clients : next[p] = c}
<1>5. /\ k = 1 => before = {}
      /\ k # 1 => k - 1 \in 1..n /\ before = {s[k - 1]}
  <2>1. ASSUME NEW p \in before PROVE k # 1 /\ p = s[k - 1]
    <3>1. p \in Attached /\ next[p] = c
      BY <1>3
    <3>2. PICK i \in 1..n : s[i] = p
      BY <1>2, <3>1
    <3>3. i # n /\ s[i + 1] = s[k] /\ i + 1 \in 1..n
      BY <1>2, <1>3, <1>4, <3>1, <3>2
    <3>4. i + 1 = k
      BY <1>2, <3>3
    <3> QED BY <3>2, <3>4
  <2>2. k # 1 => k - 1 \in 1..n /\ s[k - 1] \in before
    BY <1>2, <1>4
  <2> QED BY <2>1, <2>2
<1>6. /\ head' = IF k = 1 THEN next[c] ELSE head
      /\ \A p \in Clients : next'[p] = IF p = c THEN NULL
                                       ELSE IF p \in before THEN next[c] ELSE next[p]
  <2>1. CASE before = {}
    <3>1. k = 1
      BY <1>5, <2>1
    <3>2. head' = next[c] /\ next' = [next EXCEPT ![c] = NULL]
      BY <2>1 DEF Goes, Unlink
    <3> HIDE DEF before
    <3> QED BY <2>1, <3>1, <3>2
  <2>2. CASE before # {}
    <3>1. k # 1
      BY <1>5, <2>2
    <3>2. head' = head
          /\ next' = [p \in Clients |-> IF p = c THEN NULL
                                        ELSE IF p \in before THEN next[c] ELSE next[p]]
      BY <2>2 DEF Goes, Unlink
    <3> HIDE DEF before
    <3> QED BY <3>1, <3>2
  <2> QED BY <2>1, <2>2
<1> HIDE DEF before
<1> DEFINE m == n - 1
           t == [i \in 1..m |-> IF i < k THEN s[i] ELSE s[i + 1]]
<1>7. /\ m \in Nat
      /\ \A i \in 1..m : i \in 1..n /\ i + 1 \in 1..n
      /\ \A i \in 1..m : t[i] = IF i < k THEN s[i] ELSE s[i + 1]
      /\ t = [i \in 1..m |-> t[i]]
  BY <1>4
<1> HIDE DEF t
<1>8. \A i \in 1..m : t[i] \in Attached' /\ t[i] \in Clients
  BY <1>2, <1>3, <1>4, <1>7
<1>9. t \in [1..m -> Attached'] /\ t \in [1..m -> Clients]
  BY <1>7, <1>8
<1>10. ASSUME NEW d \in Attached' PROVE \E i \in 1..m : t[i] = d
  <2>1. PICK i \in 1..n : s[i] = d
    BY <1>2, <1>3
  <2>2. i # k
    BY <1>3, <1>4, <2>1
  <2>3. CASE i < k
    <3>1. i \in 1..m /\ t[i] = d
      BY <1>4, <1>7, <2>1, <2>3
    <3> QED BY <3>1
  <2>4. CASE i > k
    <3>1. i - 1 \in 1..m /\ t[i - 1] = d
      BY <1>4, <1>7, <2>1, <2>4
    <3> QED BY <3>1
  <2> QED BY <2>2, <2>3, <2>4
<1>11. ASSUME NEW i \in 1..m, NEW j \in 1..m, t[i] = t[j] PROVE i = j
  <2> DEFINE a == IF i < k THEN i ELSE i + 1
             b == IF j < k THEN j ELSE j + 1
  <2>1. a \in 1..n /\ b \in 1..n /\ s[a] = s[b]
    BY <1>4, <1>7, <1>11
  <2>2. a = b
    BY <1>2, <2>1
  <2> QED BY <2>2
<1>12. head' = IF m = 0 THEN NULL ELSE t[1]
  <2>1. CASE k = 1
    BY <1>2, <1>4, <1>6, <1>7, <2>1
  <2>2. CASE k # 1
    BY <1>2, <1>4, <1>6, <1>7, <2>2
  <2> QED BY <2>1, <2>2
<1>13. ASSUME NEW i \in 1..m PROVE next'[t[i]] = IF i = m THEN NULL ELSE t[i + 1]
  <2> DEFINE a == IF i < k THEN i ELSE i + 1
  <2>1. a \in 1..n /\ a # k /\ t[i] = s[a] /\ s[a] \in Clients /\ s[a] # c
    BY <1>2, <1>4, <1>7
  <2>2. s[a] \in before <=> a = k - 1
    BY <1>2, <1>4, <1>5, <2>1
  <2>3. next'[t[i]] = IF a = k - 1 THEN next[c] ELSE next[s[a]]
    BY <1>6, <2>1, <2>2
  <2>4. /\ next[c] = IF k = n THEN NULL ELSE s[k + 1]
        /\ next[s[a]] = IF a = n THEN NULL ELSE s[a + 1]
    BY <1>2, <1>4, <2>1
  <2>5. i # m => i + 1 \in 1..m /\ t[i + 1] = IF i + 1 < k THEN s[i + 1] ELSE s[i + 2]
    BY <1>7
  <2>6. CASE i < k - 1
    <3>1. a = i /\ a # n /\ a # k - 1 /\ i # m
      BY <1>4, <2>6
    <3> QED BY <2>3, <2>4, <2>5, <2>6, <3>1
  <2>7. CASE i = k - 1
    <3>1. a = k - 1 /\ (i = m <=> k = n) /\ i + 2 = k + 1 /\ ~(i + 1 < k)
      BY <1>4, <2>7
    <3> QED BY <2>3, <2>4, <2>5, <3>1
  <2>8. CASE i >= k
    <3>1. a = i + 1 /\ a # k - 1 /\ (i = m <=> a = n) /\ a + 1 = i + 2 /\ ~(i + 1 < k)
      BY <1>4, <2>8
    <3> HIDE DEF a
    <3> QED BY <2>3, <2>4, <2>5, <3>1
  <2> QED BY <1>4, <2>6, <2>7, <2>8
<1>14. Chain(t, m)'
  BY <1>9, <1>10, <1>11, <1>12, <1>13 DEF Chain
<1>15. \A d \in Clients \ Attached' : next'[d] = NULL
  <2>1. ASSUME NEW d \in Clients \ Attached, d # c PROVE d \notin before
    BY <1>3, <2>1 DEF before
  <2> QED BY <1>3, <1>6, <2>1
<1> QED BY <1>7, <1>9, <1>14, <1>15 DEF Linked

\* The list follows the clients through every step.
LEMMA ListFollows ==
    ASSUME next \in [Clients -> Clients \cup {NULL}], Linked, Moves
    PROVE  Linked'
<1>1. CASE Stays
  <2>1. Attached' = Attached /\ head' = head /\ next' = next
    BY <1>1 DEF Stays
  <2> HIDE DEF Attached
  <2>2. \A n \in Nat : \A s \in [1..n -> Clients] : Chain(s, n) => Chain(s, n)'
    BY <2>1 DEF Chain
  <2> QED BY <2>1, <2>2 DEF Linked
<1> QED BY <1>1, ComesLinked, GoesLinked DEF Moves

-----------------------------------------------------------------------------
\* A walk along the list.

\* A non-empty set of numbers has a least one.
LEMMA NatMinimum ==
    ASSUME NEW S \in SUBSET Nat, S # {}
    PROVE  \E n \in S : \A m \in S : ~ (m < n)
<1> DEFINE R == OpToRel(<, Nat)
<1>1. PICK n \in S : \A m \in S : ~ (<<m, n>> \in R)
  BY NatLessThanWellFounded, WFMin
<1>2. \A m \in S : m < n => <<m, n>> \in R
  BY DEF OpToRel
<1>3. \A m \in S : ~ (m < n)
  BY <1>1, <1>2, Zenon
<1> QED BY <1>3

\* The service's walk over the list visits the clients of Linked, each and no other.
LEMMA WalkReachesAll ==
    ASSUME next \in [Clients -> Clients \cup {NULL}], Linked
    PROVE  ListIsClients
<1>0. PICK n \in Nat : \E s \in [1..n -> Clients] : Chain(s, n)
  BY DEF Linked
<1>1. PICK s \in [1..n -> Clients] : Chain(s, n)
  BY <1>0
<1>2. /\ s \in [1..n -> Attached] /\ \A d \in Attached : \E i \in 1..n : s[i] = d
      /\ \A i, j \in 1..n : s[i] = s[j] => i = j
      /\ head = IF n = 0 THEN NULL ELSE s[1]
      /\ \A i \in 1..n : next[s[i]] = IF i = n THEN NULL ELSE s[i + 1]
  BY <1>1 DEF Chain
<1> DEFINE N == Cardinality(Clients)
           F(at) == [i \in 0..N |-> IF i = 0 THEN head
                                    ELSE IF at[i - 1] = NULL THEN NULL ELSE next[at[i - 1]]]
           a == CHOOSE at : at = F(at)
           g == [i \in 0..N |-> IF i < n THEN s[i + 1] ELSE NULL]
<1>3. Listed = {a[i] : i \in 0..N} \ {NULL}
  BY DEF Listed
<1>4. N \in Nat /\ n <= N
  <2>1. IsFiniteSet(1..n) /\ Cardinality(1..n) = n
    BY FS_Interval
  <2>2. s \in Injection(1..n, Clients)
    BY <1>2 DEF Injection, IsInjective
  <2> QED BY <2>1, <2>2, ConstantsAssumption, FS_Injection, FS_CardinalityType
<1> HIDE DEF N
<1>5. NULL \notin Clients /\ Attached \subseteq Clients
  BY ConstantsAssumption DEF Attached
<1> HIDE DEF Attached
<1>6. \A i \in 0..N : g[i] = IF i < n THEN s[i + 1] ELSE NULL
  OBVIOUS
<1>7. g = F(g)
  <2>1. ASSUME NEW i \in 0..N
        PROVE  g[i] = IF i = 0 THEN head ELSE IF g[i - 1] = NULL THEN NULL ELSE next[g[i - 1]]
    <3>1. CASE i = 0
      BY <1>2, <1>6, <3>1
    <3>2. CASE i # 0 /\ i - 1 < n
      <4>1. g[i - 1] = s[i] /\ i \in 1..n /\ s[i] \in Clients
        BY <1>4, <1>6, <3>2
      <4> QED BY <1>2, <1>5, <1>6, <3>2, <4>1
    <3>3. CASE i # 0 /\ ~(i - 1 < n)
      BY <1>4, <1>6, <3>3
    <3> QED BY <3>1, <3>2, <3>3
  <2>2. g = [i \in 0..N |-> g[i]]
    OBVIOUS
  <2> HIDE DEF g
  <2> QED BY <2>1, <2>2
<1> HIDE DEF g
<1>8. a = F(a)
  BY <1>7, Zenon
<1> HIDE DEF a
<1>9. \A i \in 0..N : a[i] = g[i]
  <2> DEFINE wrong == {i \in 0..N : a[i] # g[i]}
  <2> SUFFICES ASSUME wrong # {} PROVE FALSE
    OBVIOUS
  <2>1. wrong \in SUBSET Nat
    BY <1>4
  <2> HIDE DEF wrong
  <2>2. PICK k \in wrong : \A m \in wrong : ~ (m < k)
    BY <2>1, NatMinimum
  <2>3. k \in 0..N /\ a[k] # g[k]
    BY <2>2 DEF wrong
  <2>4. a[k] = IF k = 0 THEN head ELSE IF a[k - 1] = NULL THEN NULL ELSE next[a[k - 1]]
    BY <1>8, <2>3
  <2>5. g[k] = IF k = 0 THEN head ELSE IF g[k - 1] = NULL THEN NULL ELSE next[g[k - 1]]
    BY <1>7, <2>3
  <2>6. k # 0 => k - 1 \in 0..N /\ a[k - 1] = g[k - 1]
    <3>1. k # 0 => k - 1 \in 0..N /\ k - 1 < k
      BY <1>4, <2>3
    <3> QED BY <2>2, <3>1 DEF wrong
  <2> QED BY <2>3, <2>4, <2>5, <2>6
<1>10. Listed = {g[i] : i \in 0..N} \ {NULL}
  BY <1>3, <1>9
<1>11. Listed = Attached
  <2>1. ASSUME NEW d \in Listed PROVE d \in Attached
    <3>1. PICK i \in 0..N : g[i] = d /\ d # NULL
      BY <1>10, <2>1
    <3> QED BY <1>2, <1>4, <1>6, <3>1
  <2>2. ASSUME NEW d \in Attached PROVE d \in Listed
    <3>1. PICK i \in 1..n : s[i] = d
      BY <1>2
    <3>2. i - 1 \in 0..N /\ g[i - 1] = d
      BY <1>4, <1>6, <3>1
    <3> QED BY <1>5, <1>10, <3>2
  <2> QED BY <2>1, <2>2
<1> QED BY <1>11 DEF ListIsClients, Linked

-----------------------------------------------------------------------------
\* The inductive invariant of the whole.

\* The invariant holds in every reachable state.
LEMMA ConnsInvariant == Spec => []IInv
<1>1. Init => IInv
  <2> SUFFICES ASSUME Init PROVE IInv
    OBVIOUS
  <2>1. Good(NoClient)
    BY NoClientIs, ConstantsAssumption DEF Good
  <2>2. Types /\ \A c \in Clients : Good(conn[c])
    BY <2>1, NoClientIs, ConstantsAssumption DEF Init, Types
  <2>3. Attached = {} /\ {c \in Clients : conn[c].req = "stream"} = {}
    BY NoClientIs, ConstantsAssumption DEF Init, Attached, Requests
  <2>4. CountsMatch
    BY <2>3, FS_EmptySet DEF Init, CountsMatch
  <2>5. Linked
    <3> DEFINE s == [i \in 1..0 |-> NULL]
    <3>1. s \in [1..0 -> Clients] /\ 1..0 = {}
      OBVIOUS
    <3>2. s \in [1..0 -> Attached]
      OBVIOUS
    <3> HIDE DEF s, Attached
    <3>3. Chain(s, 0)
      BY <2>3, <3>1, <3>2 DEF Init, Chain
    <3>4. \A c \in Clients \ Attached : next[c] = NULL
      BY DEF Init
    <3>5. \E n \in Nat : \E t \in [1..n -> Clients] : Chain(t, n)
      BY <3>1, <3>3
    <3> QED BY <3>4, <3>5 DEF Linked
  <2> QED BY <2>2, <2>4, <2>5 DEF IInv
<1>2. IInv /\ [Next]_vars => IInv'
  <2> SUFFICES ASSUME IInv, [Next]_vars PROVE IInv'
    OBVIOUS
  <2>1. Records /\ Types /\ CountsMatch /\ Linked
    BY DEF IInv, Types, Records
  <2>2. ConnsStep /\ Moves /\ Streams \subseteq Attached
    BY <2>1, StepDoes, StepMoves, StreamsAttached
  <2>3. /\ CountsMatch'
        /\ clientCount' \in 0..TotalLimit /\ streamCount' \in 0..StreamLimit
    BY <2>1, <2>2, CountsFollow DEF Types
  <2>4. Linked'
    BY <2>1, <2>2, ListFollows DEF Types
  <2>5. head' \in Clients \cup {NULL} /\ next' \in [Clients -> Clients \cup {NULL}]
    BY <2>1, <2>2 DEF Types, Moves, Comes, Goes, Unlink, Stays
  <2>6. Types'
    BY <2>1, <2>2, <2>3, <2>5, RefusedType DEF Types, ConnsStep
  <2> QED BY <2>2, <2>3, <2>4, <2>6 DEF IInv, ConnsStep, Does
<1> QED BY <1>1, <1>2, PTL DEF Spec

\* So does the part of it that speaks of records alone.
LEMMA RecordsHold == Spec => []Records
<1>1. IInv => Records
  BY DEF IInv, Types, Records
<1> QED BY <1>1, ConnsInvariant, PTL

-----------------------------------------------------------------------------
\* Every connection's state, retries and send queue stay within their types and
\* their bounds, whatever lwIP's memory grants a write.
THEOREM ConnsTypeCorrect == Spec => []TypeOK
<1>1. IInv => TypeOK
  BY DEF IInv, Types, Good, TypeOK
<1> QED BY <1>1, ConnsInvariant, PTL

\* Both counters agree with the clients there are, on every way a connection comes
\* and ends: close, error, bad request, patience.
THEOREM CountsAlwaysMatch == Spec => []CountsMatch
<1>1. IInv => CountsMatch
  BY DEF IInv
<1> QED BY <1>1, ConnsInvariant, PTL

\* The linked list holds exactly the clients, in whatever order they come and go.
THEOREM ListHoldsTheClients == Spec => []ListIsClients
<1>1. IInv => ListIsClients
  BY WalkReachesAll DEF IInv, Types
<1> QED BY <1>1, ConnsInvariant, PTL

\* No frame that has been given back is written from again, on any way through
\* SendData, FrameSent and the closing of a connection.
THEOREM FramesWrittenAreHeld == Spec => []WritesItsFrame
<1>1. Records => WritesItsFrame
  BY DEF Records, Good, WritesItsFrame
<1> QED BY <1>1, RecordsHold, PTL

\* A frame once begun is written to its end or the connection closes, whatever the
\* order of acknowledgements, new frames, polls and errors.
THEOREM FramesStayWhole == Spec => FramesWhole
<1>1. ASSUME Records, [Next]_vars, NEW c \in Clients,
             conn[c].file \in Frames, conn[c].left > 0, conn[c].state = "RECEIVED"
      PROVE  \/ conn'[c].file = conn[c].file /\ conn'[c].left <= conn[c].left
             \/ conn'[c].state = "NONE"
  <2> DEFINE r == conn[c]
             q == conn'[c]
  <2>1. /\ Same(r, q) \/ Opens(r, q) \/ Ends(r, q) \/ Asks(r, q)
           \/ Writes(r, q) \/ IsGiven(r, q) \/ Fails(r, q)
        /\ r \in Conn /\ q \in Conn /\ Good(r)
    BY <1>1, StepDoes DEF Records, ConnsStep, Does, Works
  <2>2. CASE Same(r, q) \/ Ends(r, q) \/ Writes(r, q)
    BY <1>1, <2>1, <2>2 DEF Same, Ends, Writes, Conn
  <2>3. CASE Fails(r, q)
    BY <1>1, <2>1, <2>3 DEF Fails, Conn
  <2>4. r.frame # NULL
    BY <1>1, <2>1, ConstantsAssumption DEF Good
  <2> QED BY <1>1, <2>1, <2>2, <2>3, <2>4 DEF Opens, Asks, IsGiven
<1>2. Records /\ [Next]_vars =>
        \A c \in Clients :
          conn[c].file \in Frames /\ conn[c].left > 0 /\ conn[c].state = "RECEIVED"
             => \/ conn'[c].file = conn[c].file /\ conn'[c].left <= conn[c].left
                \/ conn'[c].state = "NONE"
  BY <1>1
<1> QED BY <1>2, RecordsHold, PTL DEF Spec, FramesWhole

\* A request for one picture gets one: with its frame the connection ends.
THEOREM SnapsGetOneFrame == Spec => OneFramePerSnap
<1>1. Records /\ [Next]_vars =>
        \A c \in Clients :
          conn[c].req = "snap" /\ conn[c].frame # NULL /\ conn'[c].frame = NULL
             => conn'[c].state \in {"CLOSING", "NONE"}
  <2> SUFFICES ASSUME Records, [Next]_vars, NEW c \in Clients, conn[c].req = "snap",
                      conn[c].frame # NULL, conn'[c].frame = NULL
               PROVE  conn'[c].state \in {"CLOSING", "NONE"}
    OBVIOUS
  <2> DEFINE r == conn[c]
             q == conn'[c]
  <2>1. /\ Same(r, q) \/ Opens(r, q) \/ Ends(r, q) \/ Asks(r, q)
           \/ Writes(r, q) \/ IsGiven(r, q) \/ Fails(r, q)
        /\ r \in Conn /\ q \in Conn /\ Good(r)
    BY StepDoes DEF Records, ConnsStep, Does, Works
  <2>2. r.state \notin {"NONE", "ACCEPTED"}
    BY <2>1, ConstantsAssumption DEF Good, Requests
  <2> QED BY <2>1, <2>2 DEF Same, Opens, Ends, Asks, Writes, IsGiven, Fails
<1> QED BY <1>1, RecordsHold, PTL DEF Spec, OneFramePerSnap

\* The connections keep their side of the contract with the frame pipeline.
LEMMA DoesContract ==
    ASSUME Records, NEW c \in Clients, conn' \in [Clients -> Conn], Does(conn[c], conn'[c])
    PROVE  Contract!Step(c)
<1> DEFINE r == conn[c]
           q == conn'[c]
<1>1. /\ Same(r, q) \/ Opens(r, q) \/ Ends(r, q) \/ Asks(r, q)
         \/ Writes(r, q) \/ IsGiven(r, q) \/ Fails(r, q)
      /\ r \in Conn /\ q \in Conn /\ Good(r) /\ Good(q)
  BY DEF Records, Does, Works
<1>2. /\ St(c) = IF r.state = "NONE" THEN "free"
                 ELSE IF r.state = "ACCEPTED" THEN "request"
                 ELSE IF r.state = "RECEIVED" /\ r.req \in {"snap", "stream"} THEN "stream"
                 ELSE "closing"
      /\ St(c)' = IF q.state = "NONE" THEN "free"
                  ELSE IF q.state = "ACCEPTED" THEN "request"
                  ELSE IF q.state = "RECEIVED" /\ q.req \in {"snap", "stream"} THEN "stream"
                  ELSE "closing"
  BY <1>1 DEF St, GetsFrames, Conn
<1>3. /\ NULL \notin Frames
      /\ r.state \in {"NONE", "ACCEPTED"} => r.frame = NULL
      /\ q.state \in {"NONE", "ACCEPTED"} => q.frame = NULL
      /\ r.frame # NULL => r.req \in {"snap", "stream"}
      /\ r.frame \in Frames \cup {NULL} /\ q.frame \in Frames \cup {NULL}
  BY <1>1, ConstantsAssumption DEF Good, Requests, Conn
<1> DEFINE s == St(c)
           t == St(c)'
<1>4. \/ t = s /\ q.frame = r.frame
      \/ s = "free" /\ t = "request" /\ q.frame = NULL
      \/ s = "request" /\ t \in {"stream", "closing"} /\ q.frame = NULL
      \/ s = "stream" /\ r.frame = NULL /\ t = "stream" /\ q.frame \in Frames
      \/ s = "stream" /\ r.frame # NULL /\ t \in {"stream", "closing"} /\ q.frame = NULL
      \/ s = "stream" /\ t = "closing" /\ q.frame = r.frame
      \/ s # "free" /\ t = "free" /\ q.frame = NULL
  <2> USE <1>1, <1>2, <1>3
  <2>1. CASE Same(r, q)
    BY <2>1 DEF Same
  <2>2. CASE Opens(r, q) \/ Ends(r, q)
    BY <2>2 DEF Opens, Ends
  <2>3. CASE Asks(r, q)
    BY <2>3 DEF Asks
  <2>4. CASE Writes(r, q)
    <3>1. q.frame = r.frame \/ q.frame = NULL
      BY <2>4 DEF Writes
    <3>2. s \in {"stream", "closing"} /\ t \in {s, "closing"}
      BY <2>4 DEF Writes
    <3>3. r.frame # NULL => s = "stream"
      BY <2>4 DEF Writes
    <3> QED BY <3>1, <3>2, <3>3
  <2>5. CASE IsGiven(r, q)
    BY <2>5 DEF IsGiven
  <2>6. CASE Fails(r, q)
    <3>1. s \in {"stream", "closing"} /\ t = "closing" /\ q.frame = r.frame
      BY <2>6 DEF Fails
    <3> QED BY <3>1
  <2> QED BY <2>1, <2>2, <2>3, <2>4, <2>5, <2>6
<1>5. /\ [d \in Clients |-> St(d)][c] = s /\ [d \in Clients |-> St(d)]'[c] = t
      /\ [d \in Clients |-> conn[d].frame][c] = r.frame
      /\ [d \in Clients |-> conn[d].frame]'[c] = q.frame
  OBVIOUS
<1> HIDE DEF s, t
<1> QED BY <1>4, <1>5 DEF Contract!Step, Contract!Open, Contract!Ask, Contract!Give,
           Contract!Done, Contract!Fail, Contract!Close

\* The connections implement ClientFrames: frames are given one at a time, to those
\* who wait, and each comes back once.
THEOREM ConnsImplementClientFrames == Spec => KeepsContract
<1>1. Init => Contract!Init
  <2> SUFFICES ASSUME Init PROVE Contract!Init
    OBVIOUS
  <2>1. ASSUME NEW c \in Clients PROVE St(c) = "free" /\ conn[c].frame = NULL
    BY NoClientIs DEF Init, St, GetsFrames
  <2> QED BY <2>1, Zenon DEF Contract!Init
<1>2. Records /\ [Next]_vars => [Contract!Next]_(Contract!vars)
  <2> SUFFICES ASSUME Records, [Next]_vars PROVE Contract!Next
    OBVIOUS
  <2>1. ASSUME NEW c \in Clients PROVE Contract!Step(c)
    BY StepDoes, DoesContract DEF ConnsStep
  <2> QED BY <2>1 DEF Contract!Next
<1> QED BY <1>1, <1>2, RecordsHold, PTL DEF Spec, KeepsContract, Contract!Spec
=============================================================================
