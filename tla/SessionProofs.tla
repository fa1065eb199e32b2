--------------------------- MODULE SessionProofs ---------------------------
(***************************************************************************)
(* Proofs about ImageSession, for any images, lengths of the zips, reads   *)
(* and numbers of requests and alerts.                                     *)
(*                                                                         *)
(* IInv: a client that is not the administrator has its authentication at  *)
(* the head of what it sent for as long as the server has read nothing,    *)
(* and once the server has read that, the connection is closed.  The rest  *)
(* is what each step does to the types, and to the one flag of the child.  *)
(*                                                                         *)
(* TransferInv: the stream to the child holds one transfer at most, whose  *)
(* messages follow each other from some place d of it on, d being negative *)
(* when the child has taken some.  A second transfer needs a select, a     *)
(* select needs the list, and the list comes behind the first transfer: so *)
(* when the list is read nothing of the transfer is left.                  *)
(***************************************************************************)
EXTENDS ImageSession, FiniteSetTheorems, SequenceTheorems, TLAPS

Kinds == {"auth", "status", "update", "list", "select", "size", "ready", "alert",
          "disconnect", "piece"}

Messages == {m \in [is : Kinds, n : Int, of : Images \cup {NoImage}] :
               m.is = "select" => m.of \in Images}

StreamsOK ==
  /\ up \in Seq(Messages)
  /\ down \in Seq(Messages)
  /\ DOMAIN zips \subseteq {Stem[i] : i \in Images}
  /\ \A s \in DOMAIN zips : zips[s] \in Seq(Messages)
  /\ server \in {"select", "compress", "size", "ready", "file"} => job \in Images

AuthFirst ==
  ~admin =>
    /\ ~updated
    /\ \/ server = "closed"
       \/ server = "idle" /\ up # <<>> /\ Head(up).is = "auth"

IInv == TypeOK /\ StreamsOK /\ AuthFirst /\ StoppedOnlyWhileAsking

-----------------------------------------------------------------------------
LEMMA MessageType ==
  /\ \A is \in Kinds \ {"select"} : Message(is) \in Messages
  /\ \A is \in Kinds, n \in Int, i \in Images : [is |-> is, n |-> n, of |-> i] \in Messages
  /\ \A n \in Int : [is |-> "size", n |-> n, of |-> NoImage] \in Messages
BY DEF Message, Messages, Kinds

\* A length is a number.
LEMMA LengthType == ASSUME NEW s \in Seq(Messages) PROVE Length(s) \in Int
<1> DEFINE pieces == {k \in DOMAIN s : s[k].is = "piece"}
<1>1. IsFiniteSet(1..Len(s))
  BY FS_Interval
<1>2. pieces \subseteq 1..Len(s)
  OBVIOUS
<1>3. Cardinality(pieces) \in Nat
  BY <1>1, <1>2, FS_Subset, FS_CardinalityType
<1> QED BY <1>3 DEF Length

\* The zip of an image, and the part of it that was written, are messages.
LEMMA ContentType ==
  ASSUME NEW i \in Readable, NEW n \in 0..Pieces[i]
  PROVE  Content(i) \in Seq(Messages) /\ SubSeq(Content(i), 1, n) \in Seq(Messages)
<1>1. Pieces[i] \in Nat /\ i \in Images
  BY ImagesAssumption
<1>2. \A k \in 1..Pieces[i] : [is |-> "piece", n |-> k, of |-> i] \in Messages
  BY <1>1, MessageType DEF Kinds
<1>3. Content(i) \in Seq(Messages) /\ Len(Content(i)) = Pieces[i]
  BY <1>1, <1>2 DEF Content
<1> QED BY <1>1, <1>3

\* What remains of a stream, and what comes after it, are messages.
LEMMA Receiving ==
  ASSUME StreamsOK, NEW k, Received(k)
  PROVE  down' \in Seq(Messages) /\ Head(down) \in Messages /\ down # <<>>
<1>1. k \in 1..Len(down) /\ down \in Seq(Messages)
  BY BoundsAssumption DEF StreamsOK, Received
<1>2. Len(down) \in Nat /\ Len(down) > 0 /\ down # <<>>
  BY <1>1
<1>3. Head(down) = down[1] /\ down[1] \in Messages
  BY <1>1, <1>2
<1>4. down' = SubSeq(down, k + 1, Len(down))
  BY DEF Received
<1> QED BY <1>1, <1>2, <1>3, <1>4

\* Sending puts a message behind the others, or nowhere.
LEMMA Sending ==
  ASSUME IInv, NEW m \in Messages, NEW next, Send(m, next)
  PROVE  /\ up' \in Seq(Messages)
         /\ link' \in {"open", "fin", "aborted", "reset"}
         /\ requests' \in 0..MaxRequests
         /\ parent' \in {"ended", next}
         /\ up # <<>> => up' # <<>> /\ Head(up') = Head(up)
<1>1. up \in Seq(Messages) /\ requests \in 0..MaxRequests /\ MaxRequests \in Nat
  BY BoundsAssumption DEF IInv, TypeOK, StreamsOK
<1>2. up' = Append(up, m) \/ up' = up
  BY DEF Send
<1>3. /\ Append(up, m) \in Seq(Messages)
      /\ up # <<>> => Append(up, m) # <<>> /\ Head(Append(up, m)) = Head(up)
  BY <1>1
<1>4. requests' \in 0..MaxRequests
  BY <1>1 DEF Send
<1>5. link' \in {"open", "fin", "aborted", "reset"} /\ parent' \in {"ended", next}
  BY DEF Send, IInv, TypeOK
<1> QED BY <1>1, <1>2, <1>3, <1>4, <1>5

LEMMA Starts == Init => IInv
<1> SUFFICES ASSUME Init PROVE IInv
  OBVIOUS
<1>1. Message("auth") \in Messages /\ Message("auth").is = "auth"
  BY MessageType DEF Message, Kinds
<1>2. up \in Seq(Messages) /\ up # <<>> /\ Head(up).is = "auth" /\ down \in Seq(Messages)
  BY <1>1 DEF Init, authenticate
<1>3. TypeOK
  <2>1. 0 \in 0..MaxRequests /\ 0 \in 0..MaxAlerts
    BY BoundsAssumption
  <2>2. size \in [{"parent", "child"} -> Int]
    BY DEF Init, authenticate
  <2> QED BY <2>1, <2>2 DEF Init, authenticate, TypeOK
<1>4. StreamsOK /\ AuthFirst /\ StoppedOnlyWhileAsking
  BY <1>2 DEF Init, authenticate, StreamsOK, AuthFirst, StoppedOnlyWhileAsking
<1> QED BY <1>3, <1>4 DEF IInv

-----------------------------------------------------------------------------
\* The client's processes touch nothing of the server and send nothing.
LEMMA ChildSteps == ASSUME IInv, Child PROVE IInv'
<1>1. /\ UNCHANGED <<stopped, wanted, admin, up, host, requests, alerts>>
      /\ ~stopped
      /\ parent' \in {parent, "ended"}
      /\ child' \in {"reading", "download", "ended"}
      /\ link' \in {link, "reset"}
  BY DEF Child, ChildReads, ChildDownloads, Download, Fails, IInv, TypeOK
<1>2. down' \in Seq(Messages) /\ size' \in [{"parent", "child"} -> Int]
  <2>1. CASE ChildReads /\ UNCHANGED <<down, size>>
    BY <2>1 DEF IInv, StreamsOK, TypeOK
  <2>2. CASE ChildReads /\ \E k \in 1..MaxMerged : Received(k)
    <3>1. down' \in Seq(Messages) /\ Head(down) \in Messages
      BY <2>2, Receiving DEF IInv
    <3>2. \/ size' = size
          \/ size' = [size EXCEPT !.child = Head(down).n]
      BY <2>2 DEF ChildReads, AtEnd, Fails
    <3>3. Head(down).n \in Int
      BY <3>1 DEF Messages
    <3> QED BY <3>1, <3>2, <3>3 DEF IInv, TypeOK
  <2>3. CASE ChildDownloads
    <3>1. down' = down \/ \E k \in 1..MaxMerged : Received(k)
      BY <2>3 DEF ChildDownloads, Download
    <3> QED BY <2>3, <3>1, Receiving DEF IInv, TypeOK, StreamsOK, ChildDownloads
  <2> QED BY <2>1, <2>2, <2>3 DEF Child, ChildReads
<1>3. TypeOK' /\ StreamsOK' /\ AuthFirst' /\ StoppedOnlyWhileAsking'
  BY <1>1, <1>2 DEF IInv, TypeOK, StreamsOK, AuthFirst, StoppedOnlyWhileAsking, host, disk
<1> QED BY <1>3 DEF IInv

LEMMA ParentSteps == ASSUME IInv, Parent PROVE IInv'
<1>1. /\ UNCHANGED <<child, wanted, admin, up, host, requests, alerts>>
      /\ parent' \in {"menu", "asked", "choosing", "download", "ended"}
      /\ stopped' => stopped /\ parent' # "menu"
      /\ link' \in {link, "reset"}
  <2>1. CASE ParentReads
    <3>1. UNCHANGED <<child, wanted, admin, up, host, requests, alerts>> /\ link' \in {link, "reset"}
      BY <2>1 DEF ParentReads, Fails
    <3>2. CASE \/ parent' = "ended" /\ UNCHANGED stopped
               \/ parent' = "menu" /\ stopped' = FALSE
      BY <3>1, <3>2
    <3>3. CASE \E k \in 1..MaxMerged : Received(k)
      <4>1. /\ parent' = IF Head(down).is = "list" THEN "choosing"
                         ELSE IF Head(down).is = "ready" THEN "download"
                         ELSE IF Head(down).is = "disconnect" THEN "ended" ELSE "menu"
            /\ stopped' = (stopped /\ Head(down).is \in {"list", "ready", "disconnect"})
        BY <2>1, <3>3 DEF ParentReads, AtEnd, Fails, Received
      <4> QED BY <3>1, <4>1
    <3> QED BY <2>1, <3>2, <3>3 DEF ParentReads
  <2>2. CASE ParentDownloads
    BY <2>2 DEF ParentDownloads, Download, Fails
  <2> QED BY <2>1, <2>2 DEF Parent
<1>2. down' \in Seq(Messages) /\ size' \in [{"parent", "child"} -> Int]
  <2>1. CASE ParentReads /\ UNCHANGED <<down, size>>
    BY <2>1 DEF IInv, StreamsOK, TypeOK
  <2>2. CASE ParentReads /\ \E k \in 1..MaxMerged : Received(k)
    <3>1. down' \in Seq(Messages) /\ Head(down) \in Messages
      BY <2>2, Receiving DEF IInv
    <3>2. \/ size' = size
          \/ size' = [size EXCEPT !.parent = Head(down).n]
      BY <2>2 DEF ParentReads, AtEnd, Fails
    <3>3. Head(down).n \in Int
      BY <3>1 DEF Messages
    <3> QED BY <3>1, <3>2, <3>3 DEF IInv, TypeOK
  <2>3. CASE ParentDownloads
    <3>1. down' = down \/ \E k \in 1..MaxMerged : Received(k)
      BY <2>3 DEF ParentDownloads, Download
    <3> QED BY <2>3, <3>1, Receiving DEF IInv, TypeOK, StreamsOK, ParentDownloads
  <2> QED BY <2>1, <2>2, <2>3 DEF Parent, ParentReads
<1>3. stopped' \in BOOLEAN
  BY DEF Parent, ParentReads, ParentDownloads, IInv, TypeOK
<1>4. TypeOK' /\ StreamsOK' /\ AuthFirst' /\ StoppedOnlyWhileAsking'
  BY <1>1, <1>2, <1>3 DEF IInv, TypeOK, StreamsOK, AuthFirst, StoppedOnlyWhileAsking, host, disk
<1> QED BY <1>4 DEF IInv

\* What the user does sends at most one message, and ends nothing that is stopped.
LEMMA UserSteps == ASSUME IInv, User \/ HangUp PROVE IInv'
<1>1. UNCHANGED <<size, admin, down, host, alerts>>
  BY DEF User, HangUp, Ask, AskForImages, Choose, Exit, Interrupt, stream, ghosts
<1>2. \/ UNCHANGED <<up, link, requests>>
      \/ \E m \in Messages, next \in {"menu", "asked"} : Send(m, next)
  <2>1. /\ Message("status") \in Messages /\ Message("update") \in Messages
        /\ Message("list") \in Messages
    BY MessageType DEF Kinds
  <2>2. ASSUME NEW i \in Images PROVE [is |-> "select", n |-> 0, of |-> i] \in Messages
    BY <2>2, MessageType DEF Kinds
  <2> QED BY <2>1, <2>2 DEF User, HangUp, Ask, AskForImages, Choose, Exit, Interrupt, stream, ghosts
<1>3. /\ up' \in Seq(Messages)
      /\ link' \in {"open", "fin", "aborted", "reset"}
      /\ requests' \in 0..MaxRequests
      /\ up # <<>> => up' # <<>> /\ Head(up') = Head(up)
  BY <1>2, Sending DEF IInv, TypeOK, StreamsOK
<1>4. /\ parent' \in {"menu", "asked", "choosing", "download", "ended"}
      /\ child' \in {"reading", "download", "ended"}
      /\ stopped' \in BOOLEAN
      /\ wanted' \in Images \cup {NoImage}
  BY DEF User, HangUp, Ask, AskForImages, Choose, Exit, Interrupt, Send, IInv, TypeOK
<1>5. StoppedOnlyWhileAsking'
  BY DEF User, HangUp, Ask, AskForImages, Choose, Exit, Interrupt, Send, IInv, TypeOK,
         StoppedOnlyWhileAsking
<1>6. TypeOK' /\ StreamsOK' /\ AuthFirst'
  BY <1>1, <1>3, <1>4 DEF IInv, TypeOK, StreamsOK, AuthFirst, host, disk
<1> QED BY <1>5, <1>6 DEF IInv

-----------------------------------------------------------------------------
\* A reply is behind what was sent before.
LEMMA Replying ==
  ASSUME StreamsOK, NEW ms \in Seq(Messages), Reply(ms)
  PROVE  down' \in Seq(Messages)
BY DEF StreamsOK, Reply

\* A step of the server that only replies.
LEMMA ServerReplies ==
  ASSUME IInv, NEW ms \in Seq(Messages), Reply(ms),
         UNCHANGED <<client, link, up, job, disk, updated, requests>>,
         alerts' \in 0..MaxAlerts,
         server \in {"size", "ready", "file"} \/ server' = server,
         server' \in {server, "ready", "file", "idle"},
         server \in {"size", "ready", "file"} => job \in Images
  PROVE  IInv'
<1>1. down' \in Seq(Messages)
  BY Replying DEF IInv
<1>2. TypeOK' /\ StreamsOK' /\ AuthFirst' /\ StoppedOnlyWhileAsking'
  BY <1>1 DEF IInv, TypeOK, StreamsOK, AuthFirst, StoppedOnlyWhileAsking, client, disk
<1> QED BY <1>2 DEF IInv

\* The connection is closed: what is on the way is still messages, and all of
\* them are there unless a reset lost some.
LEMMA Closing ==
  ASSUME IInv, NEW ms \in Seq(Messages), NEW unread, Close(ms, unread)
  PROVE  /\ server' = "closed" /\ up' = <<>> /\ link' \in {"fin", "aborted"}
         /\ down' \in Seq(Messages)
         /\ \/ Reply(ms) /\ faulted' = faulted
            \/ faulted' = TRUE
<1>1. down \in Seq(Messages) /\ down \o ms \in Seq(Messages)
      /\ Len(down \o ms) = Len(down) + Len(ms) /\ Len(down) \in Nat /\ Len(ms) \in Nat
  BY DEF IInv, StreamsOK
<1>2. CASE Reply(ms) /\ UNCHANGED faulted
  BY <1>2, Replying DEF Close, IInv
<1>3. ASSUME NEW n \in 0..(Len(down) + Len(ms) - 1), down' = SubSeq(down \o ms, 1, n)
      PROVE  down' \in Seq(Messages)
  <2>1. n \in 0..Len(down \o ms)
    BY <1>1
  <2> DEFINE s == down \o ms
  <2>2. s \in Seq(Messages) /\ n \in 0..Len(s)
    BY <1>1, <2>1
  <2> HIDE DEF s
  <2>3. SubSeq(s, 1, n) \in Seq(Messages)
    BY <2>2
  <2> QED BY <1>3, <2>3 DEF s
<1> QED BY <1>2, <1>3 DEF Close

\* Nobody is served any more.
LEMMA Closes ==
  ASSUME IInv, NEW ms \in Seq(Messages), NEW unread, Close(ms, unread),
         UNCHANGED <<client, zips, job, updated, requests, alerts>>,
         canny' \in Readable \cup {NoImage}
  PROVE  IInv'
<1>1. /\ down' \in Seq(Messages) /\ up' \in Seq(Messages)
      /\ server' = "closed" /\ link' \in {"fin", "aborted"}
  <2>1. <<>> \in Seq(Messages)
    OBVIOUS
  <2> QED BY <2>1, Closing
<1>2. TypeOK' /\ StreamsOK' /\ AuthFirst' /\ StoppedOnlyWhileAsking'
  BY <1>1 DEF IInv, TypeOK, StreamsOK, AuthFirst, StoppedOnlyWhileAsking, client
<1> QED BY <1>2 DEF IInv

LEMMA Handles == ASSUME IInv, Handle PROVE IInv'
<1> DEFINE m == Head(up)
<1>1. /\ up \in Seq(Messages) /\ up # <<>> /\ server = "idle" /\ link = "open"
      /\ UNCHANGED <<client, disk, requests, alerts>>
  BY DEF IInv, StreamsOK, Handle
<1>2. m \in Messages /\ Tail(up) \in Seq(Messages)
  BY <1>1
<1>3. m.is \in Kinds /\ m.of \in Images \cup {NoImage}
  BY <1>2 DEF Messages
<1>4. /\ <<>> \in Seq(Messages) /\ <<Message("auth")>> \in Seq(Messages)
      /\ m.is # "select" => <<Message(m.is)>> \in Seq(Messages)
  <2>1. Message("auth") \in Messages /\ (m.is # "select" => Message(m.is) \in Messages)
    BY <1>3, MessageType DEF Kinds
  <2> QED BY <2>1
<1> HIDE DEF m
<1>5. ASSUME NEW ms \in Seq(Messages), NEW unread, Close(ms, unread), UNCHANGED <<job, updated>>
      PROVE  IInv'
  BY <1>1, <1>5, Closes DEF IInv, TypeOK, disk
<1>6. CASE /\ m.is = "auth" => admin
           /\ up' = Tail(up)
           /\ server' = IF m.is = "select" THEN "select" ELSE server
           /\ job' = IF m.is = "select" THEN m.of ELSE job
           /\ updated' = (updated \/ m.is = "update")
           /\ Reply(IF m.is \in {"select", "update"} THEN <<>> ELSE <<Message(m.is)>>)
           /\ UNCHANGED link
  <2>1. down' \in Seq(Messages)
    BY <1>4, <1>6, Replying DEF IInv
  <2>2. admin
    BY <1>1, <1>6 DEF IInv, AuthFirst, m
  <2>3. m.is = "select" => m.of \in Images
    BY <1>2 DEF Messages
  <2>4. TypeOK' /\ StreamsOK' /\ AuthFirst' /\ StoppedOnlyWhileAsking'
    BY <1>1, <1>2, <1>6, <2>1, <2>2, <2>3
       DEF IInv, TypeOK, StreamsOK, AuthFirst, StoppedOnlyWhileAsking, client, disk
  <2> QED BY <2>4 DEF IInv
<1> QED BY <1>4, <1>5, <1>6 DEF Handle, m

LEMMA Detects == ASSUME IInv, DetectEdges PROVE IInv'
<1>1. /\ server = "select" /\ job \in Images /\ admin
      /\ UNCHANGED <<client, job, zips, updated, requests, alerts>>
  BY DEF DetectEdges, IInv, StreamsOK, AuthFirst
<1>2. CASE Close(<<>>, up # <<>>) /\ UNCHANGED canny
  <2>1. <<>> \in Seq(Messages)
    OBVIOUS
  <2> QED BY <1>1, <1>2, <2>1, Closes DEF IInv, TypeOK
<1>3. CASE server' \in {"size", "compress"} /\ canny' \in {canny, job} /\ UNCHANGED stream
           /\ (canny' # canny => job \in Readable)
  <2>1. TypeOK' /\ StreamsOK' /\ AuthFirst' /\ StoppedOnlyWhileAsking'
    BY <1>1, <1>3 DEF IInv, TypeOK, StreamsOK, AuthFirst, StoppedOnlyWhileAsking, client, stream
  <2> QED BY <2>1 DEF IInv
<1> QED BY <1>2, <1>3 DEF DetectEdges

LEMMA Compresses == ASSUME IInv, Compress PROVE IInv'
<1>1. /\ server = "compress" /\ job \in Images /\ admin /\ server' = "size"
      /\ UNCHANGED <<client, stream, job, canny, updated, requests, alerts>>
  BY DEF Compress, IInv, StreamsOK, AuthFirst
<1>2. UNCHANGED zips \/ \E data \in Seq(Messages) : Zipped(data)
  <2>1. CASE canny # NoImage
    <3>1. canny \in Readable /\ Pieces[canny] \in Nat \ {0}
      BY <2>1, ImagesAssumption DEF IInv, TypeOK
    <3>2. /\ Content(canny) \in Seq(Messages)
          /\ \A n \in 0..Pieces[canny] - 1 : SubSeq(Content(canny), 1, n) \in Seq(Messages)
      BY <3>1, ContentType
    <3> QED BY <3>2 DEF Compress
  <2>2. CASE canny = NoImage
    BY <2>2 DEF Compress
  <2> QED BY <2>1, <2>2
<1>3. /\ DOMAIN zips' \subseteq {Stem[i] : i \in Images}
      /\ \A s \in DOMAIN zips' : zips'[s] \in Seq(Messages)
  BY <1>1, <1>2 DEF IInv, StreamsOK, Zipped
<1>4. TypeOK' /\ StreamsOK' /\ AuthFirst' /\ StoppedOnlyWhileAsking'
  BY <1>1, <1>3
     DEF IInv, TypeOK, StreamsOK, AuthFirst, StoppedOnlyWhileAsking, client, stream
<1> QED BY <1>4 DEF IInv

LEMMA Transfers == ASSUME IInv, SendSize \/ SendReady \/ SendFile \/ Alert PROVE IInv'
<1>1. alerts' \in 0..MaxAlerts
  BY BoundsAssumption DEF SendSize, SendReady, SendFile, Alert, IInv, TypeOK, ghosts
<1>2. server \in {"size", "ready", "file"} => job \in Images
  BY DEF IInv, StreamsOK
<1>3. CASE SendSize
  <2>1. (IF Stem[job] \in DOMAIN zips THEN Length(zips[Stem[job]]) ELSE -1) \in Int
    BY LengthType DEF IInv, StreamsOK
  <2>2. [is |-> "size", of |-> NoImage,
         n |-> IF Stem[job] \in DOMAIN zips THEN Length(zips[Stem[job]]) ELSE -1] \in Messages
    BY <2>1 DEF Messages, Kinds
  <2>3. PICK m \in Messages : Reply(<<m>>)
    BY <1>3, <2>2 DEF SendSize
  <2>4. <<m>> \in Seq(Messages)
    OBVIOUS
  <2> QED BY <1>1, <1>2, <1>3, <2>3, <2>4, ServerReplies DEF SendSize, ghosts
<1>4. CASE SendReady
  <2>1. <<Message("ready")>> \in Seq(Messages)
    <3>1. Message("ready") \in Messages
      BY MessageType DEF Kinds
    <3> QED BY <3>1
  <2> QED BY <1>1, <1>2, <1>4, <2>1, ServerReplies DEF SendReady, ghosts
<1>5. CASE SendFile
  <2>1. (IF Stem[job] \in DOMAIN zips THEN zips[Stem[job]] ELSE <<>>) \in Seq(Messages)
    BY DEF IInv, StreamsOK
  <2> QED BY <1>1, <1>2, <1>5, <2>1, ServerReplies DEF SendFile, ghosts
<1>6. CASE Alert
  <2>1. <<Message("alert")>> \in Seq(Messages)
    <3>1. Message("alert") \in Messages
      BY MessageType DEF Kinds
    <3> QED BY <3>1
  <2> QED BY <1>1, <1>2, <1>6, <2>1, ServerReplies DEF Alert, host, disk
<1> QED BY <1>3, <1>4, <1>5, <1>6

LEMMA Outages == ASSUME IInv, Outage PROVE IInv'
<1>1. <<Message("disconnect")>> \in Seq(Messages)
  <2>1. Message("disconnect") \in Messages
    BY MessageType DEF Kinds
  <2> QED BY <2>1
<1> QED BY <1>1, Closes DEF Outage, IInv, TypeOK, disk

-----------------------------------------------------------------------------
LEMMA Step == IInv /\ [Next]_vars => IInv'
<1> SUFFICES ASSUME IInv, [Next]_vars PROVE IInv'
  OBVIOUS
<1>1. CASE Next
  BY <1>1, ChildSteps, ParentSteps, UserSteps, Handles, Detects, Compresses, Transfers, Outages
     DEF Next, Server
<1>2. CASE UNCHANGED vars
  <2>1. TypeOK' /\ StreamsOK' /\ AuthFirst' /\ StoppedOnlyWhileAsking'
    BY <1>2 DEF vars, client, stream, host, disk, ghosts, IInv, TypeOK, StreamsOK, AuthFirst,
                StoppedOnlyWhileAsking
  <2> QED BY <2>1 DEF IInv
<1> QED BY <1>1, <1>2

THEOREM Invariant == Spec => []IInv
<1> QED BY Starts, Step, PTL DEF Spec

\* Every variable keeps its type: the image being served is one of the files
\* and canny.png only holds the edges of a real image (server.cpp 383-424).
THEOREM TypeCorrect == Spec => []TypeOK
<1>1. IInv => TypeOK
  BY DEF IInv
<1> QED BY <1>1, Invariant, PTL

\* Whatever a client that is not the administrator sends, and however reads
\* merge it, the server carries out no update of its (server.cpp 259-293,
\* 330-360, tcp_client.c 31-35).
THEOREM OthersUpdateNothing == Spec => []UpdatesOnlyFromAdmins
<1>1. IInv => UpdatesOnlyFromAdmins
  BY DEF IInv, AuthFirst, UpdatesOnlyFromAdmins
<1> QED BY <1>1, Invariant, PTL

\* The parent never leaves the child stopped to wait for the user's next
\* choice, whatever it read in the child's place (tcp_client.c 500-512).
THEOREM ChildGoesOn == Spec => []StoppedOnlyWhileAsking
<1>1. IInv => StoppedOnlyWhileAsking
  BY DEF IInv
<1> QED BY <1>1, Invariant, PTL

-----------------------------------------------------------------------------
\* What the user gets.  From here on the client is one whose reads took one
\* message each and whose parent read only lists, and the server one whose
\* files were written; the child still reads.
Clean == ~merged /\ ~crossed /\ ~faulted
Live  == Clean /\ child # "ended"

\* A piece of the zip of i's edges, and the first n of them.
Piece(k, i) == [is |-> "piece", n |-> k, of |-> i]
Start(i, n) == [k \in 1..n |-> Piece(k, i)]

\* Nothing of a transfer is on its way to the child or in its hands.
Talk  == Kinds \ {"size", "ready", "piece"}
Quiet == child # "download" /\ \A p \in DOMAIN down : down[p].is \in Talk

\* The messages of a transfer: the size, that it is ready, the pieces.  So many
\* of them have been sent, and the j-th is m.
Sent(i) == IF server = "ready" THEN 1 ELSE IF server = "file" THEN 2 ELSE Pieces[i] + 2

Item(m, j, i) ==
  \/ j = 1 /\ m.is = "size" /\ m.n = 2 * Pieces[i]
  \/ j = 2 /\ m.is = "ready"
  \/ j > 2 /\ m = Piece(j - 2, i)

\* The transfer of image i's zip is behind d messages; when d is negative the
\* child has taken -d of its own.
Transfer(d, i) ==
  /\ server \in {"ready", "file", "idle", "closed"}
  /\ Stem[i] = Stem[job] /\ Stem[job] \in DOMAIN zips /\ zips[Stem[job]] = Content(i)
  /\ job = wanted
  /\ -(Pieces[i] + 2) < d /\ d + Sent(i) <= Len(down)
  /\ server \in {"ready", "file"} => Len(down) = d + Sent(i)
  /\ \A p \in DOMAIN down :
       IF p - d \in 1..Sent(i) THEN Item(down[p], p - d, i) ELSE down[p].is \in Talk
  /\ d <= -1 => size["child"] = 2 * Pieces[i]
  /\ child = "download" <=> d <= -2
  /\ d <= -2 => got["child"] = Start(i, - d - 2)

\* A zip that is kept is the whole zip of an image with that stem.
ZipsOK == \A s \in DOMAIN zips : \E i \in Readable : Stem[i] = s /\ zips[s] = Content(i)

\* The server serves what was selected last, on a connection that is open; on
\* one that is not, it gets nothing.
ServerOK ==
  /\ server \in {"select", "compress", "size", "ready", "file"} => link = "open" /\ job = wanted
  /\ server = "compress" => job \in Readable /\ canny = job /\ Stem[job] \notin DOMAIN zips
  /\ server = "size" => Stem[job] \in DOMAIN zips
  /\ server = "closed" => link # "open"
  /\ link # "open" => up = <<>>

\* There is one transfer at most.
StreamOK ==
  \/ Quiet /\ server \notin {"ready", "file"}
  \/ \E i \in Readable, d \in Int : Transfer(d, i)

\* Requests come one behind the other: a select is alone and finds no transfer
\* under way; a list is the last request, is waited for, and when it is on its
\* way to the parent it is behind everything of a transfer.
AsksOK ==
  /\ \A p \in DOMAIN up :
       /\ up[p].is \in {"auth", "status", "update", "list", "select"}
       /\ up[p].is = "select" => p = 1 /\ up[p].of = wanted /\ server = "idle" /\ Quiet
  /\ parent \in {"menu", "choosing"} =>
       /\ \A p \in DOMAIN up : up[p].is # "list"
       /\ \A p \in DOMAIN down : down[p].is # "list"
  /\ parent = "choosing" => up = <<>> /\ server \in {"idle", "closed"} /\ Quiet
  /\ parent = "asked" =>
       /\ \A p \in DOMAIN up : up[p].is = "list" => p = Len(up)
       /\ \A p \in DOMAIN down : down[p].is = "list" =>
            /\ up = <<>> /\ server \in {"idle", "closed"}
            /\ \A q \in DOMAIN down : q > p => down[q].is \in Talk \ {"list"}

Order == ZipsOK /\ ServerOK /\ StreamOK /\ AsksOK

\* What the processes are receiving; and the parent receives no file unless it
\* has read something else than a list.
GotOK    == got \in [{"parent", "child"} -> Seq(Messages)]
ParentOK == ~crossed => parent # "download"

TransferInv == IInv /\ GotOK /\ ParentOK /\ (Live => Order) /\ ZipIsTheEdges

-----------------------------------------------------------------------------
\* The zip so far and its next piece.
LEMMA NextPiece ==
  ASSUME NEW i, NEW n \in Nat
  PROVE  Start(i, n) \o <<Piece(n + 1, i)>> = Start(i, n + 1)
<1> DEFINE T == {Piece(k, i) : k \in Nat}
           s == Start(i, n) \o <<Piece(n + 1, i)>>
           t == Start(i, n + 1)
<1> SUFFICES s = t
  OBVIOUS
<1>1. Start(i, n) \in Seq(T) /\ Len(Start(i, n)) = n
  BY DEF Start
<1>2. t \in Seq(T) /\ Len(t) = n + 1
  BY DEF Start
<1>3. s \in Seq(T) /\ Len(s) = n + 1
  BY <1>1
<1>4. \A k \in 1..(n + 1) : s[k] = t[k]
  BY <1>1 DEF Start
<1> HIDE DEF s, t, T
<1> QED BY <1>2, <1>3, <1>4

\* Half buffers.
LEMMA StartLength ==
  ASSUME NEW i, NEW n \in Nat
  PROVE  Length(Start(i, n)) = 2 * n
<1> DEFINE s == Start(i, n)
<1>1. Len(s) = n /\ {k \in DOMAIN s : s[k].is = "piece"} = 1..n
  BY DEF Start, Piece
<1>2. Cardinality(1..n) = n
  BY FS_Interval
<1>3. Length(s) = Len(s) + Cardinality({k \in DOMAIN s : s[k].is = "piece"})
  BY DEF Length
<1> HIDE DEF s
<1>4. Length(s) = n + n
  BY <1>1, <1>2, <1>3, Zenon
<1>5. n + n = 2 * n
  OBVIOUS
<1> QED BY <1>4, <1>5, Zenon DEF s

LEMMA WholeZip ==
  ASSUME NEW i \in Readable
  PROVE  /\ Pieces[i] \in Nat /\ Pieces[i] >= 1
         /\ Content(i) = Start(i, Pieces[i])
         /\ Length(Content(i)) = 2 * Pieces[i]
         /\ Len(Content(i)) = Pieces[i]
         /\ \A k \in 1..Pieces[i] : Content(i)[k] = Piece(k, i)
         /\ Content(i) \in Seq(Messages)
<1>1. Pieces[i] \in Nat /\ Pieces[i] >= 1
  BY ImagesAssumption
<1>2. Content(i) = Start(i, Pieces[i])
  BY DEF Content, Start, Piece
<1>3. Len(Content(i)) = Pieces[i] /\ \A k \in 1..Pieces[i] : Content(i)[k] = Piece(k, i)
  BY <1>1 DEF Content, Piece
<1>4. Content(i) \in Seq(Messages)
  BY <1>1, ContentType
<1> QED BY <1>1, <1>2, <1>3, <1>4, StartLength

\* One read that takes one message.
LEMMA RestOfStream ==
  ASSUME NEW T, NEW s \in Seq(T), Len(s) >= 1, NEW t, t = SubSeq(s, 1 + 1, Len(s))
  PROVE  /\ Head(s) = s[1] /\ s[1] \in T /\ SubSeq(s, 1, 1) = <<s[1]>>
         /\ t \in Seq(T) /\ Len(t) = Len(s) - 1
         /\ \A p \in 1..Len(t) : t[p] = s[p + 1]
<1>1. Head(s) = s[1] /\ s[1] \in T
  OBVIOUS
<1>2. t = Tail(s)
  <2>1. s # <<>> /\ 1 + 1 = 2
    OBVIOUS
  <2>2. Tail(s) = SubSeq(s, 2, Len(s))
    BY <2>1, TailIsSubSeq
  <2> QED BY <2>1, <2>2, Zenon
<1>3. t \in Seq(T) /\ Len(t) = Len(s) - 1 /\ \A p \in 1..Len(t) : t[p] = s[p + 1]
  <2>1. /\ Tail(s) \in Seq(T) /\ Len(Tail(s)) = Len(s) - 1
        /\ \A p \in 1..Len(Tail(s)) : Tail(s)[p] = s[p + 1]
    BY s # <<>>, HeadTailProperties
  <2> QED BY <1>2, <2>1, Zenon
<1>4. SubSeq(s, 1, 1) = <<s[1]>>
  <2> DEFINE x == SubSeq(s, 1, 1)
  <2>1. x \in Seq(T) /\ Len(x) = 1 /\ x[1] = s[1]
    OBVIOUS
  <2> SUFFICES x = <<s[1]>>
    OBVIOUS
  <2> HIDE DEF x
  <2> QED BY <2>1
<1> QED BY <1>1, <1>3, <1>4

LEMMA OneRead ==
  ASSUME IInv, NEW k \in 1..MaxMerged, Received(k), ~merged'
  PROVE  /\ k = 1
         /\ down \in Seq(Messages) /\ Len(down) >= 1 /\ Head(down) = down[1]
         /\ down[1] \in Messages
         /\ down' \in Seq(Messages) /\ Len(down') = Len(down) - 1
         /\ \A p \in 1..Len(down') : down'[p] = down[p + 1]
         /\ SubSeq(down, 1, 1) = <<down[1]>>
<1>1. down \in Seq(Messages) /\ Len(down) \in Nat
  BY DEF IInv, StreamsOK
<1>2. ~(k > 1)
  BY Zenon DEF Received
<1>3. k = 1
  BY <1>2, BoundsAssumption
<1>4. 1 <= Len(down) /\ down' = SubSeq(down, 1 + 1, Len(down))
  <2>1. k <= Len(down) /\ down' = SubSeq(down, k + 1, Len(down))
    BY DEF Received
  <2> QED BY <1>3, <2>1, Zenon
<1> QED BY <1>1, <1>3, <1>4, RestOfStream

\* A reply's messages are behind the others.
LEMMA Replied ==
  ASSUME IInv, NEW ms \in Seq(Messages), Reply(ms)
  PROVE  /\ down \in Seq(Messages) /\ down' \in Seq(Messages)
         /\ Len(down') = Len(down) + Len(ms)
         /\ \A p \in 1..Len(down) : down'[p] = down[p]
         /\ \A p \in 1..Len(ms) : down'[Len(down) + p] = ms[p]
BY DEF IInv, StreamsOK, Reply

-----------------------------------------------------------------------------
\* When nothing moves, the parent may end, or have nothing to wait for.
LEMMA NothingMoves ==
  ASSUME Order, UNCHANGED <<child, size, got, wanted, up, down, server, job, canny, zips>>,
         link' = "open" <=> link = "open",
         \/ parent' \in {parent, "ended"}
         \/ parent' = "menu" /\ up = <<>> /\ down = <<>>
  PROVE  Order'
<1>1. Quiet' = Quiet
  BY DEF Quiet
<1>2. \A i \in Readable, d \in Int : Transfer(d, i)' = Transfer(d, i)
  BY DEF Transfer, Sent
<1>3. StreamOK'
  BY <1>1, <1>2 DEF Order, StreamOK
<1>4. AsksOK'
  <2>1. CASE parent' \in {parent, "ended"}
    BY <1>1, <2>1 DEF Order, AsksOK
  <2>2. CASE parent' = "menu" /\ up = <<>> /\ down = <<>>
    <3>1. \A p \in DOMAIN <<>> : FALSE
      OBVIOUS
    <3> QED BY <2>2, <3>1 DEF AsksOK
  <2> QED BY <2>1, <2>2
<1>5. ZipsOK' /\ ServerOK'
  BY DEF Order, ZipsOK, ServerOK
<1> QED BY <1>3, <1>4, <1>5 DEF Order

\* The child reads a message.
LEMMA ChildReading ==
  ASSUME TransferInv, ChildReads, Live'
  PROVE  Order'
<1>1. Live /\ Order
  <2>1. child = "reading" /\ UNCHANGED <<crossed, faulted>>
    BY DEF ChildReads
  <2>2. merged' = merged \/ \E k \in 1..MaxMerged : merged' = (merged \/ k > 1)
    BY Zenon DEF ChildReads, Received
  <2>3. ~merged
    BY <2>2, Zenon DEF Live, Clean
  <2> QED BY <2>1, <2>3 DEF TransferInv, Live, Clean
<1>0. CASE Fails
  <2>1. ~AtEnd /\ \A k \in 1..MaxMerged : ~Received(k)
    <3>1. \A k \in 1..MaxMerged : ~(k <= Len(<<>>))
      BY BoundsAssumption
    <3> QED BY <1>0, <3>1 DEF Fails, AtEnd, Received
  <2>2. UNCHANGED <<parent, child, size, got, wanted, up, down, server, job, canny, zips>>
    BY <2>1, Zenon DEF ChildReads, host, disk
  <2> QED BY <1>0, <1>1, <2>2, NothingMoves DEF Fails
<1> SUFFICES ASSUME ~Fails PROVE Order'
  BY <1>0
<1>2. PICK k \in 1..MaxMerged : Received(k)
  BY DEF ChildReads, Live
<1> DEFINE m == Head(down)
<1>3. /\ child = "reading"
      /\ child' = (IF m.is = "ready" THEN "download" ELSE "reading")
      /\ parent' = parent
      /\ size' = IF m.is = "size" THEN [size EXCEPT !.child = m.n] ELSE size
      /\ got' = IF m.is = "ready" THEN [got EXCEPT !.child = <<>>] ELSE got
      /\ UNCHANGED <<wanted, link, up, server, job, canny, zips>>
  BY <1>2 DEF ChildReads, Live, AtEnd, Fails, Received, host, disk
<1>4. /\ down \in Seq(Messages) /\ Len(down) >= 1 /\ m = down[1]
      /\ m \in Messages
      /\ down' \in Seq(Messages) /\ Len(down') = Len(down) - 1
      /\ \A p \in 1..Len(down') : down'[p] = down[p + 1]
  BY <1>2, OneRead DEF TransferInv, Live, Clean
<1> HIDE DEF m
<1>5. /\ Len(down) \in Nat /\ Len(down') \in Nat
      /\ DOMAIN down = 1..Len(down) /\ DOMAIN down' = 1..Len(down')
  BY <1>4
<1>6. Quiet => Quiet' /\ m.is \in Talk
  BY <1>3, <1>4, <1>5 DEF Quiet, Talk
<1>7. StreamOK'
  <2>1. CASE Quiet /\ server \notin {"ready", "file"}
    BY <1>3, <1>6, <2>1 DEF StreamOK
  <2>2. ASSUME NEW i \in Readable, NEW d \in Int, Transfer(d, i) PROVE Transfer(d - 1, i)'
    <3>1. Pieces[i] \in Nat /\ Pieces[i] >= 1
      BY WholeZip
    <3>2. d >= -1
      BY <1>3, <2>2 DEF Transfer
    <3>3. Sent(i)' = Sent(i) /\ Sent(i) \in 1..(Pieces[i] + 2)
      BY <1>3, <3>1 DEF Sent
    <3>4. IF 1 - d \in 1..Sent(i) THEN Item(m, 1 - d, i) ELSE m.is \in Talk
      BY <1>4, <1>5, <2>2 DEF Transfer
    <3>5. /\ -(Pieces[i] + 2) < d - 1 /\ (d - 1) + Sent(i) <= Len(down')
          /\ server \in {"ready", "file"} => Len(down') = (d - 1) + Sent(i)
      BY <1>4, <1>5, <2>2, <3>1, <3>2, <3>3 DEF Transfer
    <3>6. \A p \in DOMAIN down' :
            IF p - (d - 1) \in 1..Sent(i) THEN Item(down'[p], p - (d - 1), i)
                                          ELSE down'[p].is \in Talk
      <4> SUFFICES ASSUME NEW p \in 1..Len(down')
                   PROVE  IF p - (d - 1) \in 1..Sent(i) THEN Item(down'[p], p - (d - 1), i)
                                                        ELSE down'[p].is \in Talk
        BY <1>5
      <4>1. p + 1 \in DOMAIN down /\ (p + 1) - d = p - (d - 1) /\ down'[p] = down[p + 1]
        BY <1>4, <1>5
      <4>2. IF (p + 1) - d \in 1..Sent(i) THEN Item(down[p + 1], (p + 1) - d, i)
                                          ELSE down[p + 1].is \in Talk
        BY <2>2, <4>1 DEF Transfer
      <4> QED BY <4>1, <4>2
    <3>7. /\ d - 1 <= -1 => size'["child"] = 2 * Pieces[i]
          /\ child' = "download" <=> d - 1 <= -2
          /\ d - 1 <= -2 => got'["child"] = Start(i, - (d - 1) - 2)
      <4>1. CASE d >= 1
        <5>1. m.is \in Talk
          BY <3>3, <3>4, <4>1
        <5> QED BY <1>3, <4>1, <5>1 DEF Talk
      <4>2. CASE d = 0
        <5>1. 1 - d = 1 /\ 1 \in 1..Sent(i)
          BY <3>3, <4>2
        <5>2. m.is = "size" /\ m.n = 2 * Pieces[i]
          BY <3>4, <5>1 DEF Item
        <5>3. size'["child"] = m.n
          BY <1>3, <5>2 DEF TransferInv, IInv, TypeOK
        <5> QED BY <1>3, <4>2, <5>2, <5>3
      <4>3. CASE d = -1
        <5>1. 1 - d = 2 /\ 2 \in 1..Sent(i)
          BY <1>4, <1>5, <2>2, <3>1, <3>3, <4>3 DEF Transfer, Sent
        <5>2. m.is = "ready"
          BY <3>4, <5>1 DEF Item
        <5>3. got'["child"] = <<>>
          BY <1>3, <5>2 DEF TransferInv, GotOK
        <5>4. Start(i, - (d - 1) - 2) = <<>>
          BY <4>3 DEF Start
        <5>5. size'["child"] = 2 * Pieces[i]
          BY <1>3, <2>2, <4>3, <5>2 DEF Transfer
        <5> QED BY <1>3, <4>3, <5>2, <5>3, <5>4, <5>5
      <4> QED BY <3>2, <4>1, <4>2, <4>3
    <3> QED BY <1>3, <2>2, <3>3, <3>5, <3>6, <3>7 DEF Transfer
  <2> QED BY <1>1, <2>1, <2>2 DEF Order, StreamOK
<1>8. AsksOK'
  <2>1. \A p \in DOMAIN down' : p + 1 \in DOMAIN down /\ down'[p] = down[p + 1]
    BY <1>4, <1>5
  <2>2. \A p, q \in DOMAIN down' : q > p => q + 1 > p + 1
    BY <1>5
  <2>3. AsksOK
    BY <1>1 DEF Order
  <2> QED BY <1>3, <1>6, <2>1, <2>2, <2>3 DEF AsksOK
<1>9. ZipsOK' /\ ServerOK'
  BY <1>1, <1>3 DEF Order, ZipsOK, ServerOK
<1> QED BY <1>7, <1>8, <1>9 DEF Order

\* The child takes a piece of the zip; with the last one it has them all.
LEMMA ChildDownloading ==
  ASSUME TransferInv, ChildDownloads, Live'
  PROVE  Order' /\ ZipIsTheEdges'
<1>1. Live /\ Order
  <2>1. child = "download" /\ UNCHANGED <<crossed, faulted>>
    BY DEF ChildDownloads
  <2>2. merged' = merged \/ \E k \in 1..MaxMerged : merged' = (merged \/ k > 1)
    BY Zenon DEF ChildDownloads, Download, Received
  <2>3. ~merged
    BY <2>2, Zenon DEF Live, Clean
  <2> QED BY <2>1, <2>3 DEF TransferInv, Live, Clean
<1>2. child = "download" /\ UNCHANGED <<parent, size, wanted, up, server, job, canny, zips>>
  BY DEF ChildDownloads, host, disk
<1>3. PICK i \in Readable, d \in Int : Transfer(d, i)
  BY <1>1, <1>2 DEF Order, StreamOK, Quiet
<1>4. Pieces[i] \in Nat /\ Pieces[i] >= 1 /\ Content(i) = Start(i, Pieces[i])
  BY WholeZip
<1>5. d <= -2 /\ -(Pieces[i] + 2) < d /\ d + Sent(i) <= Len(down)
  BY <1>2, <1>3 DEF Transfer
<1>6. Len(down) \in Nat /\ down \in Seq(Messages) /\ DOMAIN down = 1..Len(down)
  BY DEF TransferInv, IInv, StreamsOK
\* The stream ends with no piece missing.
<1>7. ~AtEnd /\ ~Fails /\ down # <<>>
  <2> SUFFICES ASSUME AtEnd \/ Fails \/ down = <<>> PROVE FALSE
    OBVIOUS
  <2>1. Len(down) = 0 /\ link # "open"
    BY DEF AtEnd, Fails, ChildDownloads, Download, Received
  <2>2. server \notin {"ready", "file"}
    BY <1>1, <2>1 DEF Order, ServerOK
  <2>3. Sent(i) = Pieces[i] + 2
    BY <2>2 DEF Sent
  <2> QED BY <1>4, <1>5, <2>1, <2>3
<1>8. PICK k \in 1..MaxMerged :
        Received(k) /\ got' = [got EXCEPT !["child"] = @ \o SubSeq(down, 1, k)]
  BY <1>7 DEF ChildDownloads, Download
<1> DEFINE m == down[1]
           n == - d - 2
<1>9. /\ k = 1 /\ Len(down) >= 1
      /\ down' \in Seq(Messages) /\ Len(down') = Len(down) - 1
      /\ \A p \in 1..Len(down') : down'[p] = down[p + 1]
      /\ SubSeq(down, 1, 1) = <<m>>
  BY <1>8, OneRead DEF TransferInv, Live, Clean
<1>10. DOMAIN down' = 1..Len(down') /\ Len(down') \in Nat
  BY <1>6, <1>9
\* Everything has been sent.
<1>11. server \in {"idle", "closed"} /\ Sent(i) = Pieces[i] + 2 /\ Sent(i)' = Sent(i)
  <2>1. server \notin {"ready", "file"}
    <3>1. server \in {"ready", "file"} => Len(down) = d + Sent(i) /\ Sent(i) \in {1, 2}
      BY <1>3 DEF Transfer, Sent
    <3> QED BY <1>5, <1>6, <1>9, <3>1
  <2> QED BY <1>2, <1>3, <2>1 DEF Sent, Transfer
<1>12. m = Piece(n + 1, i)
  <2>1. 1 \in DOMAIN down
    BY <1>6, <1>9
  <2>2. 1 - d \in 1..(Pieces[i] + 2) /\ 1 - d > 2 /\ (1 - d) - 2 = n + 1
    BY <1>4, <1>5
  <2>3. 1 - d \in 1..Sent(i)
    BY <1>11, <2>2
  <2>4. Item(down[1], 1 - d, i)
    BY <1>3, <2>1, <2>3 DEF Transfer
  <2>5. m = Piece((1 - d) - 2, i)
    BY <2>2, <2>4 DEF Item
  <2> QED BY <2>2, <2>5
<1>13. n \in Nat /\ n + 1 = - (d - 1) - 2
  BY <1>5
<1>14. got'["child"] = Start(i, n + 1)
  <2>1. got["child"] = Start(i, n)
    BY <1>3, <1>5 DEF Transfer
  <2>2. got'["child"] = got["child"] \o SubSeq(down, 1, 1)
    BY <1>8, <1>9 DEF TransferInv, GotOK
  <2> HIDE DEF m, n
  <2>3. got'["child"] = Start(i, n) \o <<Piece(n + 1, i)>>
    BY <1>9, <1>12, <2>1, <2>2, Zenon
  <2> QED BY <1>13, <2>3, NextPiece
<1>15. Length(got'["child"]) = 2 * (n + 1) /\ size["child"] = 2 * Pieces[i]
  <2>1. Length(Start(i, n + 1)) = 2 * (n + 1)
    BY <1>13, StartLength
  <2> QED BY <1>3, <1>5, <1>14, <2>1 DEF Transfer
<1>16. Length(got'["child"]) >= size["child"] <=> n + 1 = Pieces[i]
  <2>1. n + 1 <= Pieces[i]
    BY <1>4, <1>5
  <2> HIDE DEF n
  <2> QED BY <1>4, <1>13, <1>15, <2>1
<1>17. /\ child' = (IF n + 1 = Pieces[i] THEN "reading" ELSE "download")
       /\ file' = (IF n + 1 = Pieces[i] THEN [data |-> got'["child"], for |-> wanted] ELSE file)
  BY <1>2, <1>7, <1>16 DEF ChildDownloads, Download, Downloaded
<1>18. \A p \in DOMAIN down' :
         IF p - (d - 1) \in 1..Sent(i) THEN Item(down'[p], p - (d - 1), i)
                                       ELSE down'[p].is \in Talk
  <2> SUFFICES ASSUME NEW p \in 1..Len(down')
               PROVE  IF p - (d - 1) \in 1..Sent(i) THEN Item(down'[p], p - (d - 1), i)
                                                    ELSE down'[p].is \in Talk
    BY <1>10
  <2>1. p + 1 \in DOMAIN down /\ (p + 1) - d = p - (d - 1) /\ down'[p] = down[p + 1]
    BY <1>6, <1>9, <1>10
  <2>2. IF (p + 1) - d \in 1..Sent(i) THEN Item(down[p + 1], (p + 1) - d, i)
                                      ELSE down[p + 1].is \in Talk
    BY <1>3, <2>1 DEF Transfer
  <2> QED BY <2>1, <2>2
<1>19. StreamOK'
  <2>1. CASE n + 1 = Pieces[i]
    <3>1. \A p \in DOMAIN down' : p - (d - 1) \notin 1..Sent(i)
      BY <1>4, <1>10, <1>11, <2>1
    <3>2. Quiet'
      BY <1>17, <1>18, <2>1, <3>1 DEF Quiet
    <3> QED BY <1>2, <1>11, <3>2 DEF StreamOK
  <2>2. CASE n + 1 # Pieces[i]
    <3>1. -(Pieces[i] + 2) < d - 1 /\ (d - 1) + Sent(i) <= Len(down')
      <4>1. -(Pieces[i] + 2) < d - 1
        BY <1>4, <1>5, <2>2
      <4>2. d + Sent(i) <= Len(down) /\ Sent(i) \in Nat /\ Len(down') = Len(down) - 1
        BY <1>4, <1>5, <1>9, <1>11
      <4> QED BY <1>6, <4>1, <4>2
    <3>2. Transfer(d - 1, i)'
      BY <1>2, <1>3, <1>5, <1>11, <1>13, <1>14, <1>15, <1>17, <1>18, <2>2, <3>1 DEF Transfer
    <3> QED BY <3>2 DEF StreamOK
  <2> QED BY <2>1, <2>2
<1>20. AsksOK'
  <2>1. \A p \in DOMAIN down' : p + 1 \in DOMAIN down /\ down'[p] = down[p + 1]
    BY <1>6, <1>9, <1>10
  <2>2. \A p, q \in DOMAIN down' : q > p => q + 1 > p + 1
    BY <1>10
  <2>3. AsksOK /\ ~Quiet
    BY <1>1, <1>2 DEF Order, Quiet
  <2> QED BY <1>2, <2>1, <2>2, <2>3 DEF AsksOK
<1>21. ZipsOK' /\ ServerOK'
  <2>1. link' = link
    BY <1>7 DEF ChildDownloads, Download
  <2> QED BY <1>1, <1>2, <2>1 DEF Order, ZipsOK, ServerOK
<1>22. ZipIsTheEdges'
  <2>1. CASE n + 1 = Pieces[i]
    <3>1. file'.data = Content(i) /\ file'.for = wanted
      BY <1>4, <1>14, <1>17, <2>1
    <3>2. Stem[i] = Stem[wanted]
      BY <1>3 DEF Transfer
    <3> QED BY <3>1, <3>2 DEF ZipIsTheEdges
  <2>2. CASE n + 1 # Pieces[i]
    BY <1>1, <1>17, <2>2 DEF TransferInv, ZipIsTheEdges, Live, Clean
  <2> QED BY <2>1, <2>2
<1> QED BY <1>19, <1>20, <1>21, <1>22 DEF Order

\* The parent reads the list: what came before it has been read, so nothing of
\* a transfer is under way.
LEMMA ParentReading ==
  ASSUME TransferInv, Parent, Live'
  PROVE  Order'
<1>1. Live /\ Order
  <2>1. child' = child /\ faulted' = faulted
    BY DEF Parent, ParentReads, ParentDownloads
  <2>2. merged' = merged \/ \E k \in 1..MaxMerged : merged' = (merged \/ k > 1)
    BY Zenon DEF Parent, ParentReads, ParentDownloads, Download, Received
  <2>3. ~merged
    BY <2>2, Zenon DEF Live, Clean
  <2>4. crossed' = crossed \/ \E b : crossed' = (crossed \/ b)
    BY Zenon DEF Parent, ParentReads, ParentDownloads
  <2>5. ~crossed
    BY <2>4, Zenon DEF Live, Clean
  <2> QED BY <2>1, <2>3, <2>5 DEF TransferInv, Live, Clean
<1>2. ParentReads
  BY <1>1 DEF Parent, ParentDownloads, TransferInv, ParentOK, Live, Clean
<1>3. parent = "asked" /\ UNCHANGED <<child, wanted, up, server, job, canny, zips>>
  BY <1>2 DEF ParentReads, host, disk
<1>4. CASE AtEnd /\ parent' = "ended" /\ UNCHANGED <<size, got, link, down>>
  BY <1>1, <1>3, <1>4, NothingMoves
<1>6. CASE Fails /\ parent' = "menu" /\ UNCHANGED <<size, got, down>>
  <2>1. up = <<>> /\ down = <<>>
    BY <1>1, <1>6 DEF Fails, Order, ServerOK
  <2> QED BY <1>1, <1>3, <1>6, <2>1, NothingMoves DEF Fails
<1>5. CASE UNCHANGED link /\ \E k \in 1..MaxMerged : Received(k)
  <2>1. PICK k \in 1..MaxMerged : Received(k)
    BY <1>5
  <2>2. ~AtEnd /\ ~Fails
    <3>1. down \in Seq(Messages) /\ Len(down) >= 1
      BY <2>1, OneRead DEF TransferInv, Live, Clean
    <3> QED BY <3>1 DEF AtEnd, Fails
  <2> DEFINE m == Head(down)
  <2>3. /\ down \in Seq(Messages) /\ Len(down) >= 1 /\ m = down[1]
        /\ down' \in Seq(Messages) /\ Len(down') = Len(down) - 1
        /\ \A p \in 1..Len(down') : down'[p] = down[p + 1]
    BY <2>1, OneRead DEF TransferInv, Live, Clean
  <2>4. m.is = "list"
    BY <1>2, <2>2, Zenon DEF ParentReads, Live, Clean
  <2>5. parent' = "choosing" /\ got' = got /\ size' = size
    BY <1>2, <2>2, <2>4 DEF ParentReads
  <2> HIDE DEF m
  <2>6. /\ Len(down) \in Nat /\ Len(down') \in Nat
        /\ DOMAIN down = 1..Len(down) /\ DOMAIN down' = 1..Len(down')
    BY <2>3
  <2>7. /\ up = <<>> /\ server \in {"idle", "closed"}
        /\ \A q \in 1..Len(down) : q > 1 => down[q].is \in Talk \ {"list"}
    <3>1. 1 \in DOMAIN down /\ down[1].is = "list"
      BY <2>3, <2>4, <2>6
    <3> QED BY <1>1, <1>3, <2>6, <3>1 DEF Order, AsksOK
  <2>8. \A q \in 1..Len(down) : down[q].is \in Talk
    BY <2>3, <2>4, <2>7 DEF Talk, Kinds
  <2>9. Quiet
    <3> SUFFICES ASSUME ~Quiet PROVE FALSE
      OBVIOUS
    <3>1. PICK i \in Readable, d \in Int : Transfer(d, i)
      BY <1>1 DEF Order, StreamOK
    <3>2. Pieces[i] \in Nat /\ Pieces[i] >= 1
      BY WholeZip
    <3>3. Sent(i) = Pieces[i] + 2
      BY <2>7 DEF Sent
    <3>4. -(Pieces[i] + 2) < d /\ d + (Pieces[i] + 2) <= Len(down)
      BY <3>1, <3>3 DEF Transfer
    <3> DEFINE q == d + (Pieces[i] + 2)
    <3>5. q \in 1..Len(down) /\ q - d = Pieces[i] + 2 /\ q - d \in 1..(Pieces[i] + 2) /\ q - d > 2
      <4>1. q \in Int /\ q >= 1 /\ q <= Len(down)
        BY <2>6, <3>2, <3>4
      <4>2. q - d = Pieces[i] + 2
        BY <3>2
      <4>3. Pieces[i] + 2 \in 1..(Pieces[i] + 2) /\ Pieces[i] + 2 > 2
        BY <3>2
      <4> HIDE DEF q
      <4> QED BY <2>6, <4>1, <4>2, <4>3
    <3> HIDE DEF q
    <3>6. Item(down[q], q - d, i)
      BY <2>6, <3>1, <3>3, <3>5 DEF Transfer
    <3>7. down[q].is = "piece"
      BY <3>5, <3>6 DEF Item, Piece
    <3> QED BY <2>8, <3>5, <3>7 DEF Talk
  <2>10. Quiet' /\ \A p \in DOMAIN down' : down'[p].is # "list"
    <3>1. \A p \in 1..Len(down') : p + 1 \in 1..Len(down) /\ p + 1 > 1
      BY <2>3, <2>6
    <3>2. \A p \in 1..Len(down') : down'[p].is \in Talk \ {"list"}
      BY <2>3, <2>7, <3>1
    <3> QED BY <1>3, <2>6, <2>9, <3>2 DEF Quiet
  <2>11. up' = <<>> /\ DOMAIN up' = {}
    BY <1>3, <2>7
  <2>12. StreamOK' /\ AsksOK'
    BY <1>3, <2>5, <2>7, <2>10, <2>11 DEF StreamOK, AsksOK
  <2>13. ZipsOK' /\ ServerOK'
    BY <1>1, <1>3, <1>5 DEF Order, ZipsOK, ServerOK
  <2> QED BY <2>12, <2>13 DEF Order
<1> QED BY <1>2, <1>4, <1>5, <1>6 DEF ParentReads

\* What is sent is behind the rest, or nowhere.
LEMMA SentLast ==
  ASSUME IInv, NEW m \in Messages, NEW next, Send(m, next)
  PROVE  /\ parent' \in {"ended", next}
         /\ link' = "open" <=> link = "open"
         /\ link # "open" => up' = up
         /\ \/ up' = up
            \/ /\ Len(up) \in Nat /\ Len(up') = Len(up) + 1
               /\ DOMAIN up = 1..Len(up) /\ DOMAIN up' = 1..(Len(up) + 1)
               /\ \A p \in 1..Len(up) : up'[p] = up[p]
               /\ up'[Len(up) + 1] = m
<1>1. up \in Seq(Messages)
  BY DEF IInv, StreamsOK
<1>2. /\ parent' \in {"ended", next} /\ (link' = "open" <=> link = "open")
      /\ link # "open" => up' = up
  BY DEF Send
<1>3. CASE up' = up
  BY <1>2, <1>3
<1>4. CASE up' = Append(up, m)
  <2>1. /\ Append(up, m) \in Seq(Messages)
        /\ Len(Append(up, m)) = Len(up) + 1
        /\ \A p \in 1..Len(up) : Append(up, m)[p] = up[p]
        /\ Append(up, m)[Len(up) + 1] = m
    BY <1>1, AppendProperties
  <2>2. Len(up) \in Nat /\ DOMAIN up = 1..Len(up)
    BY <1>1
  <2>3. DOMAIN Append(up, m) = 1..Len(Append(up, m))
    BY <2>1
  <2> QED BY <1>2, <1>4, <2>1, <2>2, <2>3, Zenon
<1> QED BY <1>3, <1>4 DEF Send

\* The user asks for the list from the menu only and selects from a list only.
LEMMA UserAsking ==
  ASSUME TransferInv, User \/ HangUp, Live'
  PROVE  Order'
<1>1. UNCHANGED <<down, server, job, zips, canny, size, got, merged, crossed, faulted>>
  BY DEF User, HangUp, Ask, AskForImages, Choose, Exit, Interrupt, stream, ghosts, host, disk
<1>2. child' = child
  BY DEF User, HangUp, Ask, AskForImages, Choose, Exit, Interrupt, Live
<1>3. Live /\ Order
  BY <1>1, <1>2 DEF TransferInv, Live, Clean
<1>4. Quiet' = Quiet
  BY <1>1, <1>2 DEF Quiet
<1>5. ASSUME wanted' = wanted, link' = "open" <=> link = "open", link # "open" => up' = up
      PROVE  StreamOK' /\ ServerOK'
  <2>1. \A i \in Readable, d \in Int : Transfer(d, i)' = Transfer(d, i)
    BY <1>1, <1>2, <1>5 DEF Transfer, Sent
  <2>2. StreamOK'
    BY <1>1, <1>3, <1>4, <2>1 DEF Order, StreamOK
  <2>3. ServerOK'
    BY <1>1, <1>3, <1>5 DEF Order, ServerOK
  <2> QED BY <2>2, <2>3
<1>6. ZipsOK'
  BY <1>1, <1>3 DEF Order, ZipsOK
<1>7. AsksOK
  BY <1>3 DEF Order
<1>8. CASE Ask
  <2>1. PICK is \in {"status", "update"} : Send(Message(is), "menu")
    BY <1>8 DEF Ask
  <2>2. Message(is) \in Messages /\ Message(is).is = is
    BY MessageType DEF Message, Kinds
  <2> DEFINE m == Message(is)
  <2>3. /\ parent' \in {"ended", "menu"}
        /\ link' = "open" <=> link = "open"
        /\ link # "open" => up' = up
        /\ \/ up' = up
           \/ /\ Len(up) \in Nat /\ Len(up') = Len(up) + 1
              /\ DOMAIN up = 1..Len(up) /\ DOMAIN up' = 1..(Len(up) + 1)
              /\ \A p \in 1..Len(up) : up'[p] = up[p]
              /\ up'[Len(up) + 1] = m
    BY <2>1, <2>2, SentLast DEF TransferInv
  <2>4. m.is \in {"status", "update"} /\ parent = "menu" /\ wanted' = wanted
    BY <1>8, <2>2 DEF Ask
  <2> HIDE DEF m
  <2>5. \A p \in DOMAIN up' : \/ p \in DOMAIN up /\ up'[p] = up[p]
                              \/ up'[p].is \in {"status", "update"}
    BY <2>3, <2>4
  <2>6. AsksOK'
    BY <1>1, <1>4, <1>7, <2>3, <2>4, <2>5 DEF AsksOK
  <2> QED BY <1>5, <1>6, <2>3, <2>4, <2>6 DEF Order
<1>9. CASE AskForImages
  <2>1. Send(Message("list"), "asked") /\ parent = "menu" /\ wanted' = wanted
    BY <1>9 DEF AskForImages
  <2>2. Message("list") \in Messages /\ Message("list").is = "list"
    BY MessageType DEF Message, Kinds
  <2> DEFINE m == Message("list")
  <2>3. /\ parent' \in {"ended", "asked"}
        /\ link' = "open" <=> link = "open"
        /\ link # "open" => up' = up
        /\ \/ up' = up
           \/ /\ Len(up) \in Nat /\ Len(up') = Len(up) + 1
              /\ DOMAIN up = 1..Len(up) /\ DOMAIN up' = 1..(Len(up) + 1)
              /\ \A p \in 1..Len(up) : up'[p] = up[p]
              /\ up'[Len(up) + 1] = m
    BY <2>1, <2>2, SentLast DEF TransferInv
  <2>4. m.is = "list"
    BY <2>2
  <2> HIDE DEF m
  <2>5. \A p \in DOMAIN up' : \/ p \in DOMAIN up /\ up'[p] = up[p]
                              \/ up'[p].is = "list" /\ p = Len(up')
    BY <2>3, <2>4
  <2>6. AsksOK'
    BY <1>1, <1>4, <1>7, <2>1, <2>3, <2>5 DEF AsksOK
  <2> QED BY <1>5, <1>6, <2>1, <2>3, <2>6 DEF Order
<1>10. CASE Choose
  <2>1. parent = "choosing" /\ up = <<>> /\ server \in {"idle", "closed"} /\ Quiet
    BY <1>7, <1>10 DEF Choose, AsksOK
  <2>2. ASSUME NEW i \in Images, Send([is |-> "select", n |-> 0, of |-> i], "menu"), wanted' = i
        PROVE  AsksOK'
    <3> DEFINE m == [is |-> "select", n |-> 0, of |-> i]
    <3>1. m \in Messages
      BY MessageType DEF Kinds
    <3>2. /\ parent' \in {"ended", "menu"}
          /\ \/ up' = up
             \/ /\ Len(up') = Len(up) + 1
                /\ DOMAIN up' = 1..(Len(up) + 1)
                /\ up'[Len(up) + 1] = m
      BY <2>2, <3>1, SentLast DEF TransferInv
    <3>3. Len(up) = 0 /\ DOMAIN up = {} /\ 1..(0 + 1) = {1}
      BY <2>1
    <3>4. m.is = "select" /\ m.of = wanted'
      BY <2>2
    <3> HIDE DEF m
    <3>5. \A p \in DOMAIN up' : p = 1 /\ up'[p] = m
      BY <3>2, <3>3
    <3>6. (\E p \in DOMAIN up' : TRUE) => server = "idle"
      <4>1. up' # up => link = "open"
        BY <2>2 DEF Send
      <4>2. server = "closed" => link # "open"
        BY <1>3 DEF Order, ServerOK
      <4> QED BY <2>1, <3>3, <4>1, <4>2
    <3>7. \A p \in DOMAIN down : down[p].is # "list"
      BY <1>7, <2>1 DEF AsksOK
    <3> QED BY <1>1, <1>4, <2>1, <3>2, <3>4, <3>5, <3>6, <3>7 DEF AsksOK
  <2>3. CASE parent' = "menu" /\ UNCHANGED <<wanted, link, up, requests>>
    <3>1. AsksOK'
      BY <1>1, <1>4, <1>7, <2>1, <2>3 DEF AsksOK
    <3> QED BY <1>5, <1>6, <2>3, <3>1 DEF Order
  <2>4. StreamOK' /\ ServerOK'
    <3>1. link # "open" => link' # "open" /\ up' = up
      BY <1>10 DEF Choose, Send
    <3>3. link' # "open" => link # "open"
      BY <1>10 DEF Choose, Send
    <3>2. server = "closed" => link # "open"
      BY <1>3 DEF Order, ServerOK
    <3> QED BY <1>1, <1>4, <2>1, <3>1, <3>2, <3>3 DEF StreamOK, ServerOK
  <2> QED BY <1>6, <1>10, <2>2, <2>3, <2>4 DEF Choose, Order
<1>11. CASE Exit \/ Interrupt \/ HangUp
  <2>1. UNCHANGED <<wanted, link, up>> /\ parent' \in {parent, "ended"}
    BY <1>11 DEF Exit, Interrupt, HangUp, stream
  <2>2. AsksOK'
    BY <1>1, <1>4, <1>7, <2>1 DEF AsksOK
  <2> QED BY <1>5, <1>6, <2>1, <2>2 DEF Order
<1> QED BY <1>8, <1>9, <1>10, <1>11 DEF User

-----------------------------------------------------------------------------
\* Between requests the server only talks, behind what it has sent.
LEMMA Talking ==
  ASSUME TransferInv, StreamOK, server = "idle", server' \in {"idle", "closed"},
         NEW ms \in Seq(Messages), \A p \in DOMAIN ms : ms[p].is \in Talk, Reply(ms),
         UNCHANGED <<child, size, got, wanted, job, zips>>
  PROVE  StreamOK' /\ (Quiet => Quiet')
<1>1. /\ down \in Seq(Messages) /\ down' \in Seq(Messages)
      /\ Len(down') = Len(down) + Len(ms)
      /\ \A p \in 1..Len(down) : down'[p] = down[p]
      /\ \A p \in 1..Len(ms) : down'[Len(down) + p] = ms[p]
  BY Replied DEF TransferInv
<1>2. /\ Len(down) \in Nat /\ Len(ms) \in Nat
      /\ DOMAIN down = 1..Len(down) /\ DOMAIN ms = 1..Len(ms) /\ DOMAIN down' = 1..Len(down')
  BY <1>1
<1>3. ASSUME NEW p \in DOMAIN down', p \notin DOMAIN down
      PROVE  p > Len(down) /\ down'[p].is \in Talk
  <2>1. p > Len(down) /\ p - Len(down) \in 1..Len(ms) /\ Len(down) + (p - Len(down)) = p
    BY <1>1, <1>2, <1>3
  <2> QED BY <1>1, <1>2, <2>1
<1>4. \A p \in DOMAIN down : p \in DOMAIN down' /\ down'[p] = down[p] /\ p <= Len(down)
  BY <1>1, <1>2
<1>5. Quiet => Quiet'
  BY <1>3, <1>4 DEF Quiet
<1>6. ASSUME NEW i \in Readable, NEW d \in Int, Transfer(d, i) PROVE Transfer(d, i)'
  <2>1. Pieces[i] \in Nat
    BY WholeZip
  <2>2. Sent(i) = Pieces[i] + 2 /\ Sent(i)' = Pieces[i] + 2
    BY DEF Sent
  <2>3. d + (Pieces[i] + 2) <= Len(down)
    BY <1>6, <2>2 DEF Transfer
  <2>4. d + (Pieces[i] + 2) <= Len(down')
    BY <1>1, <1>2, <2>1, <2>3
  <2>5. \A p \in DOMAIN down' :
          IF p - d \in 1..(Pieces[i] + 2) THEN Item(down'[p], p - d, i) ELSE down'[p].is \in Talk
    <3> SUFFICES ASSUME NEW p \in DOMAIN down'
                 PROVE  IF p - d \in 1..(Pieces[i] + 2) THEN Item(down'[p], p - d, i)
                                                        ELSE down'[p].is \in Talk
      OBVIOUS
    <3>1. CASE p \in DOMAIN down
      <4>1. down'[p] = down[p]
        BY <1>4, <3>1
      <4>2. IF p - d \in 1..(Pieces[i] + 2) THEN Item(down[p], p - d, i)
                                            ELSE down[p].is \in Talk
        BY <1>6, <2>2, <3>1 DEF Transfer
      <4> QED BY <4>1, <4>2
    <3>2. CASE p \notin DOMAIN down
      <4>1. p \in Int /\ p > Len(down)
        BY <1>2, <1>3, <3>2
      <4>2. p - d \notin 1..(Pieces[i] + 2)
        BY <1>2, <2>1, <2>3, <4>1
      <4> QED BY <1>3, <3>2, <4>2
    <3> QED BY <3>1, <3>2
  <2> QED BY <1>6, <2>2, <2>4, <2>5 DEF Transfer
<1> QED BY <1>5, <1>6 DEF StreamOK

\* A list that is on its way stays behind everything of a transfer when more,
\* but no second list, comes behind it.
LEMMA ListStays ==
  ASSUME TransferInv, AsksOK, parent = "asked", up = <<>>, server = "idle",
         server' \in {"idle", "closed"}, up' = <<>>,
         NEW ms \in Seq(Messages), \A p \in DOMAIN ms : ms[p].is \in Talk \ {"list"}, Reply(ms)
  PROVE  \A p \in DOMAIN down' : down'[p].is = "list" =>
           /\ up' = <<>> /\ server' \in {"idle", "closed"}
           /\ \A q \in DOMAIN down' : q > p => down'[q].is \in Talk \ {"list"}
<1>1. /\ down \in Seq(Messages) /\ down' \in Seq(Messages)
      /\ Len(down') = Len(down) + Len(ms)
      /\ \A p \in 1..Len(down) : down'[p] = down[p]
      /\ \A p \in 1..Len(ms) : down'[Len(down) + p] = ms[p]
  BY Replied DEF TransferInv
<1>2. /\ Len(down) \in Nat /\ Len(ms) \in Nat
      /\ DOMAIN down = 1..Len(down) /\ DOMAIN ms = 1..Len(ms) /\ DOMAIN down' = 1..Len(down')
  BY <1>1
<1>3. ASSUME NEW p \in DOMAIN down', p \notin DOMAIN down
      PROVE  down'[p].is \in Talk \ {"list"}
  <2>1. p - Len(down) \in 1..Len(ms) /\ Len(down) + (p - Len(down)) = p
    BY <1>1, <1>2, <1>3
  <2> QED BY <1>1, <1>2, <2>1
<1>4. \A p \in DOMAIN down : down'[p] = down[p]
  BY <1>1, <1>2
<1> QED BY <1>3, <1>4 DEF AsksOK

\* Without a list in it, a reply adds none.
LEMMA NoNewList ==
  ASSUME IInv, NEW ms \in Seq(Messages), Reply(ms), \A p \in DOMAIN ms : ms[p].is # "list"
  PROVE  \A p \in DOMAIN down' :
           down'[p].is = "list" => \E q \in DOMAIN down : down[q].is = "list"
<1>1. /\ down \in Seq(Messages) /\ down' \in Seq(Messages)
      /\ Len(down') = Len(down) + Len(ms)
      /\ \A p \in 1..Len(down) : down'[p] = down[p]
      /\ \A p \in 1..Len(ms) : down'[Len(down) + p] = ms[p]
  BY Replied
<1> Len(ms) \in Nat /\ Len(down) \in Nat /\ DOMAIN ms = 1..Len(ms)
  BY <1>1
<1>2. ASSUME NEW p \in 1..Len(down'), down'[p].is = "list", p \notin 1..Len(down)
      PROVE  FALSE
  <2>1. p - Len(down) \in 1..Len(ms) /\ Len(down) + (p - Len(down)) = p
    BY <1>1, <1>2
  <2> QED BY <1>1, <1>2, <2>1
<1>3. DOMAIN down = 1..Len(down) /\ DOMAIN down' = 1..Len(down')
  BY <1>1
<1> QED BY <1>1, <1>2, <1>3

\* A list added to a stream without one is the last of it.
LEMMA ListLast ==
  ASSUME IInv, NEW ms \in Seq(Messages), Reply(ms), Len(ms) <= 1,
         \A p \in DOMAIN down : down[p].is # "list"
  PROVE  \A p \in DOMAIN down' : down'[p].is = "list" => p = Len(down')
<1>1. /\ down \in Seq(Messages) /\ down' \in Seq(Messages)
      /\ Len(down') = Len(down) + Len(ms)
      /\ \A p \in 1..Len(down) : down'[p] = down[p]
  BY Replied
<1>2. Len(ms) \in Nat /\ Len(down) \in Nat
  BY <1>1
<1>3. ASSUME NEW p \in 1..Len(down'), down'[p].is = "list" PROVE p = Len(down')
  <2>1. p \notin 1..Len(down)
    BY <1>1, <1>3
  <2> QED BY <1>1, <1>2, <2>1
<1> QED BY <1>1, <1>3

\* The server takes a request: a select is alone, and comes when nothing of an
\* earlier transfer is left.
LEMMA HandlesInOrder ==
  ASSUME TransferInv, Handle, Live'
  PROVE  Order'
<1>1. /\ server = "idle" /\ link = "open" /\ up # <<>>
      /\ UNCHANGED <<parent, child, size, got, wanted, canny, zips, merged, crossed>>
  BY DEF Handle, client, disk
<1>0. faulted' = faulted \/ faulted' = TRUE
  BY DEF Handle, Close
<1>2. Live /\ ZipsOK /\ ServerOK /\ StreamOK /\ AsksOK
  BY <1>0, <1>1 DEF TransferInv, Live, Clean, Order
<1>3. ZipsOK'
  BY <1>1, <1>2 DEF ZipsOK
<1> DEFINE m == Head(up)
<1>4. /\ up \in Seq(Messages) /\ Len(up) \in Nat /\ Len(up) >= 1 /\ DOMAIN up = 1..Len(up)
      /\ m = up[1] /\ m \in Messages
      /\ Tail(up) \in Seq(Messages) /\ Len(Tail(up)) = Len(up) - 1
      /\ \A p \in 1..Len(Tail(up)) : Tail(up)[p] = up[p + 1]
  <2>1. up \in Seq(Messages)
    BY DEF TransferInv, IInv, StreamsOK
  <2> QED BY <1>1, <2>1, HeadTailProperties
<1>5. /\ m.is \in {"auth", "status", "update", "list", "select"}
      /\ m.is = "select" => m.of = wanted /\ Quiet
      /\ parent \in {"menu", "choosing"} => m.is # "list"
      /\ parent = "asked" /\ m.is = "list" => Len(up) = 1
      /\ parent # "choosing"
      /\ parent = "asked" => \A p \in DOMAIN down : down[p].is # "list"
  <2>1. 1 \in DOMAIN up
    BY <1>4
  <2> QED BY <1>1, <1>2, <1>4, <2>1 DEF AsksOK
<1> HIDE DEF m
<1>6. /\ <<>> \in Seq(Messages) /\ \A p \in DOMAIN <<>> : FALSE
      /\ \A is \in Kinds \ {"select"} : <<Message(is)>> \in Seq(Messages)
      /\ \A is \in Talk : \A p \in DOMAIN <<Message(is)>> : <<Message(is)>>[p].is = is
  <2>1. \A is \in Kinds \ {"select"} : Message(is) \in Messages
    BY MessageType
  <2>2. \A is \in Talk : Message(is).is = is
    BY DEF Message
  <2> QED BY <2>1, <2>2
\* A request that is refused or cannot be parsed ends the connection.
<1>7. ASSUME NEW ms \in {<<>>, <<Message("auth")>>}, NEW unread, Close(ms, unread), job' = job
      PROVE  Order'
  <2>2. /\ ms \in Seq(Messages)
        /\ \A p \in DOMAIN ms : ms[p].is \in Talk
        /\ \A p \in DOMAIN ms : ms[p].is = "auth"
    <3>1. "auth" \in Talk /\ "auth" \in Kinds \ {"select"}
      BY DEF Talk, Kinds
    <3>2. CASE ms = <<>>
      BY <1>6, <3>2, Zenon
    <3>3. CASE ms = <<Message("auth")>>
      <4>1. ms \in Seq(Messages) /\ \A p \in DOMAIN ms : ms[p].is = "auth"
        BY <1>6, <3>1, <3>3, Zenon
      <4> QED BY <3>1, <4>1
    <3> QED BY <3>2, <3>3
  <2>3. server' = "closed" /\ link' \in {"fin", "aborted"} /\ up' = <<>>
    BY <1>7 DEF Close
  <2>1. Reply(ms)
    BY <1>7, <2>2, Closing DEF TransferInv, Live, Clean
  <2>4. StreamOK' /\ (Quiet => Quiet')
    BY <1>1, <1>2, <1>7, <2>1, <2>2, <2>3, Talking
  <2>5. \A p \in DOMAIN down' : down'[p].is = "list" => \E q \in DOMAIN down : down[q].is = "list"
    BY <2>1, <2>2, NoNewList DEF TransferInv
  <2>6. AsksOK'
    BY <1>1, <1>2, <1>5, <2>3, <2>4, <2>5 DEF AsksOK
  <2>7. ServerOK'
    BY <2>3 DEF ServerOK
  <2> QED BY <1>3, <2>4, <2>6, <2>7 DEF Order
<1>8. CASE /\ up' = Tail(up)
           /\ server' = IF m.is = "select" THEN "select" ELSE server
           /\ job' = IF m.is = "select" THEN m.of ELSE job
           /\ Reply(IF m.is \in {"select", "update"} THEN <<>> ELSE <<Message(m.is)>>)
           /\ UNCHANGED link
  <2>1. \A p \in DOMAIN up' : /\ p + 1 \in DOMAIN up /\ up'[p] = up[p + 1] /\ p + 1 # 1
                              /\ p + 1 = Len(up) => p = Len(up')
    BY <1>4, <1>8
  <2>2. CASE m.is = "select"
    <3>1. Reply(<<>>) /\ server' = "select" /\ job' = wanted
      BY <1>5, <1>8, <2>2
    <3>2. down' = down
      BY <3>1 DEF Reply, TransferInv, IInv, StreamsOK
    <3>3. Quiet'
      BY <1>1, <1>5, <2>2, <3>2 DEF Quiet
    <3>4. StreamOK' /\ ServerOK'
      BY <1>1, <1>8, <3>1, <3>3 DEF StreamOK, ServerOK
    <3>5. AsksOK'
      BY <1>1, <1>2, <1>5, <2>1, <3>2 DEF AsksOK
    <3> QED BY <1>3, <3>4, <3>5 DEF Order
  <2>3. CASE m.is # "select"
    <3>1. server' = "idle" /\ job' = job
      BY <1>1, <1>8, <2>3
    <3>2. PICK ms \in Seq(Messages) :
            /\ Reply(ms) /\ \A p \in DOMAIN ms : ms[p].is \in Talk /\ ms[p].is = m.is
            /\ Len(ms) <= 1
      <4>1. CASE m.is = "update"
        <5>1. Reply(<<>>) /\ Len(<<>>) <= 1
          BY <1>8, <4>1
        <5> QED BY <1>6, <5>1, Zenon
      <4>2. CASE m.is # "update"
        <5>1. Reply(<<Message(m.is)>>) /\ m.is \in Talk
          BY <1>5, <1>8, <2>3, <4>2 DEF Talk, Kinds
        <5>2. <<Message(m.is)>> \in Seq(Messages) /\ Len(<<Message(m.is)>>) <= 1
          BY <1>6, <2>3, <5>1 DEF Talk
        <5>3. \A p \in DOMAIN <<Message(m.is)>> : <<Message(m.is)>>[p].is = m.is
          BY <1>6, <5>1
        <5> QED BY <5>1, <5>2, <5>3
      <4> QED BY <4>1, <4>2
    <3>3. StreamOK' /\ (Quiet => Quiet')
      BY <1>1, <1>2, <3>1, <3>2, Talking
    <3>4. ServerOK'
      BY <1>1, <1>8, <3>1 DEF ServerOK
    <3>5. CASE m.is = "list" /\ parent = "asked"
      <4>1. DOMAIN up' = {} /\ up' = <<>>
        BY <1>4, <1>5, <1>8, <3>5
      <4>2. \A p \in DOMAIN down' : down'[p].is = "list" => p = Len(down')
        BY <1>5, <3>2, <3>5, ListLast DEF TransferInv
      <4>3. \A p, q \in DOMAIN down' : q > p => p # Len(down')
        <5>1. down' \in Seq(Messages)
          BY <3>2, Replied DEF TransferInv
        <5> QED BY <5>1
      <4> QED BY <1>1, <1>2, <1>3, <3>1, <3>3, <3>4, <3>5, <4>1, <4>2, <4>3 DEF AsksOK, Order
    <3>6. CASE ~(m.is = "list" /\ parent = "asked")
      <4>1. \A p \in DOMAIN down' :
              down'[p].is = "list" => m.is = "list" \/ \E q \in DOMAIN down : down[q].is = "list"
        <5>1. CASE m.is = "list"
          BY <5>1
        <5>2. CASE m.is # "list"
          BY <3>2, <5>2, NoNewList DEF TransferInv
        <5> QED BY <5>1, <5>2
      <4> QED BY <1>1, <1>2, <1>3, <1>5, <2>1, <3>1, <3>3, <3>4, <3>6, <4>1 DEF AsksOK, Order
    <3> QED BY <3>5, <3>6
  <2> QED BY <2>2, <2>3
<1> QED BY <1>1, <1>7, <1>8 DEF Handle, m

\* While the server is busy with a select, no other one and no list is on its
\* way, and nothing it does changes that.
LEMMA BusyAsks ==
  ASSUME AsksOK, server \in {"select", "compress", "size", "ready", "file"},
         UNCHANGED <<parent, wanted>>, up' = up \/ up' = <<>>,
         \A p \in DOMAIN down' :
           down'[p].is = "list" => \E q \in DOMAIN down : down[q].is = "list"
  PROVE  AsksOK'
<1>1. \A p \in DOMAIN up : up[p].is # "select"
  BY DEF AsksOK
<1>2. \A p \in DOMAIN <<>> : FALSE
  OBVIOUS
<1>3. parent # "choosing" /\ (parent = "asked" => \A p \in DOMAIN down : down[p].is # "list")
  BY DEF AsksOK
<1>4. CASE up' = up
  BY <1>1, <1>3, <1>4 DEF AsksOK
<1>5. CASE up' = <<>>
  BY <1>2, <1>3, <1>5 DEF AsksOK
<1> QED BY <1>4, <1>5

LEMMA DetectsInOrder ==
  ASSUME TransferInv, DetectEdges, Live'
  PROVE  Order'
<1>1. /\ server = "select"
      /\ UNCHANGED <<parent, child, size, got, wanted, job, zips, merged, crossed>>
      /\ faulted' = faulted \/ faulted' = TRUE
  BY DEF DetectEdges, Close, client
<1>d. down' = down
  <2>1. CASE UNCHANGED stream
    BY <2>1 DEF stream
  <2>2. CASE Close(<<>>, up # <<>>)
    <3>1. faulted' # TRUE
      BY DEF Live, Clean
    <3>3. <<>> \in Seq(Messages)
      OBVIOUS
    <3>2. Reply(<<>>) /\ down \in Seq(Messages)
      BY <1>1, <2>2, <3>1, <3>3, Closing DEF TransferInv, IInv, StreamsOK
    <3> QED BY <3>2 DEF Reply
  <2> QED BY <2>1, <2>2 DEF DetectEdges
<1>2. Live /\ ZipsOK /\ ServerOK /\ StreamOK /\ AsksOK
  BY <1>1 DEF TransferInv, Live, Clean, Order
<1>3. Quiet /\ Quiet'
  BY <1>1, <1>2, <1>d DEF StreamOK, Transfer, Quiet
<1>4. ZipsOK'
  BY <1>1, <1>2 DEF ZipsOK
<1>5. (up' = up \/ up' = <<>>) /\ server' \in {"size", "compress", "closed"}
  BY DEF DetectEdges, Close, stream
<1>6. StreamOK'
  BY <1>3, <1>5 DEF StreamOK
<1>7. AsksOK'
  BY <1>1, <1>2, <1>5, <1>d, BusyAsks
<1>8. ServerOK'
  <2>1. CASE server' = "size"
    BY <1>1, <1>2, <2>1 DEF DetectEdges, ServerOK, Close, stream
  <2>2. CASE server' = "compress"
    <3>1. /\ job \in Readable /\ Stem[job] \notin DOMAIN zips /\ UNCHANGED <<link, up>>
          /\ canny' = job \/ faulted' = TRUE
      BY <2>2 DEF DetectEdges, Close, stream
    <3>2. faulted' # TRUE
      BY DEF Live, Clean
    <3> QED BY <1>1, <1>2, <2>2, <3>1, <3>2 DEF ServerOK
  <2>3. CASE server' = "closed"
    BY <2>3 DEF DetectEdges, Close, ServerOK
  <2> QED BY <1>5, <2>1, <2>2, <2>3
<1> QED BY <1>4, <1>6, <1>7, <1>8 DEF Order

LEMMA CompressesInOrder ==
  ASSUME TransferInv, Compress, Live'
  PROVE  Order'
<1>1. /\ server = "compress" /\ server' = "size"
      /\ UNCHANGED <<parent, child, size, got, wanted, link, up, down, job, canny, merged, crossed>>
  BY DEF Compress, client, stream
<1>2. Zipped(Content(canny)) /\ faulted' = faulted
  <2>1. faulted' # TRUE
    BY DEF Live, Clean
  <2> QED BY <2>1 DEF Compress
<1>3. Live /\ ZipsOK /\ ServerOK /\ StreamOK /\ AsksOK
  BY <1>1, <1>2 DEF TransferInv, Live, Clean, Order
<1>4. Quiet /\ Quiet'
  BY <1>1, <1>3 DEF StreamOK, Transfer, Quiet
<1>5. job \in Readable /\ canny = job
  BY <1>1, <1>3 DEF ServerOK
<1>6. ZipsOK'
  BY <1>2, <1>3, <1>5 DEF ZipsOK, Zipped
<1>7. ServerOK'
  BY <1>1, <1>2, <1>3 DEF ServerOK, Zipped
<1>8. StreamOK'
  BY <1>1, <1>4 DEF StreamOK
<1>9. AsksOK'
  BY <1>1, <1>3, BusyAsks
<1> QED BY <1>6, <1>7, <1>8, <1>9 DEF Order

\* The three parts of a transfer.
LEMMA SizeInOrder ==
  ASSUME TransferInv, SendSize, Live'
  PROVE  Order'
<1>1. /\ server = "size" /\ server' = "ready"
      /\ UNCHANGED <<parent, child, size, got, wanted, link, up, job, canny, zips,
                     merged, crossed, faulted>>
  BY DEF SendSize, client, disk, ghosts
<1>2. Live /\ ZipsOK /\ ServerOK /\ StreamOK /\ AsksOK
  BY <1>1 DEF TransferInv, Live, Clean, Order
<1>3. Quiet
  BY <1>1, <1>2 DEF StreamOK, Transfer
<1>4. PICK i \in Readable : Stem[i] = Stem[job] /\ zips[Stem[job]] = Content(i)
  BY <1>1, <1>2 DEF ServerOK, ZipsOK
<1>5. Pieces[i] \in Nat /\ Pieces[i] >= 1 /\ Length(Content(i)) = 2 * Pieces[i]
  BY WholeZip
<1>6. PICK m \in Messages : Reply(<<m>>) /\ m.is = "size" /\ m.n = 2 * Pieces[i]
  <2> DEFINE m == [is |-> "size", of |-> NoImage,
                   n |-> IF Stem[job] \in DOMAIN zips THEN Length(zips[Stem[job]]) ELSE -1]
  <2>1. m.n = 2 * Pieces[i] /\ m.is = "size"
    BY <1>1, <1>2, <1>4, <1>5 DEF ServerOK
  <2>2. m = [is |-> "size", n |-> 2 * Pieces[i], of |-> NoImage]
    BY <2>1
  <2>3. m \in Messages
    BY <1>5, <2>2, MessageType
  <2> QED BY <2>1, <2>3 DEF SendSize
<1>7. <<m>> \in Seq(Messages) /\ Len(<<m>>) = 1 /\ <<m>>[1] = m
      /\ \A p \in DOMAIN <<m>> : <<m>>[p] = m
  OBVIOUS
<1>8. /\ down \in Seq(Messages) /\ down' \in Seq(Messages)
      /\ Len(down') = Len(down) + Len(<<m>>)
      /\ \A p \in 1..Len(down) : down'[p] = down[p]
      /\ \A p \in 1..Len(<<m>>) : down'[Len(down) + p] = <<m>>[p]
  BY <1>6, <1>7, Replied DEF TransferInv
<1>d. PICK d \in Nat : d = Len(down)
  BY <1>8
<1>9. /\ d \in Nat /\ Len(down') = d + 1 /\ DOMAIN down = 1..d /\ DOMAIN down' = 1..(d + 1)
      /\ down'[d + 1] = m
  BY <1>7, <1>8, <1>d
<1>10. \A p \in 1..d : down'[p].is \in Talk
  BY <1>3, <1>8, <1>9 DEF Quiet
<1>11. \A p \in DOMAIN down' :
         IF p - d \in 1..1 THEN Item(down'[p], p - d, i) ELSE down'[p].is \in Talk
  <2> SUFFICES ASSUME NEW p \in 1..(d + 1)
               PROVE  IF p - d \in 1..1 THEN Item(down'[p], p - d, i) ELSE down'[p].is \in Talk
    BY <1>9
  <2>1. CASE p = d + 1
    <3>1. p - d = 1 /\ down'[p] = m
      BY <1>9, <2>1
    <3> QED BY <1>6, <3>1 DEF Item
  <2>2. CASE p # d + 1
    <3>1. p \in 1..d /\ p - d \notin 1..1
      BY <1>9, <2>2
    <3> QED BY <1>10, <3>1
  <2> QED BY <2>1, <2>2
<1>12. Transfer(d, i)'
  <2>1. Sent(i)' = 1
    BY <1>1 DEF Sent
  <2>2. Stem[job] \in DOMAIN zips /\ job = wanted
    BY <1>1, <1>2 DEF ServerOK
  <2>3. child # "download" /\ ~(d <= -1) /\ ~(d <= -2) /\ -(Pieces[i] + 2) < d
    BY <1>3, <1>5, <1>9 DEF Quiet
  <2> QED BY <1>1, <1>4, <1>9, <1>11, <2>1, <2>2, <2>3 DEF Transfer
<1>13. StreamOK'
  BY <1>9, <1>12 DEF StreamOK
<1>14. \A p \in DOMAIN down' : down'[p].is = "list" => \E q \in DOMAIN down : down[q].is = "list"
  <2>1. \A p \in DOMAIN <<m>> : <<m>>[p].is # "list"
    BY <1>6, <1>7
  <2> QED BY <1>6, <1>7, <2>1, NoNewList DEF TransferInv
<1>15. AsksOK'
  BY <1>1, <1>2, <1>14, BusyAsks
<1>16. ZipsOK' /\ ServerOK'
  BY <1>1, <1>2 DEF ZipsOK, ServerOK
<1> QED BY <1>13, <1>15, <1>16 DEF Order

LEMMA ReadyInOrder ==
  ASSUME TransferInv, SendReady, Live'
  PROVE  Order'
<1>1. /\ server = "ready" /\ server' = "file"
      /\ UNCHANGED <<parent, child, size, got, wanted, link, up, job, canny, zips,
                     merged, crossed, faulted>>
  BY DEF SendReady, client, disk, ghosts
<1>2. Live /\ ZipsOK /\ ServerOK /\ StreamOK /\ AsksOK
  BY <1>1 DEF TransferInv, Live, Clean, Order
<1>3. PICK i \in Readable, d \in Int : Transfer(d, i)
  BY <1>1, <1>2 DEF StreamOK
<1>4. Sent(i) = 1 /\ Sent(i)' = 2 /\ Len(down) = d + 1
  BY <1>1, <1>3 DEF Sent, Transfer
<1>5. PICK m \in Messages : Reply(<<m>>) /\ m.is = "ready"
  <2>1. Message("ready") \in Messages /\ Message("ready").is = "ready"
    BY MessageType DEF Message, Kinds
  <2> QED BY <2>1 DEF SendReady
<1>6. <<m>> \in Seq(Messages) /\ Len(<<m>>) = 1 /\ <<m>>[1] = m
      /\ \A p \in DOMAIN <<m>> : <<m>>[p] = m
  OBVIOUS
<1>7. /\ down \in Seq(Messages) /\ down' \in Seq(Messages)
      /\ Len(down') = Len(down) + Len(<<m>>)
      /\ \A p \in 1..Len(down) : down'[p] = down[p]
      /\ \A p \in 1..Len(<<m>>) : down'[Len(down) + p] = <<m>>[p]
  BY <1>5, <1>6, Replied DEF TransferInv
<1>8. /\ Len(down') = d + 2 /\ DOMAIN down = 1..(d + 1) /\ DOMAIN down' = 1..(d + 2)
      /\ down'[d + 2] = m /\ d + 1 >= 0
  BY <1>4, <1>6, <1>7
<1>9. \A p \in DOMAIN down' :
        IF p - d \in 1..2 THEN Item(down'[p], p - d, i) ELSE down'[p].is \in Talk
  <2> SUFFICES ASSUME NEW p \in 1..(d + 2)
               PROVE  IF p - d \in 1..2 THEN Item(down'[p], p - d, i) ELSE down'[p].is \in Talk
    BY <1>8
  <2>1. CASE p = d + 2
    <3>1. p - d = 2 /\ down'[p] = m
      BY <1>8, <2>1
    <3> QED BY <1>5, <3>1 DEF Item
  <2>2. CASE p # d + 2
    <3>1. p \in 1..(d + 1) /\ (p - d \in 1..2 <=> p - d \in 1..1)
      BY <1>8, <2>2
    <3>2. IF p - d \in 1..1 THEN Item(down[p], p - d, i) ELSE down[p].is \in Talk
      BY <1>3, <1>4, <1>8, <3>1 DEF Transfer
    <3>3. down'[p] = down[p]
      BY <1>4, <1>7, <3>1
    <3> QED BY <3>1, <3>2, <3>3
  <2> QED BY <2>1, <2>2
<1>10. Transfer(d, i)'
  BY <1>1, <1>3, <1>4, <1>8, <1>9 DEF Transfer
<1>11. StreamOK'
  BY <1>10 DEF StreamOK
<1>12. \A p \in DOMAIN down' : down'[p].is = "list" => \E q \in DOMAIN down : down[q].is = "list"
  <2>1. \A p \in DOMAIN <<m>> : <<m>>[p].is # "list"
    BY <1>5, <1>6
  <2> QED BY <1>5, <1>6, <2>1, NoNewList DEF TransferInv
<1>13. AsksOK'
  BY <1>1, <1>2, <1>12, BusyAsks
<1>14. ZipsOK' /\ ServerOK'
  BY <1>1, <1>2 DEF ZipsOK, ServerOK
<1> QED BY <1>11, <1>13, <1>14 DEF Order

LEMMA FileInOrder ==
  ASSUME TransferInv, SendFile, Live'
  PROVE  Order'
<1>1. /\ server = "file" /\ server' = "idle"
      /\ UNCHANGED <<parent, child, size, got, wanted, link, up, job, canny, zips,
                     merged, crossed, faulted>>
  BY DEF SendFile, client, disk, ghosts
<1>2. Live /\ ZipsOK /\ ServerOK /\ StreamOK /\ AsksOK
  BY <1>1 DEF TransferInv, Live, Clean, Order
<1>3. PICK i \in Readable, d \in Int : Transfer(d, i)
  BY <1>1, <1>2 DEF StreamOK
<1>4. Sent(i) = 2 /\ Sent(i)' = Pieces[i] + 2 /\ Len(down) = d + 2
  BY <1>1, <1>3 DEF Sent, Transfer
<1>5. Reply(Content(i))
  BY <1>3 DEF SendFile, Transfer
<1>6. /\ Pieces[i] \in Nat /\ Pieces[i] >= 1
      /\ Len(Content(i)) = Pieces[i] /\ Content(i) \in Seq(Messages)
      /\ \A k \in 1..Pieces[i] : Content(i)[k] = Piece(k, i)
  BY WholeZip
<1>7. /\ down \in Seq(Messages) /\ down' \in Seq(Messages)
      /\ Len(down') = Len(down) + Pieces[i]
      /\ \A p \in 1..Len(down) : down'[p] = down[p]
      /\ \A k \in 1..Pieces[i] : down'[Len(down) + k] = Piece(k, i)
  BY <1>5, <1>6, Replied DEF TransferInv
<1>8. /\ d + 2 >= 0 /\ DOMAIN down = 1..(d + 2)
      /\ Len(down') = d + (Pieces[i] + 2) /\ DOMAIN down' = 1..(d + (Pieces[i] + 2))
  <2>1. Len(down) \in Nat /\ DOMAIN down = 1..Len(down) /\ DOMAIN down' = 1..Len(down')
    BY <1>7
  <2>2. Len(down') = (d + 2) + Pieces[i]
    BY <1>4, <1>7, Zenon
  <2>3. Len(down') = d + (Pieces[i] + 2)
    BY <1>6, <2>2
  <2> QED BY <1>4, <2>1, <2>3
<1>9. \A p \in DOMAIN down' :
        IF p - d \in 1..(Pieces[i] + 2) THEN Item(down'[p], p - d, i) ELSE down'[p].is \in Talk
  <2> SUFFICES ASSUME NEW p \in 1..(d + (Pieces[i] + 2))
               PROVE  IF p - d \in 1..(Pieces[i] + 2) THEN Item(down'[p], p - d, i)
                                                      ELSE down'[p].is \in Talk
    BY <1>8
  <2>1. CASE p > d + 2
    <3> DEFINE k == p - (d + 2)
    <3>1. k \in 1..Pieces[i] /\ Len(down) + k = p /\ k = (p - d) - 2
      BY <1>4, <1>6, <2>1
    <3>2. down'[p] = Piece((p - d) - 2, i)
      BY <1>7, <3>1
    <3>3. p - d > 2 /\ p - d \in 1..(Pieces[i] + 2)
      BY <1>6, <2>1
    <3> QED BY <3>2, <3>3 DEF Item
  <2>2. CASE ~(p > d + 2)
    <3>1. p \in 1..(d + 2) /\ (p - d \in 1..(Pieces[i] + 2) <=> p - d \in 1..2)
      BY <1>6, <1>8, <2>2
    <3>2. IF p - d \in 1..2 THEN Item(down[p], p - d, i) ELSE down[p].is \in Talk
      BY <1>3, <1>4, <1>8, <3>1 DEF Transfer
    <3>3. down'[p] = down[p]
      BY <1>4, <1>7, <3>1
    <3> QED BY <3>1, <3>2, <3>3
  <2> QED BY <2>1, <2>2
<1>10. Transfer(d, i)'
  <2>1. d + (Pieces[i] + 2) <= Len(down')
    BY <1>6, <1>8
  <2> QED BY <1>1, <1>3, <1>4, <1>9, <2>1 DEF Transfer
<1>11. StreamOK'
  BY <1>10 DEF StreamOK
<1>12. \A p \in DOMAIN down' : down'[p].is = "list" => \E q \in DOMAIN down : down[q].is = "list"
  <2>1. \A p \in DOMAIN Content(i) : Content(i)[p].is # "list"
    BY DEF Content
  <2> QED BY <1>5, <1>6, <2>1, NoNewList DEF TransferInv
<1>13. AsksOK'
  BY <1>1, <1>2, <1>12, BusyAsks
<1>14. ZipsOK' /\ ServerOK'
  BY <1>1, <1>2 DEF ZipsOK, ServerOK
<1> QED BY <1>11, <1>13, <1>14 DEF Order

\* A broadcast, and the one that ends the connection.
LEMMA BroadcastsInOrder ==
  ASSUME TransferInv, Alert \/ Outage, Live'
  PROVE  Order'
<1>1. /\ server = "idle" /\ server' \in {"idle", "closed"}
      /\ UNCHANGED <<parent, child, size, got, wanted, job, canny, zips, merged, crossed>>
      /\ faulted' = faulted \/ faulted' = TRUE
      /\ \/ up' = up /\ link' = link
         \/ up' = <<>> /\ link' # "open"
      /\ server' = "closed" => link' # "open"
  BY DEF Alert, Outage, Close, client, disk, host, ghosts
<1>2. Live /\ ZipsOK /\ ServerOK /\ StreamOK /\ AsksOK
  BY <1>1 DEF TransferInv, Live, Clean, Order
<1>3. PICK is \in {"alert", "disconnect"} : Reply(<<Message(is)>>)
  <2>1. CASE Alert
    BY <2>1 DEF Alert
  <2>2. CASE Outage
    <3>1. Message("disconnect") \in Messages
      BY MessageType DEF Kinds
    <3>2. <<Message("disconnect")>> \in Seq(Messages)
      BY <3>1
    <3>5. faulted' # TRUE
      BY DEF Live, Clean
    <3>3. Close(<<Message("disconnect")>>, up # <<>>)
      BY <2>2 DEF Outage
    <3>4. Reply(<<Message("disconnect")>>)
      BY <3>2, <3>3, <3>5, Closing DEF TransferInv
    <3> QED BY <3>4
  <2> QED BY <2>1, <2>2
<1>4. PICK m \in Messages : Reply(<<m>>) /\ m.is \in Talk \ {"list"}
  <2>1. Message(is) \in Messages /\ Message(is).is = is
    BY MessageType DEF Message, Kinds
  <2> QED BY <1>3, <2>1 DEF Talk, Kinds
<1>5. <<m>> \in Seq(Messages) /\ \A p \in DOMAIN <<m>> : <<m>>[p] = m
  OBVIOUS
<1>6. \A p \in DOMAIN <<m>> : <<m>>[p].is \in Talk /\ <<m>>[p].is \in Talk \ {"list"}
                               /\ <<m>>[p].is # "list"
  BY <1>4, <1>5
<1>7. StreamOK' /\ (Quiet => Quiet')
  BY <1>1, <1>2, <1>4, <1>5, <1>6, Talking
<1>8. \A p \in DOMAIN down' : down'[p].is = "list" => \E q \in DOMAIN down : down[q].is = "list"
  BY <1>4, <1>5, <1>6, NoNewList DEF TransferInv
<1>9. ASSUME parent = "asked", NEW p \in DOMAIN down', down'[p].is = "list"
      PROVE  /\ up' = <<>> /\ server' \in {"idle", "closed"}
             /\ \A q \in DOMAIN down' : q > p => down'[q].is \in Talk \ {"list"}
  <2>1. up = <<>> /\ up' = <<>>
    BY <1>1, <1>2, <1>8, <1>9 DEF AsksOK
  <2> QED BY <1>1, <1>2, <1>4, <1>5, <1>6, <1>9, <2>1, ListStays
<1>10. (\E p \in DOMAIN up' : TRUE) => up' = up /\ server' = "idle"
  <2>1. \A p \in DOMAIN <<>> : FALSE
    OBVIOUS
  <2>2. CASE Alert
    BY <1>1, <2>2 DEF Alert, host
  <2>3. CASE Outage
    BY <2>1, <2>3 DEF Outage, Close
  <2> QED BY <2>2, <2>3
<1>11. AsksOK'
  <2>1. \A p \in DOMAIN up' :
          /\ up'[p].is \in {"auth", "status", "update", "list", "select"}
          /\ up'[p].is = "select" => p = 1 /\ up'[p].of = wanted /\ server' = "idle" /\ Quiet'
          /\ parent \in {"menu", "choosing"} => up'[p].is # "list"
          /\ parent = "asked" => (up'[p].is = "list" => p = Len(up'))
    BY <1>2, <1>7, <1>10 DEF AsksOK
  <2>2. parent = "choosing" => up' = <<>> /\ Quiet'
    BY <1>1, <1>2, <1>7 DEF AsksOK
  <2>3. parent \in {"menu", "choosing"} => \A p \in DOMAIN down' : down'[p].is # "list"
    BY <1>2, <1>8 DEF AsksOK
  <2> QED BY <1>1, <1>9, <2>1, <2>2, <2>3 DEF AsksOK
<1>12. ZipsOK' /\ ServerOK'
  BY <1>1, <1>2 DEF ZipsOK, ServerOK
<1> QED BY <1>7, <1>11, <1>12 DEF Order

\* What has gone wrong has gone wrong.
LEMMA StayFalse ==
  ASSUME [Next]_vars, Clean'
  PROVE  Clean
<1>1. \/ merged' = merged
      \/ \E k \in 1..MaxMerged : merged' = (merged \/ k > 1)
  BY Zenon DEF Next, Child, ChildReads, ChildDownloads, Parent, ParentReads, ParentDownloads,
     Download, Received, User, HangUp, Ask, AskForImages, Choose, Exit, Interrupt, Server, Handle,
     DetectEdges, Compress, SendSize, SendReady, SendFile, Alert, Outage, vars, ghosts
<1>2. crossed' = crossed \/ \E b : crossed' = (crossed \/ b)
  BY Zenon DEF Next, Child, ChildReads, ChildDownloads, Parent, ParentReads, ParentDownloads,
     User, HangUp, Ask, AskForImages, Choose, Exit, Interrupt, Server, Handle,
     DetectEdges, Compress, SendSize, SendReady, SendFile, Alert, Outage, vars, ghosts
<1>3. faulted' = faulted \/ faulted' = TRUE
  BY Zenon DEF Next, Child, ChildReads, ChildDownloads, Parent, ParentReads, ParentDownloads,
     User, HangUp, Ask, AskForImages, Choose, Exit, Interrupt, Server, Handle,
     DetectEdges, Compress, SendSize, SendReady, SendFile, Alert, Outage, Close, vars, ghosts
<1>4. ~merged
  BY <1>1, Zenon DEF Clean
<1>5. ~crossed
  BY <1>2, Zenon DEF Clean
<1>6. ~faulted
  BY <1>3, Zenon DEF Clean
<1> QED BY <1>4, <1>5, <1>6 DEF Clean

-----------------------------------------------------------------------------
\* Only the child writes to the file, and only it and the parent to what they
\* are receiving.
LEMMA Receptions ==
  ASSUME TransferInv, [Next]_vars
  PROVE  GotOK' /\ ParentOK'
<1>1. CASE ChildReads
  BY <1>1, EmptySeq DEF ChildReads, TransferInv, GotOK, ParentOK
<1>2. CASE ParentReads
  <2>1. GotOK'
    BY <1>2, EmptySeq DEF ParentReads, TransferInv, GotOK
  <2>2. parent' = "download" => crossed'
    BY <1>2, Zenon DEF ParentReads
  <2> QED BY <2>1, <2>2 DEF ParentOK
<1>3. ASSUME NEW p \in {"parent", "child"}, Download(p) PROVE GotOK'
  <2>1. CASE got' = got
    BY <2>1 DEF TransferInv, GotOK
  <2>2. CASE \E k \in 1..MaxMerged :
               Received(k) /\ got' = [got EXCEPT ![p] = @ \o SubSeq(down, 1, k)]
    <3>1. PICK k \in 1..MaxMerged :
            Received(k) /\ got' = [got EXCEPT ![p] = @ \o SubSeq(down, 1, k)]
      BY <2>2
    <3>2. down \in Seq(Messages) /\ k \in 1..Len(down)
      BY <3>1, BoundsAssumption DEF TransferInv, IInv, StreamsOK, Received
    <3>3. SubSeq(down, 1, k) \in Seq(Messages)
      BY <3>2
    <3>4. got[p] \o SubSeq(down, 1, k) \in Seq(Messages)
      BY <3>3 DEF TransferInv, GotOK
    <3> QED BY <3>1, <3>4 DEF TransferInv, GotOK
  <2> QED BY <1>3, <2>1, <2>2 DEF Download
<1>4. CASE ChildDownloads
  BY <1>3, <1>4 DEF ChildDownloads, TransferInv, ParentOK
<1>5. CASE ParentDownloads
  <2>1. crossed
    BY <1>5 DEF ParentDownloads, TransferInv, ParentOK
  <2>2. crossed' = crossed
    BY <1>5 DEF ParentDownloads
  <2> QED BY <1>3, <1>5, <2>1, <2>2 DEF ParentDownloads, ParentOK
<1>6. CASE UNCHANGED <<got, crossed>> /\ parent' \in {parent, "menu", "asked", "ended"}
  BY <1>6 DEF TransferInv, GotOK, ParentOK
<1>7. CASE User \/ HangUp
  <2>1. UNCHANGED <<got, crossed>> /\ parent' \in {parent, "menu", "asked", "ended"}
    BY <1>7 DEF User, HangUp, Ask, AskForImages, Choose, Exit, Interrupt, Send, ghosts
  <2> QED BY <1>6, <2>1
<1>8. CASE Server \/ Alert \/ Outage \/ UNCHANGED vars
  <2>1. UNCHANGED <<got, crossed, parent>>
    BY <1>8 DEF Server, Handle, DetectEdges, Compress, SendSize, SendReady, SendFile, Alert, Outage,
                vars, client, ghosts
  <2> QED BY <1>6, <2>1
<1> QED BY <1>1, <1>2, <1>4, <1>5, <1>7, <1>8 DEF Next, Child, Parent

LEMMA InOrder ==
  ASSUME TransferInv, [Next]_vars, Live'
  PROVE  Order'
<1>1. CASE UNCHANGED vars
  <2>1. UNCHANGED <<parent, child, size, got, wanted, link, up, down, server, job, canny, zips,
                    merged, crossed, faulted>>
    BY <1>1 DEF vars, client, stream, host, disk, ghosts
  <2>2. Order
    BY <2>1 DEF TransferInv, Live, Clean
  <2>3. Quiet' = Quiet
    BY <2>1 DEF Quiet
  <2>4. \A i \in Readable, d \in Int : Transfer(d, i)' = Transfer(d, i)
    BY <2>1 DEF Transfer, Sent
  <2>5. StreamOK'
    BY <2>1, <2>2, <2>3, <2>4 DEF Order, StreamOK
  <2>6. AsksOK'
    BY <2>1, <2>2, <2>3 DEF Order, AsksOK
  <2>7. ZipsOK' /\ ServerOK'
    BY <2>1, <2>2 DEF Order, ZipsOK, ServerOK
  <2> QED BY <2>5, <2>6, <2>7 DEF Order
<1>2. CASE Next
  BY <1>2, ChildReading, ChildDownloading, ParentReading, UserAsking, HandlesInOrder,
     DetectsInOrder, CompressesInOrder, SizeInOrder, ReadyInOrder, FileInOrder, BroadcastsInOrder
     DEF Next, Child, Server
<1> QED BY <1>1, <1>2

LEMMA FilesStayWhole ==
  ASSUME TransferInv, [Next]_vars
  PROVE  ZipIsTheEdges'
<1>1. CASE ~Clean'
  BY <1>1 DEF Clean, ZipIsTheEdges
<1>2. CASE ChildDownloads /\ Clean'
  <2>1. Live'
    BY <1>2 DEF Live, ChildDownloads
  <2> QED BY <1>2, <2>1, ChildDownloading
<1>3. CASE ParentDownloads
  <2>1. crossed /\ crossed' = crossed
    BY <1>3 DEF ParentDownloads, TransferInv, ParentOK
  <2> QED BY <2>1 DEF ZipIsTheEdges
<1>4. CASE ~ChildDownloads /\ ~ParentDownloads /\ Clean'
  <2>1. file' = file
    <3>1. CASE ChildReads \/ ParentReads \/ User \/ HangUp
      BY <3>1 DEF ChildReads, ParentReads, User, HangUp, Ask, AskForImages, Choose, Exit, Interrupt
    <3>2. CASE Server \/ Alert \/ Outage \/ UNCHANGED vars
      BY <3>2 DEF Server, Handle, DetectEdges, Compress, SendSize, SendReady, SendFile, Alert,
                  Outage, vars, client
    <3> QED BY <1>4, <3>1, <3>2 DEF Next, Child, Parent
  <2>2. Clean
    BY <1>4, StayFalse
  <2> QED BY <2>1, <2>2 DEF TransferInv, ZipIsTheEdges, Clean
<1> QED BY <1>1, <1>2, <1>3, <1>4

LEMMA TransfersInOrder == Spec => []TransferInv
<1>1. Init => TransferInv
  <2> SUFFICES ASSUME Init PROVE TransferInv
    OBVIOUS
  <2>1. IInv
    BY Starts
  <2>2. GotOK
    <3>1. PICK e \in Seq(Messages) : e = <<>>
      BY EmptySeq
    <3>2. got = [parent |-> e, child |-> e]
      BY <3>1, Zenon DEF Init
    <3> HIDE <3>1
    <3>3. got \in [{"parent", "child"} -> Seq(Messages)]
      BY <3>2
    <3> QED BY <3>3 DEF GotOK
  <2>3. ParentOK /\ ZipIsTheEdges
    BY DEF Init, ParentOK, ZipIsTheEdges
  <2>4. \A p \in DOMAIN <<>> : FALSE
    OBVIOUS
  <2>5. ZipsOK /\ ServerOK
    BY DEF Init, ZipsOK, ServerOK
  <2>6. StreamOK
    BY <2>4 DEF Init, StreamOK, Quiet
  <2>7. AsksOK
    <3>1. \A p \in DOMAIN up : up[p].is = "auth"
      <4>1. \A p \in DOMAIN <<Message("auth")>> : <<Message("auth")>>[p].is = "auth"
        BY DEF Message
      <4> QED BY <4>1 DEF Init, authenticate
    <3> QED BY <2>4, <3>1 DEF Init, AsksOK
  <2> QED BY <2>1, <2>2, <2>3, <2>5, <2>6, <2>7 DEF TransferInv, Order
<1>2. TransferInv /\ [Next]_vars => TransferInv'
  <2> SUFFICES ASSUME TransferInv, [Next]_vars PROVE TransferInv'
    OBVIOUS
  <2>1. IInv'
    BY Step DEF TransferInv
  <2> QED BY <2>1, Receptions, InOrder, FilesStayWhole DEF TransferInv
<1> QED BY <1>1, <1>2, PTL DEF Spec

\* A client that reads messages one by one, whose parent got only lists and
\* whose server wrote its files gets the whole zip of the edges of what was
\* selected last, or of an image with its stem, whatever the images, the
\* interleaving of its processes and the alerts (server.cpp 398-435,
\* tcp_client.c 185-310, 716-759).
THEOREM UserGetsTheEdges == Spec => []ZipIsTheEdges
<1>1. TransferInv => ZipIsTheEdges
  BY DEF TransferInv
<1> QED BY <1>1, TransfersInOrder, PTL

=============================================================================
