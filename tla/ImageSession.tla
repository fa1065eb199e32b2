---------------------------- MODULE ImageSession ----------------------------
(***************************************************************************)
(* A session of the TCP client with the server: the client's two processes *)
(* on one socket, the server's handling of one client's requests, and the  *)
(* way an image goes through the edge filter, canny.png, the zip of its    *)
(* stem and the stream to the file the user gets.                          *)
(*                                                                         *)
(* TCP keeps order but not messages: a read takes as many as there are,    *)
(* and receive_json parses the first.  The child reads everything, except  *)
(* that the parent, to get the list of images, stops the child and reads   *)
(* once itself.  A stream is a sequence of messages and pieces of a file;  *)
(* a message is shorter than a buffer and never cut.                       *)
(*                                                                         *)
(* A server that closes with something unread resets the connection: what  *)
(* was under way may be lost, and the client's next call fails once.       *)
(***************************************************************************)
EXTENDS Integers, Sequences, FiniteSets, SequencesExt

CONSTANTS
  Images,        \* the files in IMAGE_PATH
  Readable,      \* those that are images
  Stem,          \* a file's name up to its last dot
  Pieces,        \* how many buffers the zip of its edges takes
  MaxMerged,     \* bound: messages one read can take
  MaxRequests,   \* bound: what the user asks for
  MaxAlerts      \* bound: alerts broadcast in the session

ASSUME ImagesAssumption ==
  Readable \subseteq Images /\ DOMAIN Stem = Images /\ Pieces \in [Images -> Nat \ {0}]
ASSUME BoundsAssumption ==
  MaxMerged \in Nat \ {0} /\ MaxRequests \in Nat /\ MaxAlerts \in Nat

VARIABLES
  \* The client.
  parent,     \* where the parent is
  child,      \* where the child is
  stopped,    \* the child has SIGSTOP
  size,       \* zip_size_bytes, a global of each process
  got,        \* what each has written to the file it is receiving
  file,       \* cannyResult.zip when its last download ended, and what had been selected
  wanted,     \* ghost: the image selected last
  admin,      \* whether the hostname it sent is that of the administrator
  \* The connection.
  link,       \* as the client's kernel has it: open, fin, aborted, reset
  up, down,   \* what was sent and not yet read
  \* The server.
  server,     \* what it does next
  job,        \* the image it is serving
  canny,      \* the image whose edges canny.png holds
  zips,       \* the zips in ZIP_PATH, by stem
  updated,    \* ghost: it has carried out an update
  \* Bounds and ghosts.
  requests, alerts,
  merged,     \* a read has taken several messages
  crossed,    \* the parent has read something else than the list
  faulted     \* a file of the server could not be written, or a reset lost a part

client == <<parent, child, stopped, size, got, file, wanted, admin>>
stream == <<link, up, down>>
disk   == <<canny, zips>>
host   == <<server, job, disk, updated>>
ghosts == <<requests, alerts, merged, crossed, faulted>>
vars   == <<client, stream, host, ghosts>>

NoImage == "no image"
Message(is) == [is |-> is, n |-> 0, of |-> NoImage]

\* The zip of an image's edges.
Content(i) == [k \in 1..Pieces[i] |-> [is |-> "piece", n |-> k, of |-> i]]

\* Lengths, in half buffers: a piece fills one, a message does not.
Length(s) == Len(s) + Cardinality({k \in DOMAIN s : s[k].is = "piece"})

Over == parent = "ended" /\ child = "ended"

-----------------------------------------------------------------------------
\* The socket at the client.

\* recv: some of what has arrived.
Received(k) ==
  /\ k \in 1..MaxMerged /\ k <= Len(down)
  /\ down' = SubSeq(down, k + 1, Len(down))
  /\ merged' = (merged \/ k > 1)

\* recv returns 0.
AtEnd == down = <<>> /\ link \in {"fin", "reset"}

\* recv returns -1, once.
Fails == down = <<>> /\ link = "aborted" /\ link' = "reset"

\* send, by the parent.  The first after the server closed is answered with a
\* reset or returns the error of the one that came, the next raises SIGPIPE.
Send(m, next) ==
  /\ requests < MaxRequests
  /\ requests' = requests + 1
  /\ parent' = IF link = "reset" THEN "ended" ELSE next
  /\ up' = IF link = "open" THEN Append(up, m) ELSE up
  /\ link' = IF link = "open" THEN link ELSE "reset"

-----------------------------------------------------------------------------
\* The child: handle_server_messages.

\* Mutant of ChildReads: the end of the connection is taken for an error, as -1 is.
ChildReadsOn ==
  /\ child = "reading" /\ ~stopped
  /\ \E k \in 1..MaxMerged : Received(k)
  /\ child' = IF Head(down).is = "ready" THEN "download" ELSE child
  /\ got' = IF Head(down).is = "ready" THEN [got EXCEPT !.child = <<>>] ELSE got
  /\ UNCHANGED <<parent, size, stopped, file, wanted, admin, link, up, host, requests, alerts,
                 crossed, faulted>>

\* receive_json: only the first message of what was read counts.
ChildReads ==
  /\ child = "reading" /\ ~stopped
  /\ \/ /\ AtEnd
        /\ child' = "ended"
        /\ UNCHANGED <<parent, size, got, link, down, merged>>
     \/ /\ Fails
        /\ UNCHANGED <<parent, child, size, got, down, merged>>
     \/ /\ \E k \in 1..MaxMerged : Received(k)
        /\ UNCHANGED link
        /\ LET m == Head(down) IN
             /\ child' = IF m.is = "ready" THEN "download"
                         ELSE IF m.is = "disconnect" THEN "ended" ELSE child
             /\ parent' = IF m.is = "disconnect" THEN "ended" ELSE parent
             /\ size' = IF m.is = "size" THEN [size EXCEPT !.child = m.n] ELSE size
             /\ got' = IF m.is = "ready" THEN [got EXCEPT !.child = <<>>] ELSE got
  /\ UNCHANGED <<stopped, file, wanted, admin, up, host, requests, alerts,
                 crossed, faulted>>

\* receive_zip: everything read goes to the file, until there is enough, no more
\* or an error.
Download(p) ==
  \/ /\ \/ AtEnd /\ UNCHANGED link
        \/ Fails
     /\ file' = [data |-> got[p], for |-> wanted]
     /\ UNCHANGED <<down, merged, got>>
  \/ /\ \E k \in 1..MaxMerged :
          Received(k) /\ got' = [got EXCEPT ![p] = @ \o SubSeq(down, 1, k)]
     /\ file' = IF Length(got'[p]) >= size[p]
                THEN [data |-> got'[p], for |-> wanted] ELSE file
     /\ UNCHANGED link

Downloaded(p) == down = <<>> \/ Length(got'[p]) >= size[p]

ChildDownloads ==
  /\ child = "download" /\ ~stopped
  /\ Download("child")
  /\ child' = IF Downloaded("child") THEN "reading" ELSE child
  /\ UNCHANGED <<parent, stopped, size, wanted, admin, up, host, requests, alerts,
                 crossed, faulted>>

Child == ChildReads \/ ChildDownloads

-----------------------------------------------------------------------------
\* The parent: handle_user_input.

\* Menu 1 and 3, and menu 2, which nothing keeps from a client that was refused.
Ask ==
  /\ parent = "menu"
  /\ \E is \in {"status", "update"} : Send(Message(is), "menu")
  /\ UNCHANGED <<child, stopped, size, got, file, wanted, admin, down, host, alerts,
                 merged, crossed, faulted>>

\* Menu 4: the child is stopped, the list asked for.
AskForImages ==
  /\ parent = "menu"
  /\ stopped' = (child # "ended")
  /\ Send(Message("list"), "asked")
  /\ UNCHANGED <<child, size, got, file, wanted, admin, down, host, alerts,
                 merged, crossed, faulted>>

\* Mutant of ParentReads: it reads on until it has the list.
ParentReadsOn ==
  /\ parent = "asked"
  /\ \/ /\ AtEnd
        /\ parent' = "ended"
        /\ UNCHANGED <<stopped, down, merged>>
     \/ /\ \E k \in 1..MaxMerged : Received(k)
        /\ parent' = IF Head(down).is = "list" THEN "choosing" ELSE parent
        /\ UNCHANGED stopped
  /\ UNCHANGED <<child, size, got, file, wanted, admin, link, up, host, requests, alerts,
                 crossed, faulted>>

\* Mutant of ParentReads: what is not the list leaves the child stopped.
ParentForgetsTheChild ==
  /\ parent = "asked"
  /\ \E k \in 1..MaxMerged : Received(k)
  /\ parent' = IF Head(down).is = "list" THEN "choosing" ELSE "menu"
  /\ UNCHANGED <<child, stopped, size, got, file, wanted, admin, link, up, host, requests,
                 alerts, crossed, faulted>>

\* The parent's receive_json; unless it has to choose or to download it lets
\* the child go on, after an error too.
ParentReads ==
  /\ parent = "asked"
  /\ \/ /\ AtEnd
        /\ parent' = "ended"
        /\ UNCHANGED <<stopped, size, got, link, down, merged, crossed>>
     \/ /\ Fails
        /\ parent' = "menu"
        /\ stopped' = FALSE
        /\ UNCHANGED <<size, got, down, merged, crossed>>
     \/ /\ \E k \in 1..MaxMerged : Received(k)
        /\ UNCHANGED link
        /\ LET m == Head(down) IN
             /\ parent' = IF m.is = "list" THEN "choosing"
                          ELSE IF m.is = "ready" THEN "download"
                          ELSE IF m.is = "disconnect" THEN "ended" ELSE "menu"
             /\ stopped' = (stopped /\ m.is \in {"list", "ready", "disconnect"})
             /\ size' = IF m.is = "size" THEN [size EXCEPT !.parent = m.n] ELSE size
             /\ got' = IF m.is = "ready" THEN [got EXCEPT !.parent = <<>>] ELSE got
             /\ crossed' = (crossed \/ m.is # "list")
  /\ UNCHANGED <<child, file, wanted, admin, up, host, requests, alerts, faulted>>

ParentDownloads ==
  /\ parent = "download"
  /\ Download("parent")
  /\ parent' = IF Downloaded("parent") THEN "menu" ELSE parent
  /\ stopped' = (stopped /\ ~Downloaded("parent"))
  /\ UNCHANGED <<child, size, wanted, admin, up, host, requests, alerts,
                 crossed, faulted>>

\* The user selects an image, or none of the list; the child goes on.
Choose ==
  /\ parent = "choosing"
  /\ \/ \E i \in Images :
          /\ Send([is |-> "select", n |-> 0, of |-> i], "menu")
          /\ stopped' = (stopped /\ link = "reset")
          /\ wanted' = i
     \/ /\ parent' = "menu"
        /\ stopped' = FALSE
        /\ UNCHANGED <<wanted, link, up, requests>>
  /\ UNCHANGED <<child, size, got, file, admin, down, host, alerts, merged, crossed, faulted>>

\* Menu 5 takes the child along; the end of the input does not.
Exit ==
  /\ parent = "menu"
  /\ parent' = "ended"
  /\ child' \in {"ended", child}
  /\ UNCHANGED <<stopped, size, got, file, wanted, admin, stream, host, ghosts>>

\* SIGINT from the terminal reaches both, but a stopped child only later.
Interrupt ==
  /\ parent # "ended"
  /\ parent' = "ended"
  /\ child' = IF stopped THEN child ELSE "ended"
  /\ UNCHANGED <<stopped, size, got, file, wanted, admin, stream, host, ghosts>>

\* A terminal hangs up on a stopped child without a parent.
HangUp ==
  /\ parent = "ended" /\ stopped
  /\ child' = "ended"
  /\ stopped' = FALSE
  /\ UNCHANGED <<parent, size, got, file, wanted, admin, stream, host, ghosts>>

Parent == ParentReads \/ ParentDownloads
User   == Ask \/ AskForImages \/ Choose \/ Exit \/ Interrupt

-----------------------------------------------------------------------------
\* The server, while this client is its concern.

Reply(ms) == down' = down \o ms

\* The connection is closed behind a last reply, with something of the client's
\* unread or not.
Close(ms, unread) ==
  /\ server' = "closed" /\ up' = <<>>
  /\ link' = IF unread THEN "aborted" ELSE "fin"
  /\ \/ Reply(ms) /\ UNCHANGED faulted
     \/ /\ unread
        /\ \E n \in 0..(Len(down) + Len(ms) - 1) : down' = SubSeq(down \o ms, 1, n)
        /\ faulted' = TRUE

\* Mutant of Handle: a client that is refused may stay.
HandleLetsStay ==
  /\ server = "idle" /\ link = "open" /\ up # <<>>
  /\ LET m == Head(up) IN
       /\ up' = Tail(up)
       /\ server' = IF m.is = "select" THEN "select" ELSE server
       /\ job' = IF m.is = "select" THEN m.of ELSE job
       /\ updated' = (updated \/ m.is = "update")
       /\ Reply(IF m.is \in {"select", "update"} THEN <<>> ELSE <<Message(m.is)>>)
       /\ UNCHANGED link
  /\ UNCHANGED <<client, disk, ghosts>>

\* checkTcpClientsMsgs: requests that were read together do not parse, and the
\* connection is closed, as it is after a refusal.
Handle ==
  /\ server = "idle" /\ link = "open" /\ up # <<>>
  /\ LET m == Head(up) IN
     \/ /\ \/ Len(up) > 1 /\ Close(<<>>, Len(up) > 2)
           \/ m.is = "auth" /\ ~admin /\ Close(<<Message("auth")>>, Len(up) > 1)
        /\ UNCHANGED <<job, updated>>
     \/ /\ m.is = "auth" => admin
        /\ up' = Tail(up)
        /\ server' = IF m.is = "select" THEN "select" ELSE server
        /\ job' = IF m.is = "select" THEN m.of ELSE job
        /\ updated' = (updated \/ m.is = "update")
        /\ Reply(IF m.is \in {"select", "update"} THEN <<>> ELSE <<Message(m.is)>>)
        /\ UNCHANGED <<link, faulted>>
  /\ UNCHANGED <<client, disk, requests, alerts, merged, crossed>>

\* Mutant of DetectEdges: a file that is no image is filtered all the same.
DetectAnyEdges ==
  /\ server = "select"
  /\ canny' = job
  /\ server' = "compress"
  /\ UNCHANGED <<client, stream, job, zips, updated, ghosts>>

\* image_selection.  The edges are computed unless there is a zip of that stem;
\* a file that is no image is an exception nobody catches.
DetectEdges ==
  /\ server = "select"
  /\ \/ /\ Stem[job] \in DOMAIN zips
        /\ server' = "size"
        /\ UNCHANGED <<canny, stream, faulted>>
     \/ /\ Stem[job] \notin DOMAIN zips /\ job \in Readable
        /\ \/ canny' = job /\ UNCHANGED faulted
           \/ faulted' = TRUE /\ UNCHANGED canny
        /\ server' = "compress"
        /\ UNCHANGED stream
     \/ /\ Stem[job] \notin DOMAIN zips /\ job \notin Readable
        /\ Close(<<>>, up # <<>>)
        /\ UNCHANGED canny
  /\ UNCHANGED <<client, job, zips, updated, requests, alerts, merged, crossed>>

Zipped(data) ==
  zips' = [s \in DOMAIN zips \cup {Stem[job]} |-> IF s = Stem[job] THEN data ELSE zips[s]]

\* compressImg, which fails without canny.png, or to write all or any of it;
\* nobody looks at what it returns.
Compress ==
  /\ server = "compress"
  /\ \/ /\ canny # NoImage
        /\ Zipped(Content(canny))
        /\ UNCHANGED faulted
     \/ /\ canny # NoImage
        /\ \E n \in 0..Pieces[canny] - 1 : Zipped(SubSeq(Content(canny), 1, n))
        /\ faulted' = TRUE
     \/ /\ faulted' = TRUE
        /\ UNCHANGED zips
  /\ server' = "size"
  /\ UNCHANGED <<client, stream, job, canny, updated, requests, alerts, merged, crossed>>

SendSize ==
  /\ server = "size"
  /\ Reply(<<[is |-> "size", of |-> NoImage,
              n |-> IF Stem[job] \in DOMAIN zips THEN Length(zips[Stem[job]]) ELSE -1]>>)
  /\ server' = "ready"
  /\ UNCHANGED <<client, link, up, job, disk, updated, ghosts>>

SendReady ==
  /\ server = "ready"
  /\ Reply(<<Message("ready")>>)
  /\ server' = "file"
  /\ UNCHANGED <<client, link, up, job, disk, updated, ghosts>>

\* After a second, whatever the client has read by then.
SendFile ==
  /\ server = "file"
  /\ Reply(IF Stem[job] \in DOMAIN zips THEN zips[Stem[job]] ELSE <<>>)
  /\ server' = "idle"
  /\ UNCHANGED <<client, link, up, job, disk, updated, ghosts>>

\* Mutant of Alert: a broadcast comes at any time.
AlertAnyTime ==
  /\ server \in {"idle", "ready", "file"} /\ link = "open"
  /\ alerts < MaxAlerts
  /\ alerts' = alerts + 1
  /\ Reply(<<Message("alert")>>)
  /\ UNCHANGED <<client, link, up, host, requests, merged, crossed, faulted>>

\* Broadcasts come between requests, the server having one thread.
Alert ==
  /\ server = "idle" /\ link = "open"
  /\ alerts < MaxAlerts
  /\ alerts' = alerts + 1
  /\ Reply(<<Message("alert")>>)
  /\ UNCHANGED <<client, link, up, host, requests, merged, crossed, faulted>>

Outage ==
  /\ server = "idle" /\ link = "open"
  /\ Close(<<Message("disconnect")>>, up # <<>>)
  /\ UNCHANGED <<client, job, disk, updated, requests, alerts, merged, crossed>>

Server == Handle \/ DetectEdges \/ Compress \/ SendSize \/ SendReady \/ SendFile

-----------------------------------------------------------------------------
\* Before the fork.  get_os_id returns a pointer into a frame that is gone, so any
\* name may be sent.
authenticate ==
  /\ admin \in BOOLEAN
  /\ up = <<Message("auth")>>

\* main has authenticated and forked.
Init ==
  /\ parent = "menu" /\ child = "reading" /\ stopped = FALSE
  /\ size = [parent |-> 0, child |-> 0]
  /\ got = [parent |-> <<>>, child |-> <<>>]
  /\ file = [data |-> <<>>, for |-> NoImage]
  /\ wanted = NoImage
  /\ authenticate
  /\ link = "open" /\ down = <<>>
  /\ server = "idle" /\ job = NoImage /\ canny = NoImage
  /\ zips = [s \in {} |-> <<>>]
  /\ updated = FALSE
  /\ requests = 0 /\ alerts = 0
  /\ merged = FALSE /\ crossed = FALSE /\ faulted = FALSE

Next ==
  /\ ~Over
  /\ Child \/ Parent \/ User \/ HangUp \/ Server \/ Alert \/ Outage

Spec == Init /\ [][Next]_vars

\* The operating systems run the processes that are not stopped; the user may
\* do nothing.
FairSpec == Spec /\ WF_vars(Child) /\ WF_vars(Parent) /\ WF_vars(Server)

-----------------------------------------------------------------------------
\* Every variable has its type.
TypeOK ==
  /\ parent \in {"menu", "asked", "choosing", "download", "ended"}
  /\ child \in {"reading", "download", "ended"}
  /\ stopped \in BOOLEAN
  /\ size \in [{"parent", "child"} -> Int]
  /\ wanted \in Images \cup {NoImage}
  /\ admin \in BOOLEAN
  /\ link \in {"open", "fin", "aborted", "reset"}
  /\ server \in {"idle", "select", "compress", "size", "ready", "file", "closed"}
  /\ job \in Images \cup {NoImage}
  /\ canny \in Readable \cup {NoImage}
  /\ updated \in BOOLEAN
  /\ requests \in 0..MaxRequests /\ alerts \in 0..MaxAlerts

\* When no read took two messages, the parent read nothing but lists, the
\* server's files were written and nothing sent was lost in a reset, what the
\* user gets is the whole zip of the edges of the selected image, or of another
\* one with its stem
\* (server.cpp 398-435, tcp_client.c 185-310, 716-759).
ZipIsTheEdges ==
  file.data # <<>> /\ ~merged /\ ~crossed /\ ~faulted =>
    \E i \in Readable : Stem[i] = Stem[file.for] /\ file.data = Content(i)

\* Neither end checks an update, the client because it takes itself for
\* authenticated before the answer: only the order of the stream and the
\* closing of the connection keep those of others out (tcp_client.c 31-35,
\* server.cpp 259-293, 330-360).
UpdatesOnlyFromAdmins == updated => admin

\* The child is only stopped while the parent asks for an image, or is gone:
\* whatever the parent reads in its place, the child goes on
\* (tcp_client.c 500-512).
StoppedOnlyWhileAsking ==
  stopped => child # "ended" /\ parent \in {"asked", "choosing", "download", "ended"}

\* A parent that asked for the list is not left waiting for it: it gets to
\* choose, or something it took for the answer, or the end (tcp_client.c 500-512).
AskingEnds == (parent = "asked") ~> (parent # "asked")

\* After the server has closed the connection the child reads what is left and
\* ends, in a download too, unless it is stopped (tcp_client.c 195-205, 716-759).
ReaderEnds == (link # "open") ~> (child = "ended" \/ stopped)
=============================================================================
