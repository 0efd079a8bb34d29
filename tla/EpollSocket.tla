----------------------------- MODULE EpollSocket -----------------------------
(***************************************************************************)
(* One connected TCP socket and its edge-triggered epoll entry, as the code *)
(* in epoll_impl and epoll_socket_channel uses them (external: Linux).      *)
(* Bytes are units; the socket is a record and every operator returns the   *)
(* record after a system call or an event of the network.                   *)
(***************************************************************************)
EXTENDS Naturals

\* registered: in the epoll set; armed: EPOLLOUT is in the interest mask;
\* edge: on epoll's ready list; rx: units to read; rx_left: units the peer
\* still sends (a bound); writable: the send buffer has room.
Socket(MaxData) ==
    [registered : BOOLEAN, armed : BOOLEAN, edge : BOOLEAN,
     rx : 0 .. MaxData, rx_left : 0 .. MaxData,
     peer : {"open", "fin", "rst"}, writable : BOOLEAN, wr_shut : BOOLEAN]

NewSocket(MaxData) ==
    [registered |-> FALSE, armed |-> FALSE, edge |-> FALSE,
     rx |-> 0, rx_left |-> MaxData,
     peer |-> "open", writable |-> TRUE, wr_shut |-> FALSE]

\* What poll reports within the interest mask EPOLLIN | EPOLLRDHUP [| EPOLLOUT].
Mask(s) ==
    (IF s.rx > 0 \/ s.peer # "open" THEN {"EPOLLIN"} ELSE {})
    \cup (IF s.peer # "open" THEN {"EPOLLRDHUP"} ELSE {})
    \cup (IF s.armed /\ (s.writable \/ s.wr_shut \/ s.peer = "rst")
          THEN {"EPOLLOUT"} ELSE {})

\* An event puts a registered socket on the ready list.
Wake(s) == [s EXCEPT !.edge = @ \/ s.registered]

\* epoll_ctl: ADD and MOD test readiness at once, MOD of an fd that is not in
\* the set fails, DEL takes it off the ready list.
EpollAdd(s) ==
    LET added == [s EXCEPT !.registered = TRUE] IN
    [added EXCEPT !.edge = Mask(added) # {}]

EpollMod(s, out) ==
    LET changed == [s EXCEPT !.armed = out] IN
    IF s.registered THEN [changed EXCEPT !.edge = @ \/ Mask(changed) # {}] ELSE s

EpollDel(s) == [s EXCEPT !.registered = FALSE, !.armed = FALSE, !.edge = FALSE]

\* shutdown(fd, SHUT_WR) wakes those who poll.
ShutWrite(s) == Wake([s EXCEPT !.wr_shut = TRUE])

\* writev fails for good; readv at the end of the data fails or returns 0.
WriteFails(s) == s.wr_shut \/ s.peer = "rst"
ReadEnds(s) == s.rx = 0 /\ s.peer # "open"

\* The network.
DataArrives(s) == Wake([s EXCEPT !.rx = @ + 1, !.rx_left = @ - 1])
PeerCloses(s, how) == Wake([s EXCEPT !.peer = how])
RoomAgain(s) == [s EXCEPT !.writable = TRUE, !.edge = @ \/ s.armed]
=============================================================================
