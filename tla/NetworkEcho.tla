----------------------------- MODULE NetworkEcho -----------------------------
(***************************************************************************)
(* The network benchmarks.  Each test starts an echo server thread and a   *)
(* client thread; the client sends a message, waits for the whole echo,    *)
(* sends the next one.  TCP bytes are counted in units, a message has      *)
(* MsgSize of them; a UDP message is one datagram.                         *)
(*   "c"     src/network_io_benchmarker.c: the threads meet at a barrier   *)
(*   "cpp"   src/network_io_benchmarker_cpp.cpp: futures and no barrier; a *)
(*           set-up that fails is an exception, caught in its thread       *)
(***************************************************************************)
EXTENDS Integers, FiniteSets

CONSTANTS Programs,     \* subset of "c", "cpp"
          Tests,        \* the tests: subset of "throughput", "buffer", "multiplexer"
          Protocols,    \* subset of "tcp", "udp"
          Windows,      \* units that fit between sender and receiver, per direction;
                        \* the 1 KB messages of the multiplexer test always fit
          Platforms,    \* "linux" has pthread_barrier_wait, "apple" uses the shim
          MsgSize,      \* message_size in units
          NumMessages,  \* num_messages
          MayFail       \* whether socket, bind, listen or connect may fail

ASSUME NetworkAssumption ==
  /\ Programs \subseteq {"c", "cpp"}
  /\ Tests \subseteq {"throughput", "buffer", "multiplexer"}
  /\ Protocols \subseteq {"tcp", "udp"} /\ Platforms \subseteq {"linux", "apple"}
  /\ Windows \subseteq Nat \ {0} /\ MsgSize \in Nat \ {0} /\ NumMessages \in Nat
  /\ MayFail \in BOOLEAN

VARIABLES
  program, test, proto, mux, window, platform,   \* what this run of a test is about
  main, stop_flag,
  count,          \* the barrier's count
  pc,             \* where the server and the client thread are
  conn,           \* the connection: none, pending in the backlog, accepted, closed
  c2s, s2c,       \* units or datagrams under way to the server and to the client
  edge, ready,    \* epoll: events not yet reported; events being handled
  hand,           \* units the server has received and not yet sent back
  left, got,      \* the client's message: units to send; total_received
  sent, received, \* the client's messages_sent and messages_received
  took, echoed,   \* the server's bytes_received and bytes_sent
  dropped,        \* history: units the server could not send back
  failed          \* whether a set-up call has failed

config  == <<program, test, proto, mux, window, platform>>
mainVars == <<main, stop_flag>>
wire    == <<c2s, s2c>>
serverVars == <<ready, hand, took, echoed, dropped>>
clientVars == <<left, got, sent, received>>
vars == <<config, mainVars, count, pc, conn, wire, edge, serverVars,
          clientVars, failed>>

\* run_multiplexer_test: what the platform has.
Multiplexers == {"select", IF platform = "linux" THEN "epoll" ELSE "kqueue"}

Init ==
  /\ program \in Programs /\ test \in Tests
  /\ proto \in IF test = "multiplexer" THEN {"tcp"} \cap Protocols ELSE Protocols
  /\ platform \in Platforms
  /\ mux \in IF test = "multiplexer" THEN Multiplexers ELSE {"select"}
  /\ window \in Windows /\ (test = "multiplexer" => MsgSize <= window)
  /\ main = "start" /\ stop_flag = FALSE /\ count = 0
  /\ pc = [who \in {"server", "client"} |-> "unborn"]
  /\ conn = "none" /\ c2s = 0 /\ s2c = 0 /\ edge = {} /\ ready = {}
  /\ hand = 0 /\ left = 0 /\ got = 0
  /\ sent = 0 /\ received = 0 /\ took = 0 /\ echoed = 0 /\ dropped = 0
  /\ failed = FALSE

Least(a, b) == IF a <= b THEN a ELSE b
Alive == main # "killed"
At(who, place) == Alive /\ pc[who] = place
Goto(who, from, to) == At(who, from) /\ pc' = [pc EXCEPT ![who] = to]

-----------------------------------------------------------------------------
(* throughput_test, buffer_size_test and multiplexer_test *)

StartServer ==
  /\ main = "start" /\ Goto("server", "unborn", "setup")
  /\ UNCHANGED <<config, mainVars, count, conn, wire, edge, serverVars, clientVars, failed>>

\* After a pause of 100 ms.  Only the throughput test sleeps then.
StartClient ==
  /\ main = "start" /\ pc["server"] # "unborn" /\ Goto("client", "unborn", "setup")
  /\ main' = IF test = "throughput" THEN "sleep" ELSE "join_client"
  /\ UNCHANGED <<config, stop_flag, count, conn, wire, edge, serverVars, clientVars, failed>>

\* std::async has no thread for the client: the exception destroys the future
\* of the server, which waits for it.  Nobody raises the flag any more.
ClientAsyncFails ==
  /\ program = "cpp" /\ MayFail
  /\ main = "start" /\ pc["server"] # "unborn"
  /\ main' = "unwind" /\ failed' = TRUE
  /\ UNCHANGED <<config, stop_flag, count, pc, conn, wire, edge, serverVars, clientVars>>

Unwound ==
  /\ main = "unwind" /\ pc["server"] = "done"
  /\ main' = "exit"
  /\ UNCHANGED <<config, stop_flag, count, pc, conn, wire, edge, serverVars, clientVars, failed>>

DurationOver ==
  /\ main = "sleep"
  /\ stop_flag' = TRUE /\ main' = "join_client"
  /\ UNCHANGED <<config, count, pc, conn, wire, edge, serverVars, clientVars, failed>>

\* Mutant: the server is joined without being told to stop.
JoinClientQuietly ==
  /\ main = "join_client" /\ pc["client"] = "done"
  /\ main' = "join_server"
  /\ UNCHANGED <<config, stop_flag, count, pc, conn, wire, edge, serverVars, clientVars, failed>>

JoinClient ==
  /\ main = "join_client" /\ pc["client"] = "done"
  /\ stop_flag' = TRUE /\ main' = "join_server"
  /\ UNCHANGED <<config, count, pc, conn, wire, edge, serverVars, clientVars, failed>>

JoinServer ==
  /\ main = "join_server" /\ pc["server"] = "done"
  /\ main' = "exit"
  /\ UNCHANGED <<config, stop_flag, count, pc, conn, wire, edge, serverVars, clientVars, failed>>

-----------------------------------------------------------------------------
(* set-up of either thread, and the barrier *)

AfterBarrier(who) ==
  IF who = "server" THEN "poll" ELSE IF proto = "tcp" THEN "connect" ELSE "loop"

SetUp(who) ==
  /\ program = "c" /\ Goto(who, "setup", "barrier")
  /\ UNCHANGED <<config, mainVars, count, conn, wire, edge, serverVars, clientVars, failed>>

\* create_listen_socket and the head of run.  The C++ threads do not wait for
\* each other.
CppSetUp(who) ==
  /\ program = "cpp" /\ Goto(who, "setup", AfterBarrier(who))
  /\ UNCHANGED <<config, mainVars, count, conn, wire, edge, serverVars, clientVars, failed>>

\* socket, bind, listen or epoll_create1 fails: the thread ends, in C without
\* going to the barrier.
SetUpFails(who) ==
  /\ MayFail /\ failed' = TRUE
  /\ Goto(who, "setup", "done")
  /\ UNCHANGED <<config, mainVars, count, conn, wire, edge, serverVars, clientVars>>

\* pthread_barrier_wait of two threads: the first sleeps, the second wakes it.
BarrierArrive(who) ==
  /\ At(who, "barrier")
  /\ IF count + 1 >= 2
     THEN /\ count' = 0
          /\ pc' = [x \in {"server", "client"} |->
                      IF x = who \/ pc[x] = "asleep" THEN AfterBarrier(x) ELSE pc[x]]
     ELSE /\ count' = count + 1
          /\ pc' = [pc EXCEPT ![who] = "asleep"]
  /\ UNCHANGED <<config, mainVars, conn, wire, edge, serverVars, clientVars, failed>>

SpuriousWake(who) ==
  /\ platform = "apple"
  /\ Goto(who, "asleep", AfterBarrier(who))
  /\ UNCHANGED <<config, mainVars, count, conn, wire, edge, serverVars, clientVars, failed>>

Listening == pc["server"] \notin {"unborn", "setup", "done"}

-----------------------------------------------------------------------------
(* tcp_server_select, tcp_server_epoll and tcp_server_kqueue *)

ReadyNow ==
  (IF conn = "pending" THEN {"listen"} ELSE {}) \cup
  (IF conn = "accepted" /\ (c2s > 0 \/ pc["client"] = "done") THEN {"data"} ELSE {})

\* The flag is down and an event comes.  epoll is edge triggered: what it has
\* reported once it reports again only when something new arrives.
Poll ==
  /\ proto = "tcp" /\ ~stop_flag /\ Goto("server", "poll", "handle")
  /\ ready' = IF mux = "epoll" THEN edge ELSE ReadyNow
  /\ ready' # {}
  /\ edge' = {}
  /\ UNCHANGED <<config, mainVars, count, conn, wire, hand, took, echoed, dropped,
                 clientVars, failed>>

\* The flag is up: close the connections and the listening socket.
ServerStops ==
  /\ stop_flag /\ Goto("server", "poll", "done")
  /\ conn' = IF conn = "none" THEN "none" ELSE "closed"
  /\ c2s' = 0 /\ edge' = {}
  /\ UNCHANGED <<config, mainVars, count, s2c, serverVars, clientVars, failed>>

\* accept, and with epoll and kqueue the registration of the new socket,
\* which reports data that is there already.
Accept ==
  /\ At("server", "handle") /\ "listen" \in ready
  /\ conn' = "accepted"
  /\ edge' = IF c2s > 0 \/ pc["client"] = "done" THEN {"data"} ELSE {}
  /\ ready' = ready \ {"listen"}
  /\ UNCHANGED <<config, mainVars, count, pc, wire, hand, took, echoed, dropped,
                 clientVars, failed>>

\* recv of at most message_size; at the end of the stream the connection is closed.
Recv ==
  /\ "data" \in ready
  /\ \/ /\ c2s > 0 /\ Goto("server", "handle", "echo")
        /\ hand' = Least(c2s, MsgSize)
        /\ c2s' = c2s - hand' /\ took' = took + hand'
        /\ UNCHANGED <<conn, ready>>
     \/ /\ c2s = 0 /\ At("server", "handle")
        /\ conn' = IF pc["client"] = "done" THEN "closed" ELSE conn
        /\ ready' = ready \ {"data"}
        /\ UNCHANGED <<pc, hand, c2s, took>>
  /\ UNCHANGED <<config, mainVars, count, s2c, edge, echoed, dropped, clientVars, failed>>

\* select goes on to the next descriptor, the others receive until there is
\* no more.
AfterEcho == IF mux = "select" THEN ready \ {"data"} ELSE ready

\* Mutant: everything is taken to be sent.
EchoOverrun ==
  /\ proto = "tcp" /\ Goto("server", "echo", "handle")
  /\ s2c' = s2c + hand /\ echoed' = echoed + hand
  /\ hand' = 0
  /\ ready' = AfterEcho
  /\ UNCHANGED <<config, mainVars, count, conn, c2s, edge, took, dropped, clientVars, failed>>

\* send on the non-blocking socket takes what fits.  The rest is forgotten, as
\* is all of it when nothing fits.
Echo ==
  /\ proto = "tcp" /\ Goto("server", "echo", "handle")
  /\ LET n == Least(hand, window - s2c) IN
       s2c' = s2c + n /\ echoed' = echoed + n /\ dropped' = dropped + hand - n
  /\ hand' = 0
  /\ ready' = AfterEcho
  /\ UNCHANGED <<config, mainVars, count, conn, c2s, edge, took, clientVars, failed>>

Handled ==
  /\ ready = {} /\ proto = "tcp" /\ Goto("server", "handle", "poll")
  /\ UNCHANGED <<config, mainVars, count, conn, wire, edge, serverVars, clientVars, failed>>

-----------------------------------------------------------------------------
(* tcp_client.  Whatever reaches an accepted connection makes an edge. *)

Touch(condition) ==
  edge' = IF condition /\ conn = "accepted" THEN edge \cup {"data"} ELSE edge

Connect ==
  /\ proto = "tcp"
  /\ \/ /\ Listening /\ Goto("client", "connect", "loop")
        /\ conn' = "pending" /\ edge' = edge \cup {"listen"}
        /\ UNCHANGED failed
     \/ /\ ~Listening \/ MayFail
        /\ Goto("client", "connect", "done")
        /\ failed' = TRUE
        /\ UNCHANGED <<conn, edge>>
  /\ UNCHANGED <<config, mainVars, count, wire, serverVars, clientVars>>

\* The head of the loop, for both protocols.
NextMessage ==
  /\ \/ /\ sent < NumMessages /\ ~stop_flag
        /\ Goto("client", "loop", "send")
        /\ left' = MsgSize /\ got' = 0
        /\ UNCHANGED edge
     \/ /\ sent = NumMessages \/ stop_flag
        /\ Goto("client", "loop", "done")
        /\ Touch(TRUE)
        /\ UNCHANGED <<left, got>>
  /\ UNCHANGED <<config, mainVars, count, conn, wire, serverVars, sent, received, failed>>

\* A blocking send, which waits for room; what it puts arrives in pieces.
Send ==
  /\ proto = "tcp" /\ conn # "closed"
  /\ \E n \in 1 .. Least(left, window - c2s) :
       /\ Goto("client", "send", IF n = left THEN "recv" ELSE "send")
       /\ left' = left - n /\ c2s' = c2s + n
       /\ sent' = IF n = left THEN sent + 1 ELSE sent
  /\ Touch(TRUE)
  /\ UNCHANGED <<config, mainVars, count, conn, s2c, serverVars, got, received, failed>>

\* The server has closed: a send that fits is taken and lost, or ends with an
\* error; one that had to be split may meet the reset half-way, as SIGPIPE.
SendClosed ==
  /\ program = "c" /\ proto = "tcp" /\ conn = "closed"
  /\ \/ /\ left <= window /\ Goto("client", "send", "recv")
        /\ left' = 0 /\ sent' = sent + 1 /\ UNCHANGED main
     \/ Goto("client", "send", "done") /\ UNCHANGED <<left, sent, main>>
     \/ /\ window < MsgSize
        /\ At("client", "send")
        /\ main' = "killed" /\ UNCHANGED <<left, sent, pc>>
  /\ UNCHANGED <<config, stop_flag, count, conn, wire, edge, serverVars, got,
                 received, failed>>

\* The C++ program ignores SIGPIPE, and after an error its loop goes on.
CppSendClosed ==
  /\ program = "cpp" /\ proto = "tcp" /\ conn = "closed"
  /\ \/ /\ left <= window /\ Goto("client", "send", "recv")
        /\ left' = 0 /\ sent' = sent + 1
     \/ Goto("client", "send", "loop") /\ UNCHANGED <<left, sent>>
  /\ UNCHANGED <<config, mainVars, count, conn, wire, edge, serverVars, got,
                 received, failed>>

\* Mutant: the first piece of an echo counts as the whole.
ReceivePiece ==
  /\ proto = "tcp" /\ s2c > 0
  /\ Goto("client", "recv", "loop")
  /\ got' = got + Least(s2c, MsgSize - got) /\ s2c' = s2c - (got' - got)
  /\ received' = received + 1
  /\ UNCHANGED <<config, mainVars, count, conn, c2s, edge, serverVars, left, sent, failed>>

\* recv until the whole message is back.
Receive ==
  /\ proto = "tcp" /\ s2c > 0
  /\ LET n == Least(s2c, MsgSize - got) IN
       /\ s2c' = s2c - n /\ got' = got + n
       /\ Goto("client", "recv", IF got + n = MsgSize THEN "loop" ELSE "recv")
       /\ received' = IF got + n = MsgSize THEN received + 1 ELSE received
  /\ UNCHANGED <<config, mainVars, count, conn, c2s, edge, serverVars, left, sent, failed>>

\* The server has closed: what it sent may still come or may not.
ReceiveEnd ==
  /\ proto = "tcp" /\ conn = "closed"
  /\ Goto("client", "recv", "done")
  /\ UNCHANGED <<config, mainVars, count, conn, wire, edge, serverVars, clientVars, failed>>

-----------------------------------------------------------------------------
(* udp_server and udp_client: blocking calls on both sides; the network may
   lose a datagram, and does when nobody listens or the buffer is full.  The
   64 KB messages of the buffer test are longer than a datagram can be. *)

TooLong == test = "buffer"

\* The C++ server serves UDP by run_select, too: accept fails on the readable
\* socket, nothing is ever received from it, and the server polls on.
ReceivesDatagrams == program = "c"

\* The flag is down; recvfrom returns when there is a datagram, also if the
\* flag has come up meanwhile.
UdpWait ==
  /\ proto = "udp" /\ ReceivesDatagrams
  /\ ~stop_flag /\ Goto("server", "poll", "handle")
  /\ UNCHANGED <<config, mainVars, count, conn, wire, edge, serverVars, clientVars, failed>>

UdpServe ==
  /\ proto = "udp" /\ c2s > 0 /\ Goto("server", "handle", "poll")
  /\ c2s' = c2s - 1 /\ took' = took + 1 /\ echoed' = echoed + 1
  /\ \/ s2c < window /\ s2c' = s2c + 1
     \/ UNCHANGED s2c
  /\ UNCHANGED <<config, mainVars, count, conn, edge, ready, hand, dropped,
                 clientVars, failed>>

\* Mutant: the echo is not awaited.
UdpSendOn ==
  /\ proto = "udp" /\ ~TooLong /\ Goto("client", "send", "loop")
  /\ sent' = sent + 1
  /\ \/ Listening /\ c2s < window /\ c2s' = c2s + 1
     \/ UNCHANGED c2s
  /\ left' = 0
  /\ UNCHANGED <<config, mainVars, count, conn, s2c, edge, serverVars, got, received, failed>>

UdpSend ==
  /\ proto = "udp" /\ ~TooLong /\ Goto("client", "send", "recv")
  /\ sent' = sent + 1
  /\ \/ Listening /\ c2s < window /\ c2s' = c2s + 1
     \/ UNCHANGED c2s
  /\ left' = 0
  /\ UNCHANGED <<config, mainVars, count, conn, s2c, edge, serverVars, got, received, failed>>

\* sendto fails for each of the messages; the loop ends.
UdpSendFails ==
  /\ proto = "udp" /\ TooLong /\ Goto("client", "send", "done")
  /\ left' = 0
  /\ UNCHANGED <<config, mainVars, count, conn, wire, edge, serverVars, got, sent,
                 received, failed>>

UdpReceive ==
  /\ proto = "udp" /\ s2c > 0 /\ Goto("client", "recv", "loop")
  /\ s2c' = s2c - 1 /\ received' = received + 1
  /\ UNCHANGED <<config, mainVars, count, conn, c2s, edge, serverVars, left, got,
                 sent, failed>>

-----------------------------------------------------------------------------
Main == \/ StartServer \/ StartClient \/ ClientAsyncFails \/ Unwound
        \/ DurationOver \/ JoinClient \/ JoinServer

Entry(who) == SetUp(who) \/ CppSetUp(who) \/ SetUpFails(who) \/ BarrierArrive(who)

\* The loop of run_epoll, and of the other two.
TcpServer == Poll \/ Accept \/ Recv \/ Echo \/ Handled

Server == Entry("server") \/ ServerStops \/ TcpServer \/ UdpWait \/ UdpServe

\* The loop of NetworkClient::run and of tcp_client.
TcpClient == \/ Connect \/ NextMessage
             \/ Send \/ SendClosed \/ CppSendClosed \/ Receive \/ ReceiveEnd

Client == Entry("client") \/ TcpClient \/ UdpSend \/ UdpSendFails \/ UdpReceive

Next == \/ Main \/ Server \/ Client
        \/ \E who \in {"server", "client"} : SpuriousWake(who)
        \/ (main \in {"exit", "killed"} /\ UNCHANGED vars)

Spec == Init /\ [][Next]_vars

\* Both threads and main go on when they can; the network delivers or loses.
FairSpec == Spec /\ WF_vars(Main) /\ WF_vars(Server) /\ WF_vars(Client)

-----------------------------------------------------------------------------
(* Properties *)

Places == {"unborn", "setup", "barrier", "asleep", "connect", "poll", "handle",
           "echo", "loop", "send", "recv", "done"}

\* Every variable has its type.
TypeOK ==
  /\ program \in Programs /\ test \in Tests /\ proto \in Protocols /\ mux \in {"select", "epoll", "kqueue"}
  /\ window \in Windows /\ platform \in Platforms
  /\ main \in {"start", "sleep", "join_client", "join_server", "unwind",
               "exit", "killed"}
  /\ stop_flag \in BOOLEAN /\ count \in 0..1
  /\ pc \in [{"server", "client"} -> Places]
  /\ conn \in {"none", "pending", "accepted", "closed"}
  /\ c2s \in 0..window /\ s2c \in 0..window
  /\ edge \subseteq {"listen", "data"} /\ ready \subseteq {"listen", "data"}
  /\ hand \in 0..MsgSize /\ left \in 0..MsgSize /\ got \in 0..MsgSize
  /\ sent \in 0..NumMessages /\ received \in 0..NumMessages
  /\ took \in Nat /\ echoed \in Nat /\ dropped \in Nat /\ failed \in BOOLEAN

\* While the connection stands, every unit of the current message that was
\* sent is on its way, back, or was dropped by the server; between two
\* messages nothing is under way, so the latency of a message is its own.
EchoIsOfThisMessage ==
  conn \in {"pending", "accepted"} =>
    /\ pc["client"] \in {"send", "recv"} =>
         MsgSize - left = c2s + hand + s2c + got + dropped
    /\ pc["client"] = "loop" => c2s + hand + s2c + dropped = 0

\* A message that fits into the socket buffers comes back whole: the server
\* drops nothing, and no sender is interrupted by SIGPIPE.
NothingDroppedWhenItFits == MsgSize <= window => dropped = 0 /\ main # "killed"

\* The server never sends to a client that has gone (SIGPIPE would end the
\* program), although it sends without looking.
ClientWaitsForEcho == pc["server"] = "echo" => pc["client"] # "done"

\* The counts of both sides agree, for both protocols and whatever is lost:
\* the client waits for one message at most, nothing comes back that the
\* server did not send, and the server sends nothing it did not receive.
CountsAgree ==
  LET unit == IF proto = "tcp" THEN MsgSize ELSE 1 IN
  /\ received <= sent /\ sent <= received + 1
  /\ received * unit <= echoed
  /\ echoed + hand + dropped = took
  /\ took <= sent * unit + (IF left > 0 THEN MsgSize - left ELSE 0)

\* A TCP test ends when it could be set up.  When the server had to drop a
\* part of an echo only the throughput test does: it raises the flag by itself.
Terminates ==
  <>(\/ main \in {"exit", "killed"} \/ failed \/ proto = "udp"
     \/ dropped > 0 /\ test # "throughput")

\* "Run for specified duration" (line 1017): the throughput test ends after it.
EndsAfterDuration == <>(main \in {"exit", "killed"})
=============================================================================
