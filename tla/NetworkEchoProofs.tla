-------------------------- MODULE NetworkEchoProofs --------------------------
(***************************************************************************)
(* NetworkEcho, for every message size, number of messages and size of the *)
(* socket buffers, both programs, all tests and both protocols: an echo is *)
(* of the message the client waits for, and the counts of the two sides    *)
(* agree.                                                                  *)
(***************************************************************************)
EXTENDS NetworkEcho, TLAPS

Both == {"server", "client"}

-----------------------------------------------------------------------------
(* Types *)

\* Every variable keeps its type, but for the bounds of the client's counts,
\* which depend on where the client is.
Typed ==
  /\ program \in Programs /\ test \in Tests /\ proto \in Protocols
  /\ mux \in {"select", "epoll", "kqueue"}
  /\ window \in Windows /\ platform \in Platforms
  /\ main \in {"start", "sleep", "join_client", "join_server", "unwind",
               "exit", "killed"}
  /\ stop_flag \in BOOLEAN /\ count \in 0..1
  /\ pc \in [Both -> Places]
  /\ conn \in {"none", "pending", "accepted", "closed"}
  /\ c2s \in 0..window /\ s2c \in 0..window
  /\ edge \subseteq {"listen", "data"} /\ ready \subseteq {"listen", "data"}
  /\ hand \in 0..MsgSize /\ left \in 0..MsgSize /\ got \in 0..MsgSize
  /\ sent \in Nat /\ received \in Nat
  /\ took \in Nat /\ echoed \in Nat /\ dropped \in Nat /\ failed \in BOOLEAN

\* What the assumption says of the values in a state.
LEMMA NetConstants ==
  ASSUME Typed
  PROVE  MsgSize \in Nat \ {0} /\ NumMessages \in Nat /\ window \in Nat \ {0}
         /\ Protocols \subseteq {"tcp", "udp"} /\ Programs \subseteq {"c", "cpp"}
  BY NetworkAssumption DEF NetworkAssumption, Typed

\* Every action keeps the types.
LEMMA TypedStep == Typed /\ [Next]_vars => Typed'
<1> SUFFICES ASSUME Typed, [Next]_vars PROVE Typed'
  OBVIOUS
<1>c. /\ MsgSize \in Nat \ {0} /\ NumMessages \in Nat /\ window \in Nat \ {0}
      /\ Protocols \subseteq {"tcp", "udp"} /\ Programs \subseteq {"c", "cpp"}
  BY NetConstants
<1>1. CASE Main
  <2>1. /\ main' \in {"sleep", "join_client", "join_server", "unwind", "exit"} \/ main' = main
        /\ stop_flag' = TRUE \/ stop_flag' = stop_flag
        /\ failed' = TRUE \/ failed' = failed
        /\ UNCHANGED <<config, count, conn, wire, edge, serverVars, clientVars>>
    BY <1>1 DEF Main, StartServer, StartClient, ClientAsyncFails, Unwound, DurationOver,
       JoinClient, JoinServer, mainVars
  <2>2. \/ pc' = pc \/ pc' = [pc EXCEPT !["server"] = "setup"]
        \/ pc' = [pc EXCEPT !["client"] = "setup"]
    BY <1>1 DEF Main, StartServer, StartClient, ClientAsyncFails, Unwound, DurationOver,
       JoinClient, JoinServer, Goto
  <2>3. pc' \in [Both -> Places]
    BY <2>2 DEF Typed, Both, Places
  <2>4. /\ main' \in {"start", "sleep", "join_client", "join_server", "unwind", "exit", "killed"}
        /\ stop_flag' \in BOOLEAN /\ failed' \in BOOLEAN
    BY <2>1 DEF Typed
  <2>5. /\ UNCHANGED <<program, test, proto, mux, window, platform, count, conn, c2s, s2c, edge>>
        /\ UNCHANGED <<ready, hand, took, echoed, dropped, left, got, sent, received>>
    BY <2>1 DEF config, wire, serverVars, clientVars
  <2> QED
    BY <2>3, <2>4, <2>5 DEF Typed
<1>2. ASSUME NEW who \in Both, Entry(who) \/ SpuriousWake(who) PROVE Typed'
  <2>1. AfterBarrier("server") \in Places /\ AfterBarrier("client") \in Places
    BY DEF AfterBarrier, Places
  <2>2. "barrier" \in Places /\ "asleep" \in Places /\ "done" \in Places
    BY DEF Places
  <2>3. pc' \in [Both -> Places]
    BY <1>2, <2>1, <2>2 DEF Entry, SetUp, CppSetUp, SetUpFails, BarrierArrive, SpuriousWake, Typed,
       Goto, At, Both
  <2>4. \/ count' = count \/ count' = 0
        \/ ~(count + 1 >= 2) /\ count' = count + 1
    BY <1>2 DEF Entry, SetUp, CppSetUp, SetUpFails, BarrierArrive, SpuriousWake
  <2>6. failed' = failed \/ failed' = TRUE
    BY <1>2 DEF Entry, SetUp, CppSetUp, SetUpFails, BarrierArrive, SpuriousWake
  <2>7. count' \in 0..1
    BY <2>4 DEF Typed
  <2>8. failed' \in BOOLEAN
    BY <2>6 DEF Typed
  <2>5. UNCHANGED <<config, mainVars, conn, wire, edge, serverVars, clientVars>>
    BY <1>2 DEF Entry, SetUp, CppSetUp, SetUpFails, BarrierArrive, SpuriousWake,
                config, mainVars, wire, serverVars, clientVars
  <2> QED
    BY <2>3, <2>5, <2>7, <2>8 DEF Typed, config, mainVars, wire, serverVars, clientVars
<1>3. CASE ServerStops
  BY <1>3, <1>c DEF ServerStops, Typed, config, mainVars, wire, serverVars, clientVars,
     Goto, At, Both, Places, Least
<1>4. CASE Poll
  BY <1>4, <1>c DEF Poll, ReadyNow, Typed, config, mainVars, wire, serverVars, clientVars,
     Goto, At, Both, Places, Least
<1>5. CASE Accept
  BY <1>5, <1>c DEF Accept, Typed, config, mainVars, wire, serverVars, clientVars,
     Goto, At, Both, Places, Least
<1>6. CASE Recv
  <2>1. CASE c2s > 0 /\ Goto("server", "handle", "echo")
    <3>1. hand' = Least(c2s, MsgSize) /\ c2s' = c2s - hand' /\ took' = took + hand'
          /\ UNCHANGED <<conn, ready>>
      BY <1>6, <2>1 DEF Recv, Goto, At, Typed
    <3>2. hand' \in 0..MsgSize /\ c2s' \in 0..window /\ took' \in Nat
      BY <1>c, <3>1 DEF Least, Typed
    <3> QED
      BY <1>6, <2>1, <3>1, <3>2 DEF Recv, Typed, config, mainVars, wire, serverVars, clientVars,
         Goto, At, Both, Places
  <2>2. CASE c2s = 0
    <3>1. /\ conn' \in {conn, "closed"} /\ ready' = ready \ {"data"}
          /\ UNCHANGED <<pc, hand, c2s, took>>
      BY <1>6, <2>2 DEF Recv, Typed
    <3> QED
      BY <1>6, <3>1 DEF Recv, Typed, config, mainVars, clientVars
  <2> QED
    BY <1>6, <2>1, <2>2 DEF Recv
<1>7. CASE Handled
  BY <1>7, <1>c DEF Handled, Typed, config, mainVars, wire, serverVars, clientVars,
     Goto, At, Both, Places, Least
<1>8. CASE UdpWait
  BY <1>8, <1>c DEF UdpWait, Typed, config, mainVars, wire, serverVars, clientVars,
     Goto, At, Both, Places, Least
<1>9. CASE Echo
  BY <1>9, <1>c DEF Echo, AfterEcho, Typed, config, mainVars, wire, serverVars, clientVars,
     Goto, At, Both, Places, Least
<1>10. CASE UdpServe
  BY <1>10, <1>c DEF UdpServe, Typed, config, mainVars, wire, serverVars, clientVars,
     Goto, At, Both, Places, Least
<1>11. CASE Connect
  <2>1. pc' \in [Both -> Places]
    BY <1>11 DEF Connect, Goto, At, Typed, Both, Places
  <2>2. /\ edge' \subseteq {"listen", "data"} /\ conn' \in {"none", "pending", "accepted", "closed"}
        /\ left' \in 0..MsgSize /\ got' \in 0..MsgSize
    BY <1>11, <1>c DEF Connect, Typed, clientVars
  <2> QED
    BY <1>11, <2>1, <2>2 DEF Connect, Typed, config, mainVars, wire, serverVars, clientVars
<1>12. CASE NextMessage
  <2>1. edge' \subseteq {"listen", "data"}
    BY <1>12 DEF NextMessage, Touch, Typed
  <2>2. left' \in 0..MsgSize /\ got' \in 0..MsgSize
    <3>1. \/ left' = MsgSize /\ got' = 0
          \/ UNCHANGED <<left, got>>
      BY <1>12 DEF NextMessage
    <3> QED
      BY <1>c, <3>1 DEF Typed
  <2>3. pc' \in [Both -> Places]
    BY <1>12 DEF NextMessage, Goto, At, Typed, Both, Places
  <2> QED
    BY <1>12, <2>1, <2>2, <2>3
       DEF NextMessage, Typed, config, mainVars, wire, serverVars
<1>13. CASE ReceiveEnd
  BY <1>13, <1>c DEF ReceiveEnd, Typed, config, mainVars, wire, serverVars, clientVars,
     Goto, At, Both, Places, Least
<1>14. CASE SendClosed
  BY <1>14, <1>c DEF SendClosed, Typed, config, mainVars, wire, serverVars, clientVars,
     Goto, At, Both, Places, Least
<1>15. CASE CppSendClosed
  BY <1>15, <1>c DEF CppSendClosed, Typed, config, mainVars, wire, serverVars, clientVars,
     Goto, At, Both, Places, Least
<1>16. CASE Send
  BY <1>16, <1>c DEF Send, Touch, Typed, config, mainVars, wire, serverVars, clientVars,
     Goto, At, Both, Places, Least
<1>17. CASE Receive
  BY <1>17, <1>c DEF Receive, Typed, config, mainVars, wire, serverVars, clientVars,
     Goto, At, Both, Places, Least
<1>18. CASE UdpSend
  BY <1>18, <1>c DEF UdpSend, Typed, config, mainVars, wire, serverVars, clientVars,
     Goto, At, Both, Places, Least
<1>19. CASE UdpSendFails
  BY <1>19, <1>c DEF UdpSendFails, Typed, config, mainVars, wire, serverVars, clientVars,
     Goto, At, Both, Places, Least
<1>20. CASE UdpReceive
  BY <1>20, <1>c DEF UdpReceive, Typed, config, mainVars, wire, serverVars, clientVars,
     Goto, At, Both, Places, Least
<1>21. CASE UNCHANGED vars
  BY <1>21, <1>c DEF vars, Typed, config, mainVars, wire, serverVars, clientVars
<1> QED
  BY <1>1, <1>2, <1>3, <1>4, <1>5, <1>6, <1>7, <1>8, <1>9, <1>10, <1>11, <1>12,
     <1>13, <1>14, <1>15, <1>16, <1>17, <1>18, <1>19, <1>20, <1>21
     DEF Next, Server, TcpServer, Client, TcpClient, Both

-----------------------------------------------------------------------------
(* The inductive invariant *)

\* The server has units in hand only at its send, and events to handle only
\* between two polls; it sends on a connection it has accepted.
ServerAt ==
  /\ pc["server"] \in {"unborn", "setup", "barrier", "asleep", "poll", "handle", "echo", "done"}
  /\ pc["server"] \notin {"handle", "echo"} => ready = {}
  /\ pc["server"] # "echo" => hand = 0
  /\ pc["server"] = "echo" => conn = "accepted" /\ hand > 0
  /\ proto = "udp" => pc["server"] # "echo" /\ ready = {} /\ dropped = 0 /\ conn = "none"

\* An event is about the connection as it is.
EventsAreTrue ==
  /\ "listen" \in edge \cup ready => conn = "pending"
  /\ "data" \in edge \cup ready => conn \in {"accepted", "closed"}

Early == {"unborn", "setup", "barrier", "asleep", "connect"}

\* Where the client is, and what it has left to send and read there.
ClientAt ==
  /\ pc["client"] \in Early \cup {"loop", "send", "recv", "done"}
  /\ pc["client"] \in Early => conn = "none" /\ left = 0
  /\ proto = "tcp" /\ pc["client"] \in {"loop", "send", "recv"} => conn # "none"
  /\ pc["client"] = "send" => sent < NumMessages /\ got = 0
  /\ pc["client"] = "loop" /\ left > 0 => stop_flag
  /\ pc["client"] = "recv" => left = 0

\* What is on the connection, in each of its states.
OnTheWire ==
  /\ conn = "closed" => c2s = 0 /\ (stop_flag \/ pc["client"] = "done")
  /\ conn = "none" /\ proto = "tcp" => c2s = 0 /\ s2c = 0 /\ hand = 0 /\ dropped = 0
  /\ EchoIsOfThisMessage
  /\ conn \in {"pending", "accepted"} /\ pc["client"] = "done" =>
       c2s = 0 /\ hand = 0 /\ s2c = 0 /\ dropped = 0

\* Messages: the client is one ahead while it waits.
Messages ==
  /\ pc["client"] \in Early \cup {"loop", "send"} => sent = received
  /\ pc["client"] = "recv" => sent = received + 1
  /\ received <= sent /\ sent <= received + 1 /\ sent <= NumMessages

\* The units of a number of messages.
InUnits(messages) == messages * MsgSize

\* The units of whole messages: products stay out of the proofs below.
LEMMA UnitsOfMessages ==
  ASSUME MsgSize \in Nat
  PROVE  InUnits(0) = 0
         /\ \A n \in Nat : InUnits(n) \in Nat /\ InUnits(n + 1) = InUnits(n) + MsgSize
  BY DEF InUnits

\* Units, or datagrams: each is counted once on its way.
Begun == IF left > 0 THEN MsgSize - left ELSE 0
Arrived == IF pc["client"] = "recv" THEN got ELSE 0

Units ==
  /\ echoed + hand + dropped = took
  /\ proto = "tcp" => /\ InUnits(received) + s2c + Arrived <= echoed
                     /\ took + c2s <= InUnits(sent) + Begun
  /\ proto = "udp" => received + s2c <= echoed /\ took + c2s <= sent

\* The inductive invariant.
NetInv == /\ Typed /\ ServerAt /\ EventsAreTrue /\ ClientAt /\ OnTheWire /\ Messages /\ Units
          /\ NothingDroppedWhenItFits

\* Every action keeps the invariant.
LEMMA NetInvStep == NetInv /\ [Next]_vars => NetInv'
<1> SUFFICES ASSUME NetInv, [Next]_vars PROVE NetInv'
  OBVIOUS
<1>t. Typed'
  BY TypedStep DEF NetInv
<1>c. /\ MsgSize \in Nat \ {0} /\ NumMessages \in Nat /\ window \in Nat \ {0}
      /\ Protocols \subseteq {"tcp", "udp"} /\ Programs \subseteq {"c", "cpp"}
  BY NetConstants DEF NetInv
<1>u. /\ InUnits(sent) \in Nat /\ InUnits(received) \in Nat
      /\ InUnits(sent + 1) = InUnits(sent) + MsgSize
      /\ InUnits(received + 1) = InUnits(received) + MsgSize
  BY <1>c, UnitsOfMessages DEF NetInv, Typed
<1>n. /\ hand \in Int /\ dropped \in Int /\ echoed \in Int /\ took \in Int /\ sent \in Int
      /\ received \in Int /\ c2s \in Int /\ s2c \in Int /\ "tcp" # "udp"
  BY DEF NetInv, Typed
<1> USE <1>c, <1>t DEF NetInv, Typed, config, mainVars, wire, serverVars, clientVars,
    Goto, At, Alive, Both
<1>1. CASE Main
  <2>1. ServerAt'
    BY <1>1 DEF Main, StartServer, StartClient, ClientAsyncFails, Unwound,
        DurationOver, JoinClient, JoinServer, ServerAt, EventsAreTrue, ClientAt, Early
  <2>2. EventsAreTrue'
    BY <1>1 DEF Main, StartServer, StartClient, ClientAsyncFails, Unwound,
        DurationOver, JoinClient, JoinServer, ServerAt, EventsAreTrue, ClientAt, Early
  <2>3. ClientAt'
    BY <1>1 DEF Main, StartServer, StartClient, ClientAsyncFails, Unwound,
        DurationOver, JoinClient, JoinServer, ClientAt, OnTheWire, Early
  <2>4. OnTheWire'
    <3>1. /\ stop_flag => stop_flag'
          /\ UNCHANGED <<window, proto, conn, c2s, s2c, hand, left, got, dropped>>
      BY <1>1 DEF Main, StartServer, StartClient, ClientAsyncFails, Unwound,
         DurationOver, JoinClient, JoinServer
    <3>2. \A place \in {"loop", "send", "recv", "done"} :
            pc'["client"] = place <=> pc["client"] = place
      BY <1>1 DEF Main, StartServer, StartClient, ClientAsyncFails, Unwound,
         DurationOver, JoinClient, JoinServer
    <3> QED
      BY <3>1, <3>2 DEF OnTheWire, EchoIsOfThisMessage
  <2>5. Messages'
    BY <1>1 DEF Main, StartServer, StartClient, ClientAsyncFails, Unwound,
        DurationOver, JoinClient, JoinServer, ClientAt, Messages, Early
  <2>6. Units'
    <3>1. UNCHANGED <<proto, c2s, s2c, hand, left, got, sent, received, took, echoed, dropped>>
      BY <1>1 DEF Main, StartServer, StartClient, ClientAsyncFails, Unwound,
         DurationOver, JoinClient, JoinServer
    <3>2. pc'["client"] = "recv" <=> pc["client"] = "recv"
      BY <1>1 DEF Main, StartServer, StartClient, ClientAsyncFails, Unwound,
         DurationOver, JoinClient, JoinServer
    <3>3. InUnits(sent)' = InUnits(sent) /\ InUnits(received)' = InUnits(received)
      BY <3>1 DEF InUnits
    <3> QED
      BY <3>1, <3>2, <3>3 DEF Units, Begun, Arrived
  <2>7. NothingDroppedWhenItFits'
    <3>1. UNCHANGED <<window, dropped>> /\ (main # "killed" => main' # "killed")
      BY <1>1 DEF Main, StartServer, StartClient, ClientAsyncFails, Unwound,
         DurationOver, JoinClient, JoinServer
    <3> QED
      BY <3>1 DEF NothingDroppedWhenItFits
  <2> QED
    BY <2>1, <2>2, <2>3, <2>4, <2>5, <2>6, <2>7
<1>2. ASSUME NEW who \in Both, Entry(who) \/ SpuriousWake(who) PROVE NetInv'
  <2>1. UNCHANGED <<config, mainVars, conn, wire, edge, serverVars, clientVars>>
    BY <1>2 DEF Entry, SetUp, CppSetUp, SetUpFails, BarrierArrive, SpuriousWake
  <2>2. \/ pc'["server"] = pc["server"]
        \/ /\ pc["server"] \in {"setup", "barrier", "asleep"}
           /\ pc'["server"] \in {"barrier", "asleep", "poll", "done"}
    BY <1>2 DEF Entry, SetUp, CppSetUp, SetUpFails, BarrierArrive, SpuriousWake, AfterBarrier
  <2>3. \/ pc'["client"] = pc["client"]
        \/ /\ pc["client"] \in {"setup", "barrier", "asleep"}
           /\ pc'["client"] \in {"barrier", "asleep", "connect", "loop", "done"}
           /\ pc'["client"] = "loop" => proto # "tcp"
    BY <1>2 DEF Entry, SetUp, CppSetUp, SetUpFails, BarrierArrive, SpuriousWake, AfterBarrier
  <2>4. ServerAt'
    BY <2>1, <2>2 DEF ServerAt
  <2>5. EventsAreTrue'
    BY <2>1 DEF EventsAreTrue
  <2>6. ClientAt'
    BY <2>1, <2>3 DEF ClientAt, Early
  <2>7. OnTheWire'
    <3>1. pc["client"] \in {"setup", "barrier", "asleep"} => conn = "none" /\ left = 0
      BY DEF ClientAt, Early
    <3>2. \A place \in {"send", "recv"} : pc'["client"] = place <=> pc["client"] = place
      BY <2>3
    <3>3. pc'["client"] = "done" => pc["client"] = "done" \/ conn = "none"
      BY <2>3, <3>1
    <3>4. EchoIsOfThisMessage'
      BY <2>1, <2>3, <3>1, <3>2 DEF EchoIsOfThisMessage, OnTheWire
    <3>5. pc["client"] = "done" => pc'["client"] = "done"
      BY <2>3
    <3> QED
      BY <2>1, <3>3, <3>4, <3>5 DEF OnTheWire
  <2>8. Messages'
    BY <2>1, <2>3 DEF Messages, Early
  <2>9. Units'
    <3>1. InUnits(sent)' = InUnits(sent) /\ InUnits(received)' = InUnits(received)
      BY <2>1 DEF InUnits
    <3>2. pc'["client"] = "recv" <=> pc["client"] = "recv"
      BY <2>3
    <3> QED
      BY <2>1, <3>1, <3>2 DEF Units, Begun, Arrived
  <2>10. NothingDroppedWhenItFits'
    BY <2>1 DEF NothingDroppedWhenItFits
  <2> QED
    BY <2>4, <2>5, <2>6, <2>7, <2>8, <2>9, <2>10
<1>3. CASE ServerStops
  BY <1>3, <1>u DEF ServerStops, ServerAt, EventsAreTrue, ClientAt, OnTheWire,
     EchoIsOfThisMessage,     Messages, Units, Begun, Arrived, NothingDroppedWhenItFits, Early
<1>4. CASE Poll
  BY <1>4, <1>u DEF Poll, ReadyNow, ServerAt, EventsAreTrue, ClientAt, OnTheWire,
     EchoIsOfThisMessage,     Messages, Units, Begun, Arrived, NothingDroppedWhenItFits, Early
<1>5. CASE Accept
  BY <1>5, <1>u DEF Accept, ServerAt, EventsAreTrue, ClientAt, OnTheWire,
     EchoIsOfThisMessage,     Messages, Units, Begun, Arrived, NothingDroppedWhenItFits, Early
<1>6. CASE Recv
  <2>1. CASE c2s = 0
    <3>1. /\ "data" \in ready /\ pc["server"] = "handle" /\ UNCHANGED <<pc, hand, c2s, took>>
          /\ conn' = IF pc["client"] = "done" THEN "closed" ELSE conn
          /\ ready' = ready \ {"data"}
      BY <1>6, <2>1 DEF Recv
    <3>2. UNCHANGED <<config, mainVars, count, s2c, edge, echoed, dropped, clientVars, failed>>
      BY <1>6 DEF Recv
    <3> QED
      BY <2>1, <3>1, <3>2 DEF ServerAt, EventsAreTrue, ClientAt, OnTheWire, EchoIsOfThisMessage,
         Messages, Units, Begun, Arrived, NothingDroppedWhenItFits, Early
  <2>2. CASE c2s > 0
    <3>0. c2s # 0
      BY <2>2
    <3>1. /\ "data" \in ready /\ pc["server"] = "handle" /\ pc' = [pc EXCEPT !["server"] = "echo"]
          /\ hand' = Least(c2s, MsgSize) /\ c2s' = c2s - hand' /\ took' = took + hand'
          /\ UNCHANGED <<conn, ready>>
      BY <1>6, <3>0 DEF Recv
    <3>2. UNCHANGED <<config, mainVars, count, s2c, edge, echoed, dropped, clientVars, failed>>
      BY <1>6 DEF Recv
    <3>3. hand' > 0 /\ hand' <= c2s
      BY <2>2, <3>1 DEF Least
    <3>4. hand = 0
      BY <3>1 DEF ServerAt
    <3>5. ServerAt' /\ EventsAreTrue'
      BY <2>2, <3>1, <3>2, <3>3 DEF ServerAt, EventsAreTrue, OnTheWire
    <3>6. ClientAt' /\ Messages' /\ NothingDroppedWhenItFits'
      BY <3>1, <3>2 DEF ClientAt, Messages, NothingDroppedWhenItFits, Early
    <3>7. OnTheWire'
      BY <2>2, <3>1, <3>2, <3>3, <3>4 DEF OnTheWire, EchoIsOfThisMessage
    <3>8. Units'
      BY <1>u, <3>1, <3>2, <3>4 DEF Units, Begun, Arrived
    <3> QED
      BY <3>5, <3>6, <3>7, <3>8
  <2> QED
    BY <2>1, <2>2
<1>7. CASE Handled
  BY <1>7, <1>u DEF Handled, ServerAt, EventsAreTrue, ClientAt, OnTheWire,
     EchoIsOfThisMessage,     Messages, Units, Begun, Arrived, NothingDroppedWhenItFits, Early
<1>8. CASE UdpWait
  BY <1>8, <1>u DEF UdpWait, ServerAt, EventsAreTrue, ClientAt, OnTheWire,
     EchoIsOfThisMessage,     Messages, Units, Begun, Arrived, NothingDroppedWhenItFits, Early
<1>9. CASE Echo
  BY <1>9, <1>u DEF Echo, AfterEcho, Least, ServerAt, EventsAreTrue, ClientAt, OnTheWire,
     EchoIsOfThisMessage,     Messages, Units, Begun, Arrived, NothingDroppedWhenItFits, Early
<1>10. CASE UdpServe
  <2>1. ServerAt'
    BY <1>10 DEF UdpServe, ServerAt, EventsAreTrue, ClientAt, Early
  <2>2. EventsAreTrue'
    BY <1>10 DEF UdpServe, ServerAt, EventsAreTrue, ClientAt, Early
  <2>3. ClientAt'
    BY <1>10 DEF UdpServe, ClientAt, OnTheWire, Early
  <2>4. OnTheWire'
    BY <1>10 DEF UdpServe, ServerAt, EventsAreTrue, ClientAt, OnTheWire,
        EchoIsOfThisMessage, Early
  <2>5. Messages'
    BY <1>10 DEF UdpServe, ClientAt, Messages, Early
  <2>6. Units'
    <3>1. /\ proto = "udp" /\ c2s' = c2s - 1 /\ took' = took + 1 /\ echoed' = echoed + 1
          /\ s2c' = s2c \/ s2c' = s2c + 1
          /\ UNCHANGED <<proto, sent, received, hand, dropped>>
      BY <1>10 DEF UdpServe
    <3>2. /\ echoed + hand + dropped = took
          /\ received + s2c <= echoed /\ took + c2s <= sent
      BY <3>1 DEF Units
    <3>3. /\ echoed' + hand' + dropped' = took'
          /\ received' + s2c' <= echoed' /\ took' + c2s' <= sent'
      <4> HIDE DEF NetInv, Typed, Both
      <4> QED
        BY <1>n, <3>1, <3>2
    <3> QED
      BY <3>1, <3>3, <1>n DEF Units
  <2>7. NothingDroppedWhenItFits'
    BY <1>10 DEF UdpServe, NothingDroppedWhenItFits, ServerAt, OnTheWire, EchoIsOfThisMessage
  <2> QED
    BY <2>1, <2>2, <2>3, <2>4, <2>5, <2>6, <2>7
<1>11. CASE Connect
  BY <1>11, <1>u DEF Connect, Touch, Listening, ServerAt, EventsAreTrue, ClientAt, OnTheWire,
     EchoIsOfThisMessage,     Messages, Units, Begun, Arrived, NothingDroppedWhenItFits, Early
<1>12. CASE NextMessage
  <2>1. ServerAt'
    BY <1>12 DEF NextMessage, Touch, ServerAt, EventsAreTrue, ClientAt, Early
  <2>2. EventsAreTrue'
    BY <1>12 DEF NextMessage, Touch, ServerAt, EventsAreTrue, ClientAt, Early
  <2>3. ClientAt'
    BY <1>12 DEF NextMessage, Touch, ClientAt, OnTheWire, Early
  <2>4. OnTheWire'
    BY <1>12 DEF NextMessage, Touch, ServerAt, EventsAreTrue, ClientAt, OnTheWire,
        EchoIsOfThisMessage, Early
  <2>5. Messages'
    BY <1>12 DEF NextMessage, Touch, ClientAt, Messages, Early
  <2>6. Units'
    BY <1>12, <1>u DEF NextMessage, Touch, ServerAt, ClientAt, OnTheWire, Units, Begun,
        Arrived, Messages, Early
  <2>7. NothingDroppedWhenItFits'
    BY <1>12 DEF NextMessage, Touch, NothingDroppedWhenItFits
  <2> QED
    BY <2>1, <2>2, <2>3, <2>4, <2>5, <2>6, <2>7
<1>13. CASE ReceiveEnd
  BY <1>13, <1>u DEF ReceiveEnd, ServerAt, EventsAreTrue, ClientAt, OnTheWire,
     EchoIsOfThisMessage,     Messages, Units, Begun, Arrived, NothingDroppedWhenItFits, Early
<1>14. CASE SendClosed
  <2>1. ServerAt'
    BY <1>14 DEF SendClosed, ServerAt, EventsAreTrue, ClientAt, Early
  <2>2. EventsAreTrue'
    BY <1>14 DEF SendClosed, ServerAt, EventsAreTrue, ClientAt, Early
  <2>3. ClientAt'
    BY <1>14 DEF SendClosed, ClientAt, OnTheWire, Early
  <2>4. OnTheWire'
    BY <1>14 DEF SendClosed, ServerAt, EventsAreTrue, ClientAt, OnTheWire,
        EchoIsOfThisMessage, Early
  <2>5. Messages'
    BY <1>14 DEF SendClosed, ClientAt, Messages, Early
  <2>6. Units'
    BY <1>14, <1>u DEF SendClosed, ServerAt, ClientAt, OnTheWire, Units, Begun,
        Arrived, Messages, Early
  <2>7. NothingDroppedWhenItFits'
    BY <1>14 DEF SendClosed, NothingDroppedWhenItFits, ServerAt, OnTheWire, EchoIsOfThisMessage
  <2> QED
    BY <2>1, <2>2, <2>3, <2>4, <2>5, <2>6, <2>7
<1>15. CASE CppSendClosed
  <2>1. ServerAt'
    BY <1>15 DEF CppSendClosed, ServerAt, EventsAreTrue, ClientAt, Early
  <2>2. EventsAreTrue'
    BY <1>15 DEF CppSendClosed, ServerAt, EventsAreTrue, ClientAt, Early
  <2>3. ClientAt'
    BY <1>15 DEF CppSendClosed, ClientAt, OnTheWire, Early
  <2>4. OnTheWire'
    BY <1>15 DEF CppSendClosed, ServerAt, EventsAreTrue, ClientAt, OnTheWire,
        EchoIsOfThisMessage, Early
  <2>5. Messages'
    BY <1>15 DEF CppSendClosed, ClientAt, Messages, Early
  <2>6. Units'
    BY <1>15, <1>u DEF CppSendClosed, ServerAt, ClientAt, OnTheWire, Units, Begun,
        Arrived, Messages, Early
  <2>7. NothingDroppedWhenItFits'
    BY <1>15 DEF CppSendClosed, NothingDroppedWhenItFits, ServerAt, OnTheWire, EchoIsOfThisMessage
  <2> QED
    BY <2>1, <2>2, <2>3, <2>4, <2>5, <2>6, <2>7
<1>16. CASE Send
  BY <1>16, <1>u DEF Send, Touch, Least, ServerAt, EventsAreTrue, ClientAt, OnTheWire,
     EchoIsOfThisMessage,     Messages, Units, Begun, Arrived, NothingDroppedWhenItFits, Early
<1>17. CASE Receive
  BY <1>17, <1>u DEF Receive, Least, ServerAt, EventsAreTrue, ClientAt, OnTheWire,
     EchoIsOfThisMessage,     Messages, Units, Begun, Arrived, NothingDroppedWhenItFits, Early
<1>18. CASE UdpSend
  <2>1. ServerAt'
    BY <1>18 DEF UdpSend, Listening, ServerAt, EventsAreTrue, ClientAt, Early
  <2>2. EventsAreTrue'
    BY <1>18 DEF UdpSend, Listening, ServerAt, EventsAreTrue, ClientAt, Early
  <2>3. ClientAt'
    BY <1>18 DEF UdpSend, Listening, ClientAt, OnTheWire, Early
  <2>4. OnTheWire'
    BY <1>18 DEF UdpSend, Listening, ServerAt, EventsAreTrue, ClientAt, OnTheWire,
        EchoIsOfThisMessage, Early
  <2>5. Messages'
    BY <1>18 DEF UdpSend, Listening, ClientAt, Messages, Early
  <2>6. Units'
    <3>1. /\ proto = "udp" /\ sent' = sent + 1 /\ left' = 0
          /\ c2s' = c2s \/ c2s' = c2s + 1
          /\ UNCHANGED <<proto, received, s2c, echoed, hand, dropped, took>>
      BY <1>18 DEF UdpSend
    <3>2. /\ echoed + hand + dropped = took
          /\ received + s2c <= echoed /\ took + c2s <= sent
      BY <3>1 DEF Units
    <3>3. /\ echoed' + hand' + dropped' = took'
          /\ received' + s2c' <= echoed' /\ took' + c2s' <= sent'
      <4> HIDE DEF NetInv, Typed, Both
      <4> QED
        BY <1>n, <3>1, <3>2
    <3> QED
      BY <3>1, <3>3, <1>n DEF Units
  <2>7. NothingDroppedWhenItFits'
    BY <1>18 DEF UdpSend, Listening, NothingDroppedWhenItFits
  <2> QED
    BY <2>1, <2>2, <2>3, <2>4, <2>5, <2>6, <2>7
<1>19. CASE UdpSendFails
  BY <1>19, <1>u DEF UdpSendFails, ServerAt, EventsAreTrue, ClientAt, OnTheWire,
     EchoIsOfThisMessage,     Messages, Units, Begun, Arrived, NothingDroppedWhenItFits, Early
<1>20. CASE UdpReceive
  <2>1. ServerAt'
    BY <1>20 DEF UdpReceive, ServerAt, EventsAreTrue, ClientAt, Early
  <2>2. EventsAreTrue'
    BY <1>20 DEF UdpReceive, ServerAt, EventsAreTrue, ClientAt, Early
  <2>3. ClientAt'
    BY <1>20 DEF UdpReceive, ClientAt, OnTheWire, Early
  <2>4. OnTheWire'
    BY <1>20 DEF UdpReceive, ServerAt, EventsAreTrue, ClientAt, OnTheWire,
        EchoIsOfThisMessage, Early
  <2>5. Messages'
    BY <1>20 DEF UdpReceive, ClientAt, Messages, Early
  <2>6. Units'
    BY <1>20, <1>u DEF UdpReceive, ServerAt, ClientAt, OnTheWire, Units, Begun,
        Arrived, Messages, Early
  <2>7. NothingDroppedWhenItFits'
    BY <1>20 DEF UdpReceive, NothingDroppedWhenItFits, ServerAt, OnTheWire, EchoIsOfThisMessage
  <2> QED
    BY <2>1, <2>2, <2>3, <2>4, <2>5, <2>6, <2>7
<1>21. CASE UNCHANGED vars
  BY <1>21 DEF vars, ServerAt, EventsAreTrue, ClientAt, OnTheWire,
     EchoIsOfThisMessage,     Messages, Units, Begun, Arrived, NothingDroppedWhenItFits, Early
<1> QED
  BY <1>1, <1>2, <1>3, <1>4, <1>5, <1>6, <1>7, <1>8, <1>9, <1>10, <1>11, <1>12,
     <1>13, <1>14, <1>15, <1>16, <1>17, <1>18, <1>19, <1>20, <1>21
     DEF Next, Server, TcpServer, Client, TcpClient, Both

-----------------------------------------------------------------------------
(* Theorems *)

\* NetInv holds in every state of both programs.
THEOREM NetInvariant == Spec => []NetInv
<1>1. Init => NetInv
  <2> SUFFICES ASSUME Init PROVE NetInv
    OBVIOUS
  <2>1. Typed
    <3>1. /\ program \in Programs /\ test \in Tests /\ proto \in Protocols
          /\ window \in Windows /\ platform \in Platforms
      BY DEF Init
    <3>2. mux \in {"select", "epoll", "kqueue"}
      BY DEF Init, Multiplexers
    <3>3. window \in Nat \ {0} /\ MsgSize \in Nat \ {0}
      BY <3>1, NetworkAssumption DEF NetworkAssumption
    <3>4. pc \in [Both -> Places]
      BY DEF Init, Both, Places
    <3>5. /\ count \in 0..1 /\ c2s \in 0..window /\ s2c \in 0..window
          /\ hand \in 0..MsgSize /\ left \in 0..MsgSize /\ got \in 0..MsgSize
          /\ sent \in Nat /\ received \in Nat /\ took \in Nat /\ echoed \in Nat
          /\ dropped \in Nat
      BY <3>3 DEF Init
    <3>6. /\ main = "start" /\ stop_flag \in BOOLEAN /\ failed \in BOOLEAN /\ conn = "none"
          /\ edge = {} /\ ready = {}
      BY DEF Init
    <3> QED
      BY <3>1, <3>2, <3>4, <3>5, <3>6 DEF Typed
  <2>2. MsgSize \in Nat \ {0} /\ NumMessages \in Nat /\ InUnits(0) = 0
    BY <2>1, NetConstants, UnitsOfMessages
  <2>3. pc["server"] = "unborn" /\ pc["client"] = "unborn"
    BY DEF Init
  <2>4. ServerAt /\ EventsAreTrue /\ ClientAt /\ Messages
    BY <2>2, <2>3 DEF Init, ServerAt, EventsAreTrue, ClientAt, Messages, Early
  <2>5. OnTheWire /\ NothingDroppedWhenItFits
    BY <2>3 DEF Init, OnTheWire, EchoIsOfThisMessage, NothingDroppedWhenItFits
  <2>6. Units
    BY <2>2, <2>3 DEF Init, Units, Begun, Arrived
  <2> QED
    BY <2>1, <2>4, <2>5, <2>6 DEF NetInv
<1> QED
  BY <1>1, NetInvStep, PTL DEF Spec

\* Every variable of the network benchmarks keeps its type.
THEOREM TypeCorrect == Spec => []TypeOK
<1>1. NetInv => TypeOK
  BY NetConstants DEF NetInv, Typed, TypeOK, Messages, Both
<1> QED
  BY <1>1, NetInvariant, PTL

\* What the client receives belongs to the message it has sent last, so that
\* the latency it records is that message's.
THEOREM EchoesMatch == Spec => []EchoIsOfThisMessage
<1>1. NetInv => EchoIsOfThisMessage
  BY DEF NetInv, OnTheWire
<1> QED
  BY <1>1, NetInvariant, PTL

\* A message that fits into the buffers comes back whole: echo's send, whose
\* result for a part nobody looks at, always finds room.
THEOREM WholeEchoes == Spec => []NothingDroppedWhenItFits
<1>1. NetInv => NothingDroppedWhenItFits
  BY DEF NetInv
<1> QED
  BY <1>1, NetInvariant, PTL

\* The server's send always has a client that waits.
THEOREM ServerHasItsClient == Spec => []ClientWaitsForEcho
<1>1. NetInv => ClientWaitsForEcho
  <2> SUFFICES ASSUME NetInv, pc["server"] = "echo" PROVE pc["client"] # "done"
    BY DEF ClientWaitsForEcho
  <2>1. conn = "accepted" /\ hand > 0
    BY DEF NetInv, ServerAt
  <2> QED
    BY <2>1 DEF NetInv, OnTheWire
<1> QED
  BY <1>1, NetInvariant, PTL

\* Client and server agree on how much was sent, for any number of messages,
\* whatever the network loses.
THEOREM CountsMatch == Spec => []CountsAgree
<1>1. NetInv => CountsAgree
  <2> SUFFICES ASSUME NetInv PROVE CountsAgree
    OBVIOUS
  <2>1. Typed /\ Messages /\ Units
    BY DEF NetInv
  <2>2. MsgSize \in Nat \ {0} /\ proto \in {"tcp", "udp"}
    BY <2>1, NetConstants DEF Typed
  <2>3. InUnits(received) \in Nat /\ InUnits(sent) \in Nat
    BY <2>1, <2>2, UnitsOfMessages DEF Typed
  <2>4. Arrived \in Nat /\ Begun \in Nat
    BY <2>1, <2>2 DEF Arrived, Begun, Typed
  <2>5. CASE proto = "tcp"
    <3>1. InUnits(received) <= echoed /\ took <= InUnits(sent) + Begun
      BY <2>1, <2>3, <2>4, <2>5 DEF Units, Typed
    <3> QED
      BY <2>1, <2>5, <3>1 DEF CountsAgree, Messages, Units, InUnits, Begun
  <2>6. CASE proto = "udp"
    <3>1. received <= echoed /\ took <= sent + Begun
      BY <2>1, <2>4, <2>6 DEF Units, Typed
    <3>2. received * 1 = received /\ sent * 1 = sent
      BY <2>1 DEF Typed
    <3>3. proto # "tcp"
      BY <2>6
    <3> QED
      BY <2>1, <3>1, <3>2, <3>3 DEF CountsAgree, Messages, Units, Begun
  <2> QED
    BY <2>2, <2>5, <2>6
<1> QED
  BY <1>1, NetInvariant, PTL

-----------------------------------------------------------------------------
(* Nobody waits for ever *)

\* With edge-triggered epoll: what waits to be accepted or received has an
\* event that is still to be reported or is being handled.
NoEventMissed ==
  mux = "epoll" =>
    /\ conn = "pending" => "listen" \in edge \cup ready
    /\ conn = "accepted" /\ (c2s > 0 \/ pc["client"] = "done") => "data" \in edge \cup ready

\* epoll is asked to report edges only, and the server reads until nothing is
\* left (line 408): no connection and no byte is ever left without an event,
\* whatever arrives while the server handles the events before.
THEOREM NoEventIsMissed == Spec => []NoEventMissed
<1>1. Init => NoEventMissed
  BY DEF Init, NoEventMissed
<1>2. NetInv /\ NoEventMissed /\ [Next]_vars => NoEventMissed'
  <2> SUFFICES ASSUME NetInv, NoEventMissed, [Next]_vars PROVE NoEventMissed'
    OBVIOUS
  <2> USE DEF config, mainVars, wire, serverVars, clientVars, Goto, At, Both
  <2>1. pc \in [Both -> Places] /\ c2s \in Nat /\ edge \subseteq {"listen", "data"}
    BY NetConstants DEF NetInv, Typed
  <2>2. ASSUME UNCHANGED <<mux, conn, c2s>>, edge \cup ready \subseteq edge' \cup ready',
               pc'["client"] = "done" => pc["client"] = "done" \/ conn \notin {"pending", "accepted"}
        PROVE  NoEventMissed'
    BY <2>2 DEF NoEventMissed
  <2>3. pc["client"] \in Early \/ proto = "udp" => conn = "none"
    BY DEF NetInv, ClientAt, ServerAt
  <2>4. CASE Main \/ UNCHANGED vars
    BY <2>1, <2>2, <2>4 DEF Main, StartServer, StartClient, ClientAsyncFails, Unwound,
       DurationOver, JoinClient, JoinServer, vars
  <2>5. ASSUME NEW who \in Both, Entry(who) \/ SpuriousWake(who) PROVE NoEventMissed'
    <3>1. CASE SetUp(who) \/ CppSetUp(who) \/ SetUpFails(who) \/ SpuriousWake(who)
      BY <2>1, <2>2, <2>3, <3>1
      DEF SetUp, CppSetUp, SetUpFails, SpuriousWake, AfterBarrier, Early
    <3>2. CASE BarrierArrive(who)
      BY <2>1, <2>2, <2>3, <3>2 DEF BarrierArrive, AfterBarrier, Early
    <3> QED
      BY <2>5, <3>1, <3>2 DEF Entry
  <2>6. CASE Poll
    <3>1. mux = "epoll" => edge \cup ready = ready' /\ ready = {}
      BY <2>6 DEF Poll, NetInv, ServerAt
    <3> QED
      BY <2>1, <2>6, <3>1 DEF Poll, NoEventMissed
  <2>7. CASE Accept \/ ServerStops
    BY <2>1, <2>7 DEF Accept, ServerStops, NoEventMissed
  <2>8. CASE Recv
    BY <2>1, <2>8 DEF Recv, NoEventMissed
  <2>9. CASE Echo \/ Handled \/ UdpWait \/ UdpServe
    <3>1. mux = "epoll" => AfterEcho = ready
      BY DEF AfterEcho
    <3>2. mux' = mux /\ conn' = conn /\ edge' = edge /\ pc'["client"] = pc["client"]
          /\ (mux = "epoll" => ready' = ready) /\ (c2s' = c2s \/ proto = "udp")
      BY <2>1, <2>9, <3>1 DEF Echo, Handled, UdpWait, UdpServe
    <3> QED
      BY <2>3, <3>2 DEF NoEventMissed
  <2>10. CASE Connect \/ NextMessage \/ Send
    <3>1. CASE Connect
      BY <2>1, <2>3, <3>1 DEF Connect, NoEventMissed, Early
    <3>2. CASE NextMessage
      BY <2>1, <3>2 DEF NextMessage, Touch, NoEventMissed
    <3>3. CASE Send
      BY <2>1, <3>3 DEF Send, Touch, NoEventMissed
    <3> QED
      BY <2>10, <3>1, <3>2, <3>3
  <2>11. CASE SendClosed \/ CppSendClosed \/ ReceiveEnd
    BY <2>2, <2>11 DEF SendClosed, CppSendClosed, ReceiveEnd
  <2>12. CASE Receive
    BY <2>1, <2>2, <2>12 DEF Receive
  <2>13. CASE UdpSend \/ UdpSendFails \/ UdpReceive
    <3>1. conn' = conn /\ proto = "udp"
      BY <2>13 DEF UdpSend, UdpSendFails, UdpReceive
    <3> QED
      BY <2>3, <3>1 DEF NoEventMissed
  <2> QED
    BY <2>4, <2>5, <2>6, <2>7, <2>8, <2>9, <2>10, <2>11, <2>12, <2>13
    DEF Next, Server, TcpServer, Client, TcpClient, Both
<1> QED
  BY <1>1, <1>2, NetInvariant, PTL DEF Spec

\* The threads meet at the barrier: it has counted the one that has come, and
\* both have left it when the other comes.  The C++ threads do not meet.
NotThere == {"unborn", "setup", "barrier"}
Meeting ==
  IF program = "cpp" THEN \A who \in Both : pc[who] \notin {"barrier", "asleep"}
  ELSE \/ count = 0 /\ pc["server"] \in NotThere /\ pc["client"] \in NotThere
       \/ count = 1 /\ (pc["server"] \in NotThere <=> pc["client"] \notin NotThere)
       \/ count = 0 /\ \A who \in Both : pc[who] \notin NotThere \cup {"asleep"}

\* Main has started both before it joins them, and tells the server to stop
\* before it joins it; only then has the server ended.
MainAt ==
  /\ main = "start" <=> pc["client"] = "unborn"
  /\ pc["server"] = "unborn" => main = "start"
  /\ main = "join_server" => stop_flag
  /\ main # "unwind"
  /\ pc["server"] = "done" => conn \in {"none", "closed"}

\* As long as no set-up call has failed.
GoesOn == ~failed => Meeting /\ MainAt

\* The client waits for room only with something to send, and for an echo
\* only while a part of it is missing.
Exchange ==
  /\ pc["client"] = "send" => left > 0
  /\ proto = "tcp" /\ pc["client"] = "recv" => got < MsgSize

LEMMA ExchangeStep == NetInv /\ Exchange /\ [Next]_vars => Exchange'
<1> SUFFICES ASSUME NetInv, Exchange, [Next]_vars PROVE Exchange'
  OBVIOUS
<1> USE DEF config, mainVars, wire, serverVars, clientVars, Goto, At, Both
<1>1. /\ pc \in [Both -> Places] /\ MsgSize \in Nat \ {0} /\ left \in 0..MsgSize
      /\ got \in 0..MsgSize
  BY NetConstants DEF NetInv, Typed
<1>2. ASSUME UNCHANGED <<proto, left, got>>,
             \A place \in {"send", "recv"} : pc'["client"] = place => pc["client"] = place
      PROVE  Exchange'
  BY <1>2 DEF Exchange
<1>3. CASE Main \/ UNCHANGED vars
  BY <1>1, <1>2, <1>3 DEF Main, StartServer, StartClient, ClientAsyncFails, Unwound,
     DurationOver, JoinClient, JoinServer, vars
<1>4. ASSUME NEW who \in Both, Entry(who) \/ SpuriousWake(who) PROVE Exchange'
  <2>1. CASE SetUp(who) \/ CppSetUp(who) \/ SetUpFails(who) \/ SpuriousWake(who)
    BY <1>1, <1>2, <2>1 DEF SetUp, CppSetUp, SetUpFails, SpuriousWake, AfterBarrier
  <2>2. CASE BarrierArrive(who)
    BY <1>1, <1>2, <2>2 DEF BarrierArrive, AfterBarrier
  <2> QED
    BY <1>4, <2>1, <2>2 DEF Entry
<1>5. CASE Poll \/ Accept \/ ServerStops
  BY <1>1, <1>2, <1>5 DEF Poll, Accept, ServerStops
<1>6. CASE Recv
  BY <1>1, <1>2, <1>6 DEF Recv
<1>7. CASE Echo \/ Handled \/ UdpWait \/ UdpServe
  BY <1>1, <1>2, <1>7 DEF Echo, Handled, UdpWait, UdpServe
<1>8. CASE Connect
  BY <1>1, <1>2, <1>8 DEF Connect
<1>9. CASE NextMessage
  <2>1. \/ left' = MsgSize /\ pc' = [pc EXCEPT !["client"] = "send"]
        \/ pc' = [pc EXCEPT !["client"] = "done"]
    BY <1>9 DEF NextMessage
  <2>2. pc'["client"] # "recv" /\ (pc'["client"] = "send" => left' = MsgSize)
    BY <1>1, <2>1
  <2> QED
    BY <1>1, <2>2 DEF Exchange
<1>10. CASE Send
  <2>1. PICK n \in 1 .. Least(left, window - c2s) :
          /\ pc["client"] = "send" /\ left' = left - n /\ UNCHANGED <<proto, got>>
          /\ pc' = [pc EXCEPT !["client"] = IF n = left THEN "recv" ELSE "send"]
    BY <1>10 DEF Send
  <2>2. n <= left /\ n \in Nat
    BY <1>1, <2>1, NetConstants DEF NetInv, Typed, Least
  <2>3. got = 0
    BY <2>1 DEF NetInv, ClientAt
  <2> QED
    BY <1>1, <2>1, <2>2, <2>3 DEF Exchange
<1>11. CASE SendClosed \/ CppSendClosed
  <2>1. pc["client"] = "send" /\ got = 0 => got < MsgSize
    BY <1>1
  <2>2. pc["client"] = "send" => got = 0
    BY DEF NetInv, ClientAt
  <2> QED
    BY <1>1, <1>11, <2>1, <2>2 DEF SendClosed, CppSendClosed, Exchange
<1>12. CASE Receive
  <2>1. /\ pc["client"] = "recv" /\ UNCHANGED <<proto, left>> /\ proto = "tcp"
        /\ got' = got + Least(s2c, MsgSize - got)
        /\ pc' = [pc EXCEPT !["client"] =
                    IF got + Least(s2c, MsgSize - got) = MsgSize THEN "loop" ELSE "recv"]
    BY <1>12 DEF Receive
  <2>2. Least(s2c, MsgSize - got) \in Nat /\ got + Least(s2c, MsgSize - got) <= MsgSize
    BY <1>1, NetConstants DEF NetInv, Typed, Least
  <2>3. pc'["client"] = "recv" => got + Least(s2c, MsgSize - got) # MsgSize
    BY <1>1, <2>1
  <2>4. pc'["client"] # "send"
    BY <1>1, <2>1
  <2> QED
    BY <1>1, <2>1, <2>2, <2>3, <2>4 DEF Exchange
<1>13. CASE ReceiveEnd
  BY <1>1, <1>2, <1>13 DEF ReceiveEnd
<1>14. CASE UdpSend \/ UdpSendFails \/ UdpReceive
  <2>1. proto' = "udp" /\ pc'["client"] # "send"
    BY <1>1, <1>14 DEF UdpSend, UdpSendFails, UdpReceive
  <2> QED
    BY <2>1 DEF Exchange
<1> QED
  BY <1>3, <1>4, <1>5, <1>6, <1>7, <1>8, <1>9, <1>10, <1>11, <1>12, <1>13, <1>14
  DEF Next, Server, TcpServer, Client, TcpClient, Both

LEMMA GoesOnStep == NetInv /\ GoesOn /\ [Next]_vars => GoesOn'
<1> SUFFICES ASSUME NetInv, GoesOn, [Next]_vars, ~failed' PROVE Meeting' /\ MainAt'
  BY DEF GoesOn
<1> USE DEF config, mainVars, wire, serverVars, clientVars, Goto, At, Both
<1>1. /\ pc \in [Both -> Places] /\ count \in 0..1 /\ program \in {"c", "cpp"}
      /\ pc["server"] \notin {"loop", "send", "recv", "connect"}
  BY NetConstants DEF NetInv, Typed, ServerAt
<1>2. ~failed
  <2>1. Main \/ UNCHANGED vars => failed' = failed \/ failed' = TRUE
    BY DEF Main, StartServer, StartClient, ClientAsyncFails, Unwound, DurationOver,
       JoinClient, JoinServer, vars
  <2>2. \A who \in Both : Entry(who) \/ SpuriousWake(who) => failed' = failed \/ failed' = TRUE
    BY DEF Entry, SetUp, CppSetUp, SetUpFails, BarrierArrive, SpuriousWake
  <2>3. ServerStops \/ TcpServer \/ UdpWait \/ UdpServe => failed' = failed
    BY DEF ServerStops, TcpServer, Poll, Accept, Recv, Echo, Handled, UdpWait, UdpServe
  <2>4. TcpClient => failed' = failed \/ failed' = TRUE
    BY DEF TcpClient, Connect, NextMessage, Send, SendClosed, CppSendClosed, Receive, ReceiveEnd
  <2>5. UdpSend \/ UdpSendFails \/ UdpReceive => failed' = failed
    BY DEF UdpSend, UdpSendFails, UdpReceive
  <2> QED
    BY <2>1, <2>2, <2>3, <2>4, <2>5 DEF Next, Server, Client
<1>3. Meeting /\ MainAt
  BY <1>2 DEF GoesOn
<1>4. ASSUME UNCHANGED <<program, count>>,
             \A who \in Both : /\ pc'[who] \in NotThere <=> pc[who] \in NotThere
                               /\ pc'[who] \in {"asleep", "barrier"} => pc[who] = pc'[who]
      PROVE  Meeting'
  BY <1>3, <1>4 DEF Meeting
<1>5. ASSUME UNCHANGED main,
             \A who \in Both : pc'[who] = "unborn" <=> pc[who] = "unborn",
             stop_flag => stop_flag',
             pc'["server"] = "done" => pc["server"] = "done" /\ conn' = conn
      PROVE  MainAt'
  BY <1>3, <1>5 DEF MainAt
<1>6. CASE Main
  <2>1. \/ StartServer \/ StartClient
        \/ UNCHANGED <<program, count, pc, conn>> /\ (stop_flag => stop_flag') /\ main # "start"
           /\ (main' = "join_server" => stop_flag') /\ main' \notin {"start", "unwind"}
    BY <1>2, <1>3, <1>6 DEF Main, ClientAsyncFails, Unwound, DurationOver, JoinClient, JoinServer,
       MainAt
  <2>2. CASE StartServer \/ StartClient
    <3>1. Meeting'
      BY <1>1, <1>4, <2>2 DEF StartServer, StartClient, NotThere
    <3>2. MainAt'
      BY <1>1, <1>3, <2>2 DEF StartServer, StartClient, MainAt
    <3> QED
      BY <3>1, <3>2
  <2>3. ASSUME UNCHANGED <<program, count, pc, conn>>, main # "start",
               main' = "join_server" => stop_flag', main' \notin {"start", "unwind"}
        PROVE  Meeting' /\ MainAt'
    BY <1>3, <1>4, <2>3 DEF MainAt
  <2> QED
    BY <2>1, <2>2, <2>3
<1>7. ASSUME NEW who \in Both, Entry(who) \/ SpuriousWake(who) PROVE Meeting' /\ MainAt'
  <2>1. AfterBarrier("server") = "poll" /\ AfterBarrier("client") \in {"connect", "loop"}
    BY DEF AfterBarrier
  <2>2. ~SetUpFails(who)
    BY DEF SetUpFails
  <2>3. CASE SetUp(who)
    <3>1. Meeting'
      BY <1>1, <1>3, <2>3 DEF SetUp, Meeting, NotThere
    <3>2. MainAt'
      BY <1>1, <1>5, <2>3 DEF SetUp
    <3> QED
      BY <3>1, <3>2
  <2>4. CASE CppSetUp(who)
    <3>1. Meeting'
      BY <1>1, <1>3, <2>1, <2>4 DEF CppSetUp, Meeting
    <3>2. MainAt'
      BY <1>1, <1>5, <2>1, <2>4 DEF CppSetUp
    <3> QED
      BY <3>1, <3>2
  <2>5. CASE BarrierArrive(who)
    <3>1. program = "c" /\ pc[who] = "barrier" /\ program' = program
      BY <1>1, <1>3, <2>5 DEF BarrierArrive, Meeting
    <3>2. CASE count = 0
      <4>1. /\ count' = 1 /\ pc' = [pc EXCEPT ![who] = "asleep"]
        BY <2>5, <3>2 DEF BarrierArrive
      <4>2. \A x \in Both : pc[x] \in NotThere
        BY <1>3, <3>1, <3>2 DEF Meeting, NotThere
      <4> QED
        BY <1>1, <1>3, <2>5, <3>1, <4>1, <4>2 DEF BarrierArrive, Meeting, MainAt, NotThere
    <3>3. CASE count = 1
      <4>1. count' = 0 /\ UNCHANGED <<main, stop_flag, conn>>
            /\ pc' = [x \in Both |->
                        IF x = who \/ pc[x] = "asleep" THEN AfterBarrier(x) ELSE pc[x]]
        BY <2>5, <3>3 DEF BarrierArrive
      <4>2. \A x \in Both : x # who => pc[x] \notin NotThere
        BY <1>3, <3>1, <3>3 DEF Meeting, NotThere
      <4>3. \A x \in Both : pc'[x] \notin NotThere \cup {"asleep"}
        BY <1>1, <2>1, <4>1, <4>2 DEF NotThere
      <4>4. Meeting'
        BY <3>1, <4>1, <4>3 DEF Meeting
      <4>5. MainAt'
        BY <1>1, <1>5, <2>1, <3>1, <4>1, <4>2, <4>3 DEF NotThere
      <4> QED
        BY <4>4, <4>5
    <3> QED
      BY <1>1, <3>2, <3>3
  <2>6. CASE SpuriousWake(who)
    <3>1. Meeting'
      BY <1>1, <1>4, <2>1, <2>6 DEF SpuriousWake, NotThere
    <3>2. MainAt'
      BY <1>1, <1>5, <2>1, <2>6 DEF SpuriousWake
    <3> QED
      BY <3>1, <3>2
  <2> QED
    BY <1>7, <2>2, <2>3, <2>4, <2>5, <2>6 DEF Entry
<1>8. ASSUME UNCHANGED <<program, count, main, stop_flag>>,
             \/ pc' = pc
             \/ \E to \in {"poll", "handle", "echo"} :
                  pc["server"] \in {"poll", "handle", "echo"} /\ pc' = [pc EXCEPT !["server"] = to]
             \/ \E to \in {"loop", "send", "recv", "done"} :
                  pc["client"] \in {"connect", "loop", "send", "recv"} /\ pc' = [pc EXCEPT !["client"] = to],
             pc["server"] = "done" => conn' = conn
      PROVE  Meeting' /\ MainAt'
  <2>1. Meeting'
    BY <1>1, <1>4, <1>8 DEF NotThere
  <2>2. MainAt'
    BY <1>1, <1>5, <1>8
  <2> QED
    BY <2>1, <2>2
<1>9. CASE ServerStops
  <2>1. /\ UNCHANGED <<program, count, main, stop_flag>> /\ pc["server"] = "poll"
        /\ pc' = [pc EXCEPT !["server"] = "done"] /\ conn' \in {"none", "closed"}
    BY <1>9 DEF ServerStops
  <2>2. Meeting'
    BY <1>1, <1>4, <2>1 DEF NotThere
  <2> QED
    BY <1>1, <1>3, <2>1, <2>2 DEF MainAt
<1>10. CASE Poll \/ Accept \/ Recv \/ Echo \/ Handled
  BY <1>8, <1>10 DEF Poll, Accept, Recv, Echo, Handled
<1>11. CASE UdpWait \/ UdpServe
  BY <1>8, <1>11 DEF UdpWait, UdpServe
<1>12. CASE Connect
  <2>1. Listening /\ pc["client"] = "connect" /\ pc' = [pc EXCEPT !["client"] = "loop"]
        /\ UNCHANGED <<program, count, main, stop_flag>>
    BY <1>12 DEF Connect
  <2> QED
    BY <1>8, <2>1 DEF Listening
<1>13. CASE NextMessage \/ Send \/ Receive \/ ReceiveEnd
  BY <1>8, <1>13 DEF NextMessage, Send, Receive, ReceiveEnd
<1>14. CASE SendClosed
  <2>1. CASE main' = main
    BY <1>8, <1>14, <2>1 DEF SendClosed
  <2>2. CASE main' = "killed"
    <3>1. UNCHANGED <<program, count, pc, conn, stop_flag>> /\ pc["client"] = "send"
      BY <1>14, <2>2 DEF SendClosed, At, Alive
    <3> QED
      BY <1>3, <1>4, <2>2, <3>1 DEF MainAt
  <2> QED
    BY <1>14, <2>1, <2>2 DEF SendClosed
<1>15. CASE CppSendClosed \/ UdpSend \/ UdpSendFails \/ UdpReceive
  BY <1>8, <1>15 DEF CppSendClosed, UdpSend, UdpSendFails, UdpReceive
<1>16. CASE UNCHANGED vars
  BY <1>8, <1>16 DEF vars
<1> QED
  BY <1>6, <1>7, <1>9, <1>10, <1>11, <1>12, <1>13, <1>14, <1>15, <1>16
  DEF Next, Server, TcpServer, Client, TcpClient, Both

\* Who is not waiting for another.
MainCanGoOn ==
  \/ main \in {"start", "sleep"}
  \/ main = "join_client" /\ pc["client"] = "done"
  \/ main = "join_server" /\ pc["server"] = "done"
ServerCanGoOn ==
  \/ pc["server"] \in {"setup", "barrier", "handle", "echo"}
  \/ pc["server"] = "poll" /\ (stop_flag \/ (IF mux = "epoll" THEN edge ELSE ReadyNow) # {})
ClientCanGoOn ==
  \/ pc["client"] \in {"setup", "barrier", "connect", "loop"}
  \/ pc["client"] = "send" /\ (conn = "closed" \/ (left > 0 /\ c2s < window))
  \/ pc["client"] = "recv" /\ (conn = "closed" \/ s2c > 0)

\* In a TCP test whose set-up has not failed and whose server has dropped
\* nothing, main, server and client do not all wait.
NobodyHangs ==
  proto = "tcp" /\ ~failed /\ dropped = 0 /\ main \notin {"exit", "killed"}
  => MainCanGoOn \/ ServerCanGoOn \/ ClientCanGoOn

\* A TCP test does not come to a standstill by itself: the meeting at the
\* barrier, the client that waits for room and for its echo, the server that
\* waits for events, and main that joins one and then the other never all wait
\* for each other, whatever the size of a message and of the buffers.
THEOREM NobodyWaitsForEver == Spec => []NobodyHangs
<1>1. Init => Exchange /\ GoesOn
  <2> SUFFICES ASSUME Init PROVE Exchange /\ Meeting /\ MainAt
    BY DEF GoesOn
  <2>1. /\ \A who \in Both : pc[who] = "unborn"
        /\ main = "start" /\ count = 0
    BY DEF Init, Both
  <2> QED
    BY <2>1 DEF Exchange, Meeting, MainAt, NotThere, Both
<1>2. NetInv /\ NoEventMissed /\ Exchange /\ GoesOn => NobodyHangs
  <2> SUFFICES ASSUME NetInv, NoEventMissed, Exchange, Meeting, MainAt,
                      proto = "tcp", dropped = 0, main \notin {"exit", "killed"},
                      ~MainCanGoOn, ~ServerCanGoOn, ~ClientCanGoOn
               PROVE  FALSE
    BY DEF GoesOn, NobodyHangs
  <2>1. pc["server"] \in {"asleep", "poll", "done"}
    BY DEF NetInv, ServerAt, MainCanGoOn, ServerCanGoOn, MainAt
  <2>2. pc["client"] \in {"asleep", "send", "recv", "done"}
    BY DEF NetInv, ClientAt, Early, MainCanGoOn, ClientCanGoOn, MainAt
  <2>3. pc["server"] # "asleep" /\ pc["client"] # "asleep"
    BY <2>1, <2>2 DEF Meeting, NotThere, Both
  <2>4. main \in {"join_client", "join_server"}
    BY DEF NetInv, Typed, MainCanGoOn, MainAt
  <2>5. CASE main = "join_server"
    BY <2>1, <2>3, <2>5 DEF MainCanGoOn, ServerCanGoOn, MainAt
  <2>6. CASE main = "join_client"
    <3>1. pc["client"] \in {"send", "recv"} /\ conn \notin {"none", "closed"}
      BY <2>2, <2>3, <2>6 DEF MainCanGoOn, ClientCanGoOn, NetInv, ClientAt
    <3>2. pc["server"] = "poll" /\ conn \in {"pending", "accepted"} /\ hand = 0 /\ ready = {}
      BY <2>1, <2>3, <3>1 DEF MainAt, NetInv, Typed, ServerAt
    <3>3. (IF mux = "epoll" THEN edge ELSE ReadyNow) = {}
      BY <3>2 DEF ServerCanGoOn
    <3>4. conn # "pending"
      BY <3>2, <3>3 DEF NoEventMissed, ReadyNow
    <3>5. c2s = 0
      <4>1. ~(c2s > 0)
        BY <3>2, <3>3, <3>4 DEF NoEventMissed, ReadyNow
      <4> QED
        BY <4>1, NetConstants DEF NetInv, Typed
    <3>6. CASE pc["client"] = "send"
      BY <3>5, <3>6, NetConstants DEF ClientCanGoOn, Exchange, NetInv
    <3>7. CASE pc["client"] = "recv"
      <4>1. s2c = 0 /\ got < MsgSize
        <5>1. ~(s2c > 0) /\ got < MsgSize
          BY <3>7 DEF ClientCanGoOn, Exchange
        <5> QED
          BY <5>1, NetConstants DEF NetInv, Typed
      <4>2. left = 0
        BY <3>7 DEF NetInv, ClientAt
      <4>3. MsgSize - left = c2s + hand + s2c + got + dropped
        BY <3>2, <3>7 DEF NetInv, OnTheWire, EchoIsOfThisMessage
      <4> QED
        BY <3>2, <3>5, <4>1, <4>2, <4>3, NetConstants DEF NetInv, Typed
    <3> QED
      BY <3>1, <3>6, <3>7
  <2> QED
    BY <2>4, <2>5, <2>6
<1> QED
  BY <1>1, <1>2, ExchangeStep, GoesOnStep, NetInvariant, NoEventIsMissed, PTL DEF Spec

-----------------------------------------------------------------------------
(* The barrier of the C program implements AbstractBarrier *)

AtWork == {"poll", "handle", "echo", "connect", "loop", "send", "recv"}

\* The C program on a system that has pthread_barrier_wait.
Meets == program = "c" /\ platform # "apple"

InBarrier   == {who \in Both : Meets /\ pc[who] = "asleep"}
BeyondIt    == {who \in Both : Meets /\ pc[who] \in AtWork}

Rendezvous == INSTANCE AbstractBarrier
              WITH Parties <- Both, waiting <- InBarrier, working <- BeyondIt

\* The barrier has counted the one that sleeps, and who works has met the
\* other, set-up calls that failed included.
MeetInv ==
  Meets =>
    /\ count = 0 => \A who \in Both : pc[who] # "asleep"
    /\ count = 1 => \E who \in Both : \A x \in Both : pc[x] = "asleep" <=> x = who
    /\ (\E who \in Both : pc[who] \in AtWork) => \A who \in Both : pc[who] \in AtWork \cup {"done"}

\* Thread who moves on its side of the barrier.
Moves(who) ==
  /\ count' = count
  /\ \A x \in Both : x # who => pc'[x] = pc[x]
  /\ \/ pc'[who] = pc[who]
     \/ pc[who] \in NotThere /\ pc'[who] \in NotThere \cup {"done"}
     \/ pc[who] \in AtWork /\ pc'[who] \in AtWork \cup {"done"}

LEMMA OneMoves ==
  ASSUME NetInv, Meets, [Next]_vars
  PROVE  /\ UNCHANGED <<program, platform>>
         /\ \E who \in Both : BarrierArrive(who) \/ Moves(who)
<1> USE DEF config, mainVars, wire, serverVars, clientVars, Goto, At, Both
<1>1. pc \in [Both -> Places]
  BY DEF NetInv, Typed
<1>2. ASSUME UNCHANGED <<program, platform, count>>, NEW who \in Both, NEW to,
             pc' = pc \/ pc' = [pc EXCEPT ![who] = to],
             \/ pc[who] \in NotThere /\ to \in NotThere \cup {"done"}
             \/ pc[who] \in AtWork /\ to \in AtWork \cup {"done"}
      PROVE  UNCHANGED <<program, platform>> /\ Moves(who)
  BY <1>1, <1>2 DEF Moves
<1>3. ASSUME UNCHANGED <<program, platform, count, pc>>
      PROVE  UNCHANGED <<program, platform>> /\ Moves("client")
  BY <1>3 DEF Moves
<1>4. CASE ClientAsyncFails \/ Unwound \/ DurationOver \/ JoinClient \/ JoinServer \/ UNCHANGED vars
  <2>1. UNCHANGED <<program, platform, count, pc>>
    BY <1>4 DEF ClientAsyncFails, Unwound, DurationOver, JoinClient, JoinServer, vars
  <2> QED
    BY <1>3, <2>1
<1>5. CASE StartServer
  BY <1>2, <1>5 DEF StartServer, NotThere
<1>6. CASE StartClient
  BY <1>2, <1>6 DEF StartClient, NotThere
<1>7. ASSUME NEW who \in Both, Entry(who) \/ SpuriousWake(who)
      PROVE  UNCHANGED <<program, platform>> /\ (BarrierArrive(who) \/ Moves(who))
  <2>1. CASE BarrierArrive(who)
    BY <2>1 DEF BarrierArrive
  <2>2. CASE SetUp(who)
    BY <1>2, <2>2 DEF SetUp, NotThere
  <2>3. CASE SetUpFails(who)
    BY <1>2, <2>3 DEF SetUpFails, NotThere
  <2>4. ~CppSetUp(who) /\ ~SpuriousWake(who)
    BY DEF CppSetUp, SpuriousWake, Meets
  <2> QED
    BY <1>7, <2>1, <2>2, <2>3, <2>4 DEF Entry
<1>8. CASE ServerStops \/ Poll \/ Accept \/ Recv
  <2>1. UNCHANGED <<program, platform, count>> /\ pc["server"] \in AtWork
    BY <1>8 DEF ServerStops, Poll, Accept, Recv, AtWork
  <2>2. pc' = pc \/ \E to \in AtWork \cup {"done"} : pc' = [pc EXCEPT !["server"] = to]
    BY <1>8 DEF ServerStops, Poll, Accept, Recv, AtWork
  <2> QED
    BY <1>2, <2>1, <2>2
<1>9. CASE Echo \/ Handled \/ UdpWait \/ UdpServe
  <2>1. UNCHANGED <<program, platform, count>> /\ pc["server"] \in AtWork
    BY <1>9 DEF Echo, Handled, UdpWait, UdpServe, AtWork
  <2>2. pc' = pc \/ \E to \in AtWork \cup {"done"} : pc' = [pc EXCEPT !["server"] = to]
    BY <1>9 DEF Echo, Handled, UdpWait, UdpServe, AtWork
  <2> QED
    BY <1>2, <2>1, <2>2
<1>10. CASE TcpClient
  <2>1. UNCHANGED <<program, platform, count>> /\ pc["client"] \in AtWork
    BY <1>10 DEF TcpClient, Connect, NextMessage, Send, SendClosed, CppSendClosed, Receive,
       ReceiveEnd, AtWork
  <2>2. pc' = pc \/ \E to \in AtWork \cup {"done"} : pc' = [pc EXCEPT !["client"] = to]
    <3>1. CASE Connect \/ NextMessage
      BY <3>1 DEF Connect, NextMessage, AtWork
    <3>2. CASE Send
      BY <3>2 DEF Send, AtWork
    <3>3. CASE SendClosed \/ CppSendClosed
      BY <3>3 DEF SendClosed, CppSendClosed, AtWork
    <3>4. CASE Receive \/ ReceiveEnd
      BY <3>4 DEF Receive, ReceiveEnd, AtWork
    <3> QED
      BY <1>10, <3>1, <3>2, <3>3, <3>4 DEF TcpClient
  <2> QED
    BY <1>2, <2>1, <2>2
<1>11. CASE UdpSend \/ UdpSendFails \/ UdpReceive
  <2>1. UNCHANGED <<program, platform, count>> /\ pc["client"] \in AtWork
    BY <1>11 DEF UdpSend, UdpSendFails, UdpReceive, AtWork
  <2>2. pc' = pc \/ \E to \in AtWork \cup {"done"} : pc' = [pc EXCEPT !["client"] = to]
    BY <1>11 DEF UdpSend, UdpSendFails, UdpReceive, AtWork
  <2> QED
    BY <1>2, <2>1, <2>2
<1> QED
  BY <1>4, <1>5, <1>6, <1>7, <1>8, <1>9, <1>10, <1>11
  DEF Next, Main, Server, TcpServer, Client

LEMMA SameConfig == [Next]_vars => UNCHANGED config
<1> SUFFICES ASSUME [Next]_vars PROVE UNCHANGED config
  OBVIOUS
<1>1. CASE Main \/ UNCHANGED vars
  BY <1>1 DEF Main, StartServer, StartClient, ClientAsyncFails, Unwound, DurationOver,
     JoinClient, JoinServer, vars
<1>2. ASSUME NEW who \in Both, Entry(who) \/ SpuriousWake(who) PROVE UNCHANGED config
  BY <1>2 DEF Entry, SetUp, CppSetUp, SetUpFails, BarrierArrive, SpuriousWake
<1>3. CASE ServerStops \/ TcpServer
  BY <1>3 DEF ServerStops, TcpServer, Poll, Accept, Recv, Echo, Handled
<1>4. CASE TcpClient
  BY <1>4 DEF TcpClient, Connect, NextMessage, Send, SendClosed, CppSendClosed, Receive, ReceiveEnd
<1>5. CASE UdpWait \/ UdpServe \/ UdpSend \/ UdpSendFails \/ UdpReceive
  BY <1>5 DEF UdpWait, UdpServe, UdpSend, UdpSendFails, UdpReceive
<1> QED
  BY <1>1, <1>2, <1>3, <1>4, <1>5 DEF Next, Server, Client, Both

\* The first to come finds the other not there and not at work, the second
\* finds it asleep.
LEMMA MeetingIsOne ==
  ASSUME NetInv, MeetInv, Meets, NEW who \in Both, BarrierArrive(who)
  PROVE  MeetInv' /\ (Rendezvous!Arrive(who) \/ Rendezvous!Release(who))
<1> USE DEF Both
<1>1. /\ pc \in [Both -> Places] /\ count \in 0..1 /\ pc[who] = "barrier" /\ Meets'
      /\ \A x \in Both : AfterBarrier(x) \in AtWork
  BY DEF NetInv, Typed, BarrierArrive, At, config, Meets, AfterBarrier, AtWork
<1>2. \A x \in Both : pc[x] \notin AtWork
  BY <1>1 DEF MeetInv, AtWork
<1>3. BeyondIt = {} /\ who \notin InBarrier /\ Rendezvous!Comes(who)
  BY <1>1, <1>2 DEF BeyondIt, InBarrier, Rendezvous!Comes
<1>4. CASE count = 0
  <2>1. count' = 1 /\ pc' = [pc EXCEPT ![who] = "asleep"]
    BY <1>4 DEF BarrierArrive
  <2>2. InBarrier = {}
    BY <1>4 DEF MeetInv, InBarrier
  <2>3. \A x \in Both : pc'[x] \notin AtWork /\ (pc'[x] = "asleep" <=> x = who)
    BY <1>1, <1>2, <1>4, <2>1 DEF MeetInv, AtWork
  <2>4. BeyondIt' = {} /\ InBarrier' = {who}
    BY <1>1, <2>3 DEF BeyondIt, InBarrier
  <2>5. {who} # Both
    OBVIOUS
  <2>6. MeetInv'
    BY <2>1, <2>3 DEF MeetInv
  <2> QED
    BY <1>3, <2>2, <2>4, <2>5, <2>6 DEF Rendezvous!Arrive
<1>5. CASE count = 1
  <2>1. /\ count' = 0
        /\ pc' = [x \in Both |-> IF x = who \/ pc[x] = "asleep" THEN AfterBarrier(x) ELSE pc[x]]
    BY <1>5 DEF BarrierArrive
  <2>2. \A x \in Both : x # who => pc[x] = "asleep"
    BY <1>1, <1>5 DEF MeetInv
  <2>3. InBarrier \cup {who} = Both
    BY <2>2 DEF InBarrier
  <2>4. \A x \in Both : pc'[x] \in AtWork
    BY <1>1, <2>1, <2>2
  <2>5. BeyondIt' = Both /\ InBarrier' = {}
    BY <1>1, <2>4 DEF BeyondIt, InBarrier, AtWork
  <2>6. MeetInv'
    BY <2>1, <2>4 DEF MeetInv, AtWork
  <2> QED
    BY <1>3, <2>3, <2>5, <2>6 DEF Rendezvous!Release
<1> QED
  BY <1>1, <1>4, <1>5

LEMMA MeetingSimulated ==
  NetInv /\ MeetInv /\ [Next]_vars => MeetInv' /\ [Rendezvous!Next]_Rendezvous!barrierVars
<1> SUFFICES ASSUME NetInv, MeetInv, [Next]_vars
             PROVE  MeetInv' /\ (Rendezvous!Next \/ UNCHANGED Rendezvous!barrierVars)
  OBVIOUS
<1>1. CASE Meets
  <2>1. PICK who \in Both : BarrierArrive(who) \/ Moves(who)
    BY <1>1, OneMoves
  <2>2. Meets'
    BY <1>1, OneMoves DEF Meets
  <2>3. CASE BarrierArrive(who)
    BY <1>1, <2>3, MeetingIsOne DEF Rendezvous!Next
  <2>4. CASE Moves(who)
    <3>1. \A x \in Both : pc'[x] = "asleep" <=> pc[x] = "asleep"
      BY <2>4 DEF Moves, NotThere, AtWork
    <3>2. InBarrier' = InBarrier
      BY <1>1, <2>2, <3>1 DEF InBarrier
    <3>3. \A x \in Both : /\ pc[x] \in AtWork => pc'[x] \in AtWork \cup {"done"}
                          /\ pc'[x] \in AtWork => pc[x] \in AtWork
                          /\ x # who => pc'[x] = pc[x]
      BY <2>4 DEF Moves, NotThere, AtWork
    <3>4. \A x \in Both : pc[x] = "done" => pc'[x] = "done"
      BY <2>4 DEF Moves, NotThere, AtWork
    <3>5. MeetInv'
      <4>1. (\E x \in Both : pc'[x] \in AtWork) => \A x \in Both : pc'[x] \in AtWork \cup {"done"}
        BY <1>1, <3>3, <3>4 DEF MeetInv
      <4>2. count' = count
        BY <2>4 DEF Moves
      <4> QED
        BY <1>1, <2>2, <3>1, <4>1, <4>2 DEF MeetInv
    <3>6. BeyondIt' = BeyondIt \/ (who \in BeyondIt /\ BeyondIt' = BeyondIt \ {who})
      BY <1>1, <2>2, <3>3 DEF BeyondIt
    <3> QED
      BY <3>2, <3>5, <3>6 DEF Rendezvous!Next, Rendezvous!Leave, Rendezvous!barrierVars
  <2> QED
    BY <2>1, <2>3, <2>4
<1>2. CASE ~Meets
  <2>1. UNCHANGED <<program, platform>>
    BY SameConfig DEF config
  <2>2. ~Meets'
    BY <1>2, <2>1 DEF Meets
  <2> QED
    BY <1>2, <2>2 DEF MeetInv, Rendezvous!barrierVars, InBarrier, BeyondIt
<1> QED
  BY <1>1, <1>2

\* The servers and clients of network_io_benchmarker.c meet at their barrier
\* (pthread_barrier_wait, lines 248 to 866): where the system has barriers,
\* neither sends, connects or waits for events before both have set up their
\* sockets, whichever set-up call fails.
THEOREM MeetingImplemented == Spec => Rendezvous!Spec
<1>1. Init => MeetInv /\ Rendezvous!Init
  BY DEF Init, MeetInv, Rendezvous!Init, InBarrier, BeyondIt, Both, AtWork
<1> QED
  BY <1>1, MeetingSimulated, NetInvariant, PTL DEF Spec, Rendezvous!Spec

=============================================================================
