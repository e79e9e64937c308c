--------------------------- MODULE CorrespondLink ---------------------------
(***************************************************************************)
(* The game server's connection to the correspond server, with the timer   *)
(* engine that paces its retries.  Three threads share m_hSocket:          *)
(*                                                                         *)
(*   attemper  handles events, one at a time, and posts requests           *)
(*   service   CTCPSocketServiceThread::Run, takes requests one at a time  *)
(*             and holds m_mutex meanwhile, also during connect()          *)
(*   loop      CTCPSocketServiceThread::Loop, one per socket, looks every  *)
(*             100 ms whether there is something to read                   *)
(*                                                                         *)
(* PerformCloseSocket takes no lock: both of the latter may find the       *)
(* socket open and close it.                                               *)
(***************************************************************************)
EXTENDS Integers, Sequences, SequencesExt

CONSTANTS
  HangupIsReadable,  \* select reports a socket whose connect() failed as readable
                     \* (Linux) or does not (Windows)
  ConnectTime,       \* ConnectTime of the config, in ticks of the timer engine
  MaxRequests,       \* bounds the user-status messages waiting to be sent
  MaxFaults,         \* bounds the faults: of socket(), the network and the other server
  MaxEvents,         \* bounds the events the attemper thread is behind when a tick
                     \* passes; 1: it has handled them all
  Infinity, NoTimeLeave

ASSUME LinkAssumption ==
  /\ HangupIsReadable \in BOOLEAN /\ ConnectTime \in Nat \ {0}
  /\ {MaxRequests, MaxFaults, MaxEvents} \subseteq Nat
  /\ Infinity \notin Nat /\ NoTimeLeave \in Nat /\ ConnectTime < NoTimeLeave

VARIABLES
  hSocket,   \* m_hSocket: "invalid", or the state of the connection behind it
  looping,   \* the Loop thread of the socket runs
  closing,   \* threads that found the socket open in PerformCloseSocket
  requests,  \* m_dataQueue of the socket service
  events,    \* the attemper engine's queue, as far as the link is concerned
  neek,      \* m_bNeekCorrespond
  controls,  \* m_dataQueue of ServiceUnits
  status,    \* m_ServiceStatus
  up, holds, arrived, inbox, faults,   \* the correspond server and the network
  active, elapse, repeatTimes, left, timePass, timeLeave, fired, crashed

timer  == <<active, elapse, repeatTimes, left, timePass, timeLeave, fired, crashed>>
local  == <<hSocket, looping, closing>>
server == <<up, holds, arrived, inbox, faults>>
vars == <<local, requests, events, neek, controls, status, server, timer>>

Timer == INSTANCE TimerEngine WITH
  Timers <- {"IDI_CONNECT_CORRESPOND"}, Space <- 1, Elapses <- {ConnectTime},
  Repeats <- {1}

Running == ~crashed /\ status # "ServiceStatus_Stop"

-----------------------------------------------------------------------------
(* The attemper thread                                                     *)

Handle(event) == Running /\ events # <<>> /\ Head(events) = event /\ events' = Tail(events)

\* PostThreadRequest waits for m_mutex, which OnServiceRequest holds in connect().
PostRequest(r) == hSocket # "connecting" /\ requests' = Append(requests, r)

SetConnectTimer ==
  \/ Timer!SetTimer("IDI_CONNECT_CORRESPOND", ConnectTime, 1)
  \/ Timer!SetActiveTimer("IDI_CONNECT_CORRESPOND")

\* Mutation: a failed connect() is not retried.
OnEventTCPSocketLinkGivesUp ==
  \/ /\ Handle("linked") /\ PostRequest("register")
     /\ UNCHANGED <<local, neek, controls, status, server, timer>>
  \/ /\ Handle("link_error")
     /\ UNCHANGED <<local, requests, neek, controls, status, server, timer>>

OnEventTCPSocketLink ==
  \/ /\ Handle("linked") /\ PostRequest("register")
     /\ UNCHANGED <<local, neek, controls, status, server, timer>>
  \/ /\ Handle("link_error") /\ SetConnectTimer
     /\ UNCHANGED <<local, requests, neek, controls, status, server>>

\* Mutation: a connection that is lost is not replaced.
OnEventTCPSocketShutGivesUp ==
  /\ Handle("shut")
  /\ UNCHANGED <<local, requests, neek, controls, status, server, timer>>

OnEventTCPSocketShut ==
  /\ Handle("shut")
  /\ IF neek THEN SetConnectTimer ELSE UNCHANGED timer
  /\ UNCHANGED <<local, requests, neek, controls, status, server>>

\* OnEventTimer, and OnEventControl of SUC_CONNECT_CORRESPOND
Connect ==
  /\ Handle("timer") \/ Handle("control")
  /\ PostRequest("connect")
  /\ UNCHANGED <<local, neek, controls, status, server, timer>>

\* SUB_CS_S_REGISTER_FAILURE.  CloseSocket posts a request that does nothing.
OnTCPSocketMainRegister ==
  /\ Handle("register_failure")
  /\ neek' = FALSE /\ PostRequest("close")
  /\ controls' = Append(controls, "correspond_failed")
  /\ UNCHANGED <<local, status, server, timer>>

\* SUB_CS_S_ROOM_FINISH
OnTCPSocketMainServiceInfo ==
  /\ Handle("room_finish")
  /\ controls' = Append(controls, "correspond_ok")
  /\ UNCHANGED <<local, requests, neek, status, server, timer>>

\* A user's status change is reported, whatever the state of the link.
ReportUserStatus ==
  /\ Running /\ status = "ServiceStatus_Run"
  /\ Len(requests) < MaxRequests /\ PostRequest("user_status")
  /\ UNCHANGED <<local, events, neek, controls, status, server, timer>>

\* ServiceUnits, on its own thread.  Conclude stops every engine; it is called too
\* when the network of the players does not start.
OnUIControlRequest ==
  /\ Running /\ controls # <<>> /\ controls' = Tail(controls)
  /\ LET result == Head(controls)
     IN  IF status = "ServiceStatus_Run" THEN UNCHANGED <<events, status>>
         ELSE /\ events' = IF result = "list_ok" THEN Append(events, "control") ELSE events
              /\ \/ result = "correspond_ok" /\ status' = "ServiceStatus_Run"
                 \/ /\ result \in {"correspond_ok", "correspond_failed"}
                    /\ status' = "ServiceStatus_Stop"
                 \/ result = "list_ok" /\ UNCHANGED status
  /\ UNCHANGED <<local, requests, neek, server, timer>>

-----------------------------------------------------------------------------
(* The service thread                                                      *)

\* The thread takes the next request when it is done with the one before.
Request(r) ==
  /\ Running /\ hSocket # "connecting" /\ "service" \notin closing
  /\ requests # <<>> /\ Head(requests) = r /\ requests' = Tail(requests)

\* PerformConnect up to connect(): a new socket, whatever became of the old one,
\* and its Loop thread
OnConnectRequest ==
  /\ Request("connect")
  /\ \/ /\ hSocket' = "connecting" /\ looping' = TRUE /\ UNCHANGED <<events, faults>>
     \/ /\ hSocket' = "invalid" /\ UNCHANGED looping       \* socket() fails
        /\ events' = Append(events, "link_error")
        /\ faults < MaxFaults /\ faults' = faults + 1
  /\ arrived' = FALSE /\ inbox' = <<>>
  /\ UNCHANGED <<closing, neek, controls, status, up, holds, timer>>

\* connect() returns.  A failure leaves the socket and its Loop thread behind.
OnConnected ==
  /\ Running /\ hSocket = "connecting"
  /\ hSocket' = IF up THEN "connected" ELSE "failed"
  /\ events' = Append(events, IF up THEN "linked" ELSE "link_error")
  /\ UNCHANGED <<looping, closing, requests, neek, controls, status, server, timer>>

\* A peer that has closed answers what it is sent with a reset.
PerformSendData ==
  /\ \E r \in {"register", "user_status"} :
       /\ Request(r)
       /\ arrived' = IF hSocket = "connected" /\ r = "register" THEN TRUE ELSE arrived
  /\ hSocket' = IF hSocket = "closed" THEN "reset" ELSE hSocket
  /\ closing' = IF hSocket \in {"reset", "failed"} THEN closing \cup {"service"} ELSE closing
  /\ UNCHANGED <<looping, events, neek, controls, status, up, holds, inbox, faults, timer>>

OnCloseRequest ==
  /\ Request("close")
  /\ UNCHANGED <<local, events, neek, controls, status, server, timer>>

-----------------------------------------------------------------------------
(* The Loop thread                                                         *)

\* A packet of the correspond server, passed on to the attemper thread
OnSocketNotifyRead ==
  /\ Running /\ looping /\ "loop" \notin closing
  /\ hSocket \in {"connected", "closed"} /\ inbox # <<>>
  /\ events' = Append(events, Head(inbox)) /\ inbox' = Tail(inbox)
  /\ UNCHANGED <<local, requests, neek, controls, status, up, holds, arrived, faults, timer>>

\* recv fails.  That it returns 0, the peer having closed, is not looked at.
OnSocketReadError ==
  /\ Running /\ looping /\ "loop" \notin closing
  /\ hSocket \in {"reset"} \cup (IF HangupIsReadable THEN {"failed"} ELSE {})
  /\ closing' = closing \cup {"loop"}
  /\ UNCHANGED <<hSocket, looping, requests, events, neek, controls, status, server, timer>>

LoopEnds ==
  /\ Running /\ looping /\ "loop" \notin closing /\ hSocket = "invalid"
  /\ looping' = FALSE
  /\ UNCHANGED <<hSocket, closing, requests, events, neek, controls, status, server, timer>>

\* PerformCloseSocket after its check
PerformCloseSocket ==
  /\ Running
  /\ \E t \in closing : closing' = closing \ {t}
  /\ hSocket' = "invalid" /\ events' = Append(events, "shut")
  /\ UNCHANGED <<looping, requests, neek, controls, status, server, timer>>

-----------------------------------------------------------------------------
(* Time                                                                    *)

\* A tick is of the order of seconds, Loop's of 100 ms: no tick passes while a
\* socket is being closed or its Loop thread has not seen that it was.
OnTimerThreadSink ==
  /\ Running /\ closing = {} /\ ~(looping /\ hSocket = "invalid")
  /\ Len(events) < MaxEvents
  /\ Timer!OnTimerThreadSink
  /\ events' = IF fired' # {} THEN Append(events, "timer") ELSE events
  /\ UNCHANGED <<local, requests, neek, controls, status, server>>

-----------------------------------------------------------------------------
(* The correspond server, and what may happen to it and to the network     *)

\* OnTCPNetworkMainRegister of the correspond server: a room id that is already
\* registered is refused and its connection closed.
ServerRegister ==
  /\ up /\ arrived /\ hSocket = "connected" /\ arrived' = FALSE
  /\ IF holds = "none"
     THEN holds' = "link" /\ inbox' = Append(inbox, "room_finish") /\ UNCHANGED hSocket
     ELSE inbox' = Append(inbox, "register_failure") /\ hSocket' = "closed" /\ UNCHANGED holds
  /\ UNCHANGED <<looping, closing, requests, events, neek, controls, status, up, faults, timer>>

\* The correspond server stops; whether the close or a reset arrives first
\* depends on what was still under way.
ServerStop ==
  /\ up /\ faults < MaxFaults
  /\ up' = FALSE /\ faults' = faults + 1
  /\ holds' = "none" /\ arrived' = FALSE
  /\ hSocket' \in IF hSocket = "connected" THEN {"closed", "reset"} ELSE {hSocket}
  /\ UNCHANGED <<looping, closing, requests, events, neek, controls, status, inbox, timer>>

ServerStart ==
  /\ ~up /\ up' = TRUE
  /\ UNCHANGED <<local, requests, events, neek, controls, status, holds, arrived,
                 inbox, faults, timer>>

\* The connection breaks, and the correspond server does not know yet.
NetworkFault ==
  /\ hSocket = "connected" /\ faults < MaxFaults
  /\ hSocket' = "reset" /\ faults' = faults + 1
  /\ holds' = IF holds = "link" THEN "lost" ELSE holds
  /\ arrived' = FALSE /\ inbox' = <<>>
  /\ UNCHANGED <<looping, closing, requests, events, neek, controls, status, up, timer>>

\* OnEventTCPNetworkShut of the correspond server for a connection it lost
ServerNotices ==
  /\ holds = "lost" /\ holds' = "none"
  /\ UNCHANGED <<local, requests, events, neek, controls, status, up, arrived,
                 inbox, faults, timer>>

-----------------------------------------------------------------------------
Init ==
  /\ hSocket = "invalid" /\ looping = FALSE /\ closing = {}
  /\ requests = <<>> /\ events = <<>> /\ neek = TRUE
  /\ controls = <<"list_ok">> /\ status = "ServiceStatus_Config"
  /\ up \in BOOLEAN /\ holds = "none" /\ arrived = FALSE /\ inbox = <<>> /\ faults = 0
  /\ Timer!Init

Attemper ==
  \/ OnEventTCPSocketLink
  \/ OnEventTCPSocketShut
  \/ Connect
  \/ OnTCPSocketMainRegister
  \/ OnTCPSocketMainServiceInfo

Service ==
  \/ OnConnectRequest
  \/ OnConnected
  \/ PerformSendData
  \/ OnCloseRequest

Loop ==
  \/ OnSocketNotifyRead
  \/ OnSocketReadError
  \/ LoopEnds

\* followed for as long as there is a link to look after
Environment ==
  /\ Running
  /\ \/ ServerRegister
     \/ ServerStop
     \/ ServerStart
     \/ NetworkFault
     \/ ServerNotices

Next ==
  \/ Attemper \/ ReportUserStatus \/ OnUIControlRequest
  \/ Service \/ Loop \/ PerformCloseSocket
  \/ OnTimerThreadSink
  \/ Environment

Spec == Init /\ [][Next]_vars

\* Every thread runs, and the correspond server comes back and does its part.
FairSpec ==
  /\ Spec
  /\ WF_vars(Attemper) /\ WF_vars(OnUIControlRequest)
  /\ WF_vars(Service) /\ WF_vars(Loop) /\ WF_vars(PerformCloseSocket)
  /\ WF_vars(OnTimerThreadSink)
  /\ WF_vars(ServerRegister) /\ WF_vars(ServerStart) /\ WF_vars(ServerNotices)

-----------------------------------------------------------------------------
\* Types of the three threads' and the server's variables
TypeOK ==
  /\ hSocket \in {"invalid", "connecting", "connected", "closed", "reset", "failed"}
  /\ looping \in BOOLEAN /\ closing \subseteq {"loop", "service"} /\ neek \in BOOLEAN
  /\ requests \in Seq({"connect", "register", "user_status", "close"})
  /\ events \in Seq({"linked", "link_error", "shut", "timer", "control",
                     "register_failure", "room_finish"})
  /\ controls \in Seq({"list_ok", "correspond_ok", "correspond_failed"})
  /\ status \in {"ServiceStatus_Config", "ServiceStatus_Run", "ServiceStatus_Stop"}
  /\ up \in BOOLEAN /\ arrived \in BOOLEAN /\ holds \in {"none", "link", "lost"}
  /\ inbox \in Seq({"room_finish", "register_failure"}) /\ faults \in 0 .. MaxFaults
  /\ Timer!TypeOK

\* Something that will end in a connect() is under way
Reconnecting ==
  \/ active # {} \/ "connect" \in Range(requests)
  \/ "list_ok" \in Range(controls)
  \/ {"control", "timer", "link_error", "shut"} \cap Range(events) # {}

\* The link is never silently given up: while the server wants it and no socket
\* is open for it, a retry is under way in one of the threads.  The types are
\* part of it: there are no more threads and events than these.
DownIsBeingHandled ==
  /\ TypeOK
  /\ Running /\ neek /\ hSocket \in {"invalid", "failed"} => Reconnecting \/ closing # {}

\* A link that broke, or a correspond server that was away, leads to a new
\* connection, unless the room was refused meanwhile, or the process stopped.
LostIsReplaced ==
  hSocket \in {"invalid", "reset", "failed"} /\ neek
    ~> hSocket = "connected" \/ ~neek \/ ~Running

\* "The connection to the correspond server is closed and will reconnect"
\* (gameserver/AttemperEngineSink.cpp:134): a close by the peer is followed by a
\* new connection.
CloseIsNoticed ==
  hSocket = "closed" /\ neek ~> hSocket # "closed" \/ ~neek \/ ~Running

=============================================================================
