------------------------ MODULE CorrespondLinkProofs ------------------------
(***************************************************************************)
(* The link to the correspond server is never given up, for any retry      *)
(* interval and any number of faults, requests and events: whichever       *)
(* thread takes the last thing that would lead to a connect() leaves       *)
(* another in its place.  The timer among them is the engine's.            *)
(***************************************************************************)
EXTENDS CorrespondLink, TLAPS

Requests == {"connect", "register", "user_status", "close"}
Events   == {"linked", "link_error", "shut", "timer", "control",
             "register_failure", "room_finish"}
Controls == {"list_ok", "correspond_ok", "correspond_failed"}
Answers  == {"room_finish", "register_failure"}

\* The events whose handler starts an attempt to connect
Retries == {"control", "timer", "link_error", "shut"}

-----------------------------------------------------------------------------
(* Queues                                                                  *)

LEMMA Appended ==
  ASSUME NEW S, NEW q \in Seq(S), NEW x \in S
  PROVE  /\ Append(q, x) \in Seq(S)
         /\ \A y : y \in Range(q) \/ y = x <=> y \in Range(Append(q, x))
<1>1. \A k \in 1 .. Len(q) : Append(q, x)[k] = q[k]
  OBVIOUS
<1>2. Append(q, x)[Len(q) + 1] = x /\ Len(Append(q, x)) = Len(q) + 1 /\ Len(q) \in Nat
  OBVIOUS
<1>3. \A y : y \in Range(q) <=> \E k \in 1 .. Len(q) : q[k] = y
  BY DEF Range
<1>4. \A y : y \in Range(Append(q, x)) <=> \E k \in 1 .. Len(q) + 1 : Append(q, x)[k] = y
  BY DEF Range
<1> QED BY <1>1, <1>2, <1>3, <1>4

LEMMA Taken ==
  ASSUME NEW S, NEW q \in Seq(S), q # <<>>
  PROVE  /\ Tail(q) \in Seq(S) /\ Head(q) \in S
         /\ \A y : y \in Range(q) <=> y = Head(q) \/ y \in Range(Tail(q))
<1>1. Len(q) \in Nat \ {0} /\ Len(Tail(q)) = Len(q) - 1 /\ Head(q) = q[1]
  OBVIOUS
<1>2. \A k \in 1 .. Len(q) - 1 : Tail(q)[k] = q[k + 1]
  OBVIOUS
<1>3. \A y : y \in Range(q) <=> \E k \in 1 .. Len(q) : q[k] = y
  BY DEF Range
<1>4. \A y : y \in Range(Tail(q)) <=> \E k \in 1 .. Len(q) - 1 : Tail(q)[k] = y
  <2>1. Tail(q) \in Seq(S) /\ DOMAIN Tail(q) = 1 .. Len(q) - 1
    BY <1>1
  <2> QED BY <2>1 DEF Range
<1>5. ASSUME NEW y, y \in Range(q), y # Head(q) PROVE y \in Range(Tail(q))
  <2>1. PICK k \in 1 .. Len(q) : q[k] = y
    BY <1>3, <1>5
  <2>2. k - 1 \in 1 .. Len(q) - 1 /\ Tail(q)[k - 1] = y
    BY <1>1, <1>2, <1>5, <2>1
  <2> QED BY <1>4, <2>2
<1>6. ASSUME NEW y, y = Head(q) \/ y \in Range(Tail(q)) PROVE y \in Range(q)
  <2>1. CASE y = Head(q)
    BY <1>1, <1>3, <2>1
  <2>2. CASE y \in Range(Tail(q))
    <3>1. PICK k \in 1 .. Len(q) - 1 : Tail(q)[k] = y
      BY <1>4, <2>2
    <3>2. k + 1 \in 1 .. Len(q) /\ q[k + 1] = y
      BY <1>1, <1>2, <3>1
    <3> QED BY <1>3, <3>2
  <2> QED BY <1>6, <2>1, <2>2
<1> QED BY <1>5, <1>6

-----------------------------------------------------------------------------
(* The one timer                                                           *)

Id == "IDI_CONNECT_CORRESPOND"

\* The countdown is that of the timer, which is set for one firing.
TimerOK ==
  /\ Timer!TypeOK
  /\ active # {} => /\ left[Id] = timePass + timeLeave /\ timeLeave > 0
                    /\ repeatTimes[Id] = 1
  /\ active = {} => timeLeave = NoTimeLeave

LEMMA SetTimerOK ==
  ASSUME TimerOK, SetConnectTimer
  PROVE  TimerOK' /\ (active' # {} \/ crashed')
<1>1. CASE Timer!SetTimer(Id, ConnectTime, 1)
  <2>1. Timer!Rounded(ConnectTime) = ConnectTime
    BY LinkAssumption DEF Timer!Rounded
  <2>2. active = {} /\ timeLeave = NoTimeLeave
    BY <1>1 DEF TimerOK, Timer!TypeOK, Timer!SetTimer, Id
  <2>3. timeLeave' = ConnectTime
    BY <1>1, <2>1, <2>2, LinkAssumption DEF Timer!SetTimer, Timer!Least
  <2>4. /\ active' = {Id} /\ fired' = {} /\ crashed' = crashed /\ timePass' = timePass
        /\ elapse' = [elapse EXCEPT ![Id] = ConnectTime]
        /\ repeatTimes' = [repeatTimes EXCEPT ![Id] = 1]
        /\ left' = [left EXCEPT ![Id] = ConnectTime + timePass]
    BY <1>1, <2>1, <2>2 DEF Timer!SetTimer
  <2>5. /\ timePass \in Nat /\ ConnectTime \in Nat \ {0} /\ crashed \in BOOLEAN
        /\ elapse \in [{Id} -> Nat] /\ left \in [{Id} -> Nat]
        /\ repeatTimes \in [{Id} -> (Nat \ {0}) \cup {Infinity}]
    BY LinkAssumption DEF TimerOK, Timer!TypeOK, Id
  <2>6. Timer!TypeOK'
    BY <2>3, <2>4, <2>5 DEF Timer!TypeOK, Id
  <2>7. left'[Id] = timePass' + timeLeave' /\ timeLeave' > 0 /\ repeatTimes'[Id] = 1
    BY <2>3, <2>4, <2>5
  <2> QED BY <2>4, <2>6, <2>7 DEF TimerOK
<1>2. CASE Timer!SetActiveTimer(Id)
  BY <1>2 DEF Timer!SetActiveTimer, Timer!items, TimerOK, Timer!TypeOK
<1> QED BY <1>1, <1>2 DEF SetConnectTimer, Id

\* A tick that takes the timer off reports it.
LEMMA TickOK ==
  ASSUME TimerOK, Timer!OnTimerThreadSink
  PROVE  TimerOK' /\ (fired' # {} \/ active' = active)
<1>1. /\ active = {Id} /\ Id \in active
      /\ left[Id] = timePass + timeLeave /\ timeLeave > 0 /\ repeatTimes[Id] = 1
  <2>1. active # {}
    BY DEF Timer!OnTimerThreadSink, Timer!PassTime, Timer!SearchTimers
  <2>2. active \subseteq {Id}
    BY DEF TimerOK, Timer!TypeOK, Id
  <2> QED BY <2>1, <2>2 DEF TimerOK
<1>2. /\ timePass \in Nat /\ timeLeave \in Nat /\ crashed \in BOOLEAN
      /\ elapse \in [{Id} -> Nat] /\ left \in [{Id} -> Nat]
      /\ repeatTimes \in [{Id} -> (Nat \ {0}) \cup {Infinity}]
  BY DEF TimerOK, Timer!TypeOK, Id
<1>3. CASE Timer!PassTime
  <2>1. /\ timePass' = timePass + 1 /\ timeLeave' = timeLeave - 1 /\ timeLeave # 1
        /\ fired' = {} /\ UNCHANGED <<active, elapse, repeatTimes, left, crashed>>
    BY <1>3 DEF Timer!PassTime, Timer!items
  <2>2. timePass' \in Nat /\ timeLeave' \in Nat /\ timeLeave' > 0
        /\ left[Id] = timePass' + timeLeave'
    BY <1>1, <1>2, <2>1
  <2>3. Timer!TypeOK'
    BY <1>1, <1>2, <2>1, <2>2 DEF Timer!TypeOK, Id
  <2> QED BY <1>1, <2>1, <2>2, <2>3 DEF TimerOK
<1>4. CASE Timer!SearchTimers
  <2>1. timeLeave = 1 /\ left[Id] = timePass + 1
    BY <1>1, <1>4 DEF Timer!SearchTimers
  <2>2. Timer!Due(timePass + 1) = {Id} /\ Timer!Expired(timePass + 1) = {Id}
    BY <1>1, <2>1 DEF Timer!Due, Timer!Expired
  <2>3. active' = {} /\ fired' = {Id} /\ timePass' = 0
        /\ elapse' = elapse /\ crashed' = crashed
    BY <1>1, <1>4, <2>2 DEF Timer!SearchTimers
  <2>4. timeLeave' = NoTimeLeave
    BY <1>4, <2>3 DEF Timer!SearchTimers, Timer!Earliest
  <2>5. left' \in [{Id} -> Nat]
    <3>1. Timer!LeftAfter(Id, timePass + 1) = 0
      BY <1>1, <1>2, <2>1, <2>2 DEF Timer!LeftAfter
    <3>2. left' = [t \in {Id} |-> Timer!LeftAfter(t, timePass + 1)]
      BY <1>4 DEF Timer!SearchTimers, Id
    <3> QED BY <3>1, <3>2
  <2>6. repeatTimes' \in [{Id} -> (Nat \ {0}) \cup {Infinity}]
    <3>1. repeatTimes' = [t \in {Id} |-> repeatTimes[t]]
      BY <1>4, <2>2 DEF Timer!SearchTimers, Id
    <3> QED BY <1>2, <3>1
  <2>7. Timer!TypeOK'
    BY <1>2, <2>3, <2>4, <2>5, <2>6, LinkAssumption DEF Timer!TypeOK, Id
  <2> QED BY <2>3, <2>4, <2>7 DEF TimerOK
<1> QED BY <1>3, <1>4 DEF Timer!OnTimerThreadSink

-----------------------------------------------------------------------------
(* The inductive invariant                                                 *)

Kept ==
  /\ hSocket \in {"invalid", "connecting", "connected", "closed", "reset", "failed"}
  /\ looping \in BOOLEAN /\ closing \subseteq {"loop", "service"} /\ neek \in BOOLEAN
  /\ status \in {"ServiceStatus_Config", "ServiceStatus_Run", "ServiceStatus_Stop"}
  /\ up \in BOOLEAN /\ arrived \in BOOLEAN /\ holds \in {"none", "link", "lost"}
  /\ faults \in 0 .. MaxFaults

Queues ==
  /\ requests \in Seq(Requests) /\ events \in Seq(Events)
  /\ controls \in Seq(Controls) /\ inbox \in Seq(Answers)

\* The configuration the process starts with is the first thing its main loop
\* handles: it is still in that state.
Configured ==
  \A k \in 1 .. Len(controls) :
    controls[k] = "list_ok" => k = 1 /\ status = "ServiceStatus_Config"

Pending ==
  \/ active # {} \/ "connect" \in Range(requests) \/ "list_ok" \in Range(controls)
  \/ \E e \in Retries : e \in Range(events)

Handled ==
  Running /\ neek /\ hSocket \in {"invalid", "failed"} => Pending \/ closing # {}

LInv == Kept /\ Queues /\ TimerOK /\ Configured /\ Handled

LEMMA LInvHandles == LInv => DownIsBeingHandled
<1> SUFFICES ASSUME LInv PROVE DownIsBeingHandled
  OBVIOUS
<1>1. TypeOK
  BY DEF LInv, Kept, Queues, TimerOK, TypeOK, Requests, Events, Controls, Answers
<1>2. Pending => Reconnecting
  BY DEF Pending, Reconnecting, Retries
<1> QED BY <1>1, <1>2 DEF LInv, Handled, DownIsBeingHandled

LEMMA InitLInv == Init => LInv
<1> SUFFICES ASSUME Init PROVE LInv
  OBVIOUS
<1>1. Kept
  <2>1. 0 \in 0 .. MaxFaults
    BY LinkAssumption
  <2> QED BY <2>1 DEF Init, Kept
<1>2. Queues
  BY DEF Init, Queues, Requests, Events, Controls, Answers
<1>3. TimerOK
  BY LinkAssumption DEF Init, Timer!Init, TimerOK, Timer!TypeOK, Id
<1>4. controls = <<"list_ok">> /\ status = "ServiceStatus_Config" /\ Len(controls) = 1
      /\ controls[1] = "list_ok"
  BY DEF Init
<1>5. Configured
  BY <1>4 DEF Configured
<1>6. "list_ok" \in Range(controls)
  BY <1>4 DEF Range
<1> QED BY <1>1, <1>2, <1>3, <1>5, <1>6 DEF LInv, Handled, Pending

\* Most steps leave the timer and ServiceUnits alone, and add to the queues.
LEMMA Undisturbed ==
  ASSUME LInv, UNCHANGED <<controls, status, timer>>
  PROVE  TimerOK' /\ Configured' /\ (Running' <=> Running)
<1>1. TimerOK'
  BY DEF LInv, TimerOK, Timer!TypeOK, timer
<1> QED BY <1>1 DEF LInv, Configured, Running, timer

\* The attemper thread took the event at the head of its queue.
LEMMA HandleOK ==
  ASSUME LInv, NEW e, Handle(e)
  PROVE  /\ events' \in Seq(Events) /\ e \in Range(events) /\ Running
         /\ \A y : y \in Range(events) => y = e \/ y \in Range(events')
BY Taken DEF LInv, Queues, Handle

LEMMA PostOK ==
  ASSUME LInv, NEW r \in Requests, PostRequest(r)
  PROVE  /\ requests' \in Seq(Requests) /\ r \in Range(requests')
         /\ \A y : y \in Range(requests) => y \in Range(requests')
BY Appended DEF LInv, Queues, PostRequest

\* A request other than "connect" is nothing that leads to one.
LEMMA RequestOK ==
  ASSUME LInv, NEW r, Request(r)
  PROVE  /\ requests' \in Seq(Requests) /\ Running
         /\ \A y : y \in Range(requests) => y = r \/ y \in Range(requests')
BY Taken DEF LInv, Queues, Request

LEMMA EventOK ==
  ASSUME LInv, NEW e \in Events, events' = Append(events, e)
  PROVE  /\ events' \in Seq(Events) /\ e \in Range(events')
         /\ \A y : y \in Range(events) => y \in Range(events')
BY Appended DEF LInv, Queues

-----------------------------------------------------------------------------
(* The attemper thread and ServiceUnits                                    *)

LEMMA LinkStep ==
  ASSUME LInv, OnEventTCPSocketLink
  PROVE  LInv'
<1>1. CASE /\ Handle("linked") /\ PostRequest("register")
           /\ UNCHANGED <<local, neek, controls, status, server, timer>>
  <2>1. TimerOK' /\ Configured' /\ (Running' <=> Running)
    BY <1>1, Undisturbed
  <2>2. Kept'
    BY <1>1 DEF LInv, Kept, local, server
  <2>3. /\ events' \in Seq(Events)
        /\ \A y : y \in Range(events) => y = "linked" \/ y \in Range(events')
    BY <1>1, HandleOK
  <2>4. /\ requests' \in Seq(Requests)
        /\ \A y : y \in Range(requests) => y \in Range(requests')
    BY <1>1, PostOK DEF Requests
  <2>5. Queues'
    BY <1>1, <2>3, <2>4 DEF LInv, Queues, server
  <2>6. Handled'
    BY <1>1, <2>1, <2>3, <2>4 DEF LInv, Handled, Pending, Retries, local, timer
  <2> QED BY <2>1, <2>2, <2>5, <2>6 DEF LInv
<1>2. CASE /\ Handle("link_error") /\ SetConnectTimer
           /\ UNCHANGED <<local, requests, neek, controls, status, server>>
  <2>1. TimerOK' /\ (active' # {} \/ crashed')
    BY <1>2, SetTimerOK DEF LInv
  <2>2. Kept' /\ Configured'
    BY <1>2 DEF LInv, Kept, Configured, local, server
  <2>3. events' \in Seq(Events)
    BY <1>2, HandleOK
  <2>4. Queues'
    BY <1>2, <2>3 DEF LInv, Queues, server
  <2>5. Handled'
    BY <2>1 DEF Handled, Pending, Running
  <2> QED BY <2>1, <2>2, <2>4, <2>5 DEF LInv
<1> QED BY <1>1, <1>2 DEF OnEventTCPSocketLink

LEMMA ShutStep ==
  ASSUME LInv, OnEventTCPSocketShut
  PROVE  LInv'
<1>1. Kept' /\ Configured'
  BY DEF OnEventTCPSocketShut, LInv, Kept, Configured, local, server
<1>2. events' \in Seq(Events)
  BY HandleOK DEF OnEventTCPSocketShut
<1>3. Queues'
  BY <1>2 DEF OnEventTCPSocketShut, LInv, Queues, server
<1>4. CASE neek /\ SetConnectTimer
  <2>1. TimerOK' /\ (active' # {} \/ crashed')
    BY <1>4, SetTimerOK DEF LInv
  <2>2. Handled'
    BY <2>1 DEF Handled, Pending, Running
  <2> QED BY <1>1, <1>3, <2>1, <2>2 DEF LInv
<1>5. CASE ~neek /\ UNCHANGED timer
  <2>1. TimerOK'
    BY <1>5 DEF LInv, TimerOK, Timer!TypeOK, timer
  <2>2. Handled'
    BY <1>5 DEF OnEventTCPSocketShut, Handled
  <2> QED BY <1>1, <1>3, <2>1, <2>2 DEF LInv
<1> QED BY <1>4, <1>5 DEF OnEventTCPSocketShut

LEMMA ConnectStep ==
  ASSUME LInv, Connect
  PROVE  LInv'
<1>1. TimerOK' /\ Configured'
  BY Undisturbed DEF Connect
<1>2. Kept'
  BY DEF Connect, LInv, Kept, local, server
<1>3. events' \in Seq(Events)
  BY HandleOK DEF Connect
<1>4. requests' \in Seq(Requests) /\ "connect" \in Range(requests')
  BY PostOK DEF Connect, Requests
<1>5. Queues'
  BY <1>3, <1>4 DEF Connect, LInv, Queues, server
<1>6. Handled'
  BY <1>4 DEF Handled, Pending
<1> QED BY <1>1, <1>2, <1>5, <1>6 DEF LInv

\* What ServiceUnits is told is not the configuration again.
LEMMA ControlPosted ==
  ASSUME LInv, NEW c \in Controls \ {"list_ok"}, controls' = Append(controls, c),
         status' = status
  PROVE  /\ controls' \in Seq(Controls) /\ Configured'
         /\ \A y : y \in Range(controls) => y \in Range(controls')
<1>1. controls \in Seq(Controls)
  BY DEF LInv, Queues
<1>2. /\ controls' \in Seq(Controls)
      /\ \A y : y \in Range(controls) => y \in Range(controls')
  BY <1>1, Appended
<1>3. Configured'
  <2> SUFFICES ASSUME NEW k \in 1 .. Len(controls'), controls'[k] = "list_ok"
               PROVE  k = 1 /\ status' = "ServiceStatus_Config"
    BY DEF Configured
  <2>1. /\ Len(controls') = Len(controls) + 1 /\ Len(controls) \in Nat
        /\ controls'[Len(controls) + 1] = c
        /\ \A j \in 1 .. Len(controls) : controls'[j] = controls[j]
    BY <1>1
  <2>2. k \in 1 .. Len(controls) /\ controls[k] = "list_ok"
    BY <2>1
  <2> QED BY <2>2 DEF LInv, Configured
<1> QED BY <1>2, <1>3

LEMMA RegisterStep ==
  ASSUME LInv, OnTCPSocketMainRegister
  PROVE  LInv'
<1>1. controls' \in Seq(Controls) /\ Configured'
  BY ControlPosted DEF OnTCPSocketMainRegister, Controls
<1>2. TimerOK'
  BY DEF OnTCPSocketMainRegister, LInv, TimerOK, Timer!TypeOK, timer
<1>3. Kept'
  BY DEF OnTCPSocketMainRegister, LInv, Kept, local, server
<1>4. events' \in Seq(Events) /\ requests' \in Seq(Requests)
  BY HandleOK, PostOK DEF OnTCPSocketMainRegister, Requests
<1>5. Queues'
  BY <1>1, <1>4 DEF OnTCPSocketMainRegister, LInv, Queues, server
<1>6. Handled'
  BY DEF OnTCPSocketMainRegister, Handled
<1> QED BY <1>1, <1>2, <1>3, <1>5, <1>6 DEF LInv

LEMMA ServiceInfoStep ==
  ASSUME LInv, OnTCPSocketMainServiceInfo
  PROVE  LInv'
<1>1. /\ controls' \in Seq(Controls) /\ Configured'
      /\ \A y : y \in Range(controls) => y \in Range(controls')
  BY ControlPosted DEF OnTCPSocketMainServiceInfo, Controls
<1>2. TimerOK' /\ (Running' <=> Running)
  BY DEF OnTCPSocketMainServiceInfo, LInv, TimerOK, Timer!TypeOK, timer, Running
<1>3. Kept'
  BY DEF OnTCPSocketMainServiceInfo, LInv, Kept, local, server
<1>4. /\ events' \in Seq(Events)
      /\ \A y : y \in Range(events) => y = "room_finish" \/ y \in Range(events')
  BY HandleOK DEF OnTCPSocketMainServiceInfo
<1>5. Queues'
  BY <1>1, <1>4 DEF OnTCPSocketMainServiceInfo, LInv, Queues, server
<1>6. Handled'
  BY <1>1, <1>2, <1>4
  DEF OnTCPSocketMainServiceInfo, LInv, Handled, Pending, Retries, local, timer
<1> QED BY <1>1, <1>2, <1>3, <1>5, <1>6 DEF LInv

LEMMA ReportStep ==
  ASSUME LInv, ReportUserStatus
  PROVE  LInv'
<1>1. TimerOK' /\ Configured' /\ (Running' <=> Running)
  BY Undisturbed DEF ReportUserStatus
<1>2. Kept'
  BY DEF ReportUserStatus, LInv, Kept, local, server
<1>3. /\ requests' \in Seq(Requests)
      /\ \A y : y \in Range(requests) => y \in Range(requests')
  BY PostOK DEF ReportUserStatus, Requests
<1>4. Queues'
  BY <1>3 DEF ReportUserStatus, LInv, Queues, server
<1>5. Handled'
  BY <1>1, <1>3 DEF ReportUserStatus, LInv, Handled, Pending, local, timer
<1> QED BY <1>1, <1>2, <1>4, <1>5 DEF LInv

\* The configuration turns into the first request to connect: ServiceUnits is
\* not in service yet when it comes to it.
LEMMA ControlStep ==
  ASSUME LInv, OnUIControlRequest
  PROVE  LInv'
<1> DEFINE c == Head(controls)
<1>1. controls \in Seq(Controls) /\ controls # <<>> /\ controls' = Tail(controls)
  BY DEF OnUIControlRequest, LInv, Queues
<1>2. /\ controls' \in Seq(Controls) /\ c \in Controls
      /\ \A y : y \in Range(controls) => y = c \/ y \in Range(controls')
  BY <1>1, Taken
<1>3. \A k \in 1 .. Len(controls') : controls'[k] # "list_ok"
  <2> SUFFICES ASSUME NEW k \in 1 .. Len(controls'), controls'[k] = "list_ok"
               PROVE  FALSE
    OBVIOUS
  <2>1. k + 1 \in 1 .. Len(controls) /\ controls[k + 1] = "list_ok" /\ k + 1 # 1
    BY <1>1
  <2> QED BY <2>1 DEF LInv, Configured
<1>4. Configured'
  BY <1>3 DEF Configured
<1>5. c = "list_ok" => status = "ServiceStatus_Config"
  <2>1. 1 \in 1 .. Len(controls) /\ controls[1] = c
    BY <1>1
  <2> QED BY <2>1 DEF LInv, Configured
<1>6. TimerOK'
  BY DEF OnUIControlRequest, LInv, TimerOK, Timer!TypeOK, timer
<1>7. status' \in {"ServiceStatus_Config", "ServiceStatus_Run", "ServiceStatus_Stop"}
      /\ (Running' => Running)
  BY DEF OnUIControlRequest, LInv, Kept, Running, timer
<1>8. Kept'
  BY <1>7 DEF OnUIControlRequest, LInv, Kept, local, server
<1>9. /\ events' \in Seq(Events)
      /\ \A y : y \in Range(events) => y \in Range(events')
      /\ c = "list_ok" => "control" \in Range(events')
  <2>1. CASE c = "list_ok"
    <3>1. events' = Append(events, "control")
      BY <1>5, <2>1 DEF OnUIControlRequest
    <3> QED BY <3>1, EventOK DEF Events
  <2>2. CASE c # "list_ok"
    <3>1. events' = events
      BY <2>2 DEF OnUIControlRequest
    <3> QED BY <2>2, <3>1 DEF LInv, Queues
  <2> QED BY <2>1, <2>2
<1>10. Queues'
  BY <1>2, <1>9 DEF OnUIControlRequest, LInv, Queues, server
<1>11. Handled'
  <2> HIDE DEF c
  <2>1. UNCHANGED <<local, requests, neek, timer>>
    BY DEF OnUIControlRequest
  <2>2. Pending => Pending'
    BY <1>2, <1>9, <2>1 DEF Pending, Retries, timer
  <2> QED BY <1>7, <2>1, <2>2 DEF LInv, Handled, local
<1> QED BY <1>4, <1>6, <1>8, <1>10, <1>11 DEF LInv

-----------------------------------------------------------------------------
(* The service thread and the Loop thread                                  *)

LEMMA ConnectRequestStep ==
  ASSUME LInv, OnConnectRequest
  PROVE  LInv'
<1>1. TimerOK' /\ Configured' /\ (Running' <=> Running)
  BY Undisturbed DEF OnConnectRequest
<1>2. requests' \in Seq(Requests)
  BY RequestOK DEF OnConnectRequest
<1>3. inbox' \in Seq(Answers)
  BY DEF OnConnectRequest
<1>4. CASE hSocket' = "connecting" /\ looping' = TRUE /\ UNCHANGED <<events, faults>>
  <2>1. Kept'
    BY <1>4 DEF OnConnectRequest, LInv, Kept
  <2>2. Queues'
    BY <1>2, <1>3, <1>4 DEF OnConnectRequest, LInv, Queues
  <2>3. Handled'
    BY <1>4 DEF Handled
  <2> QED BY <1>1, <2>1, <2>2, <2>3 DEF LInv
<1>5. CASE /\ hSocket' = "invalid" /\ UNCHANGED looping
           /\ events' = Append(events, "link_error")
           /\ faults < MaxFaults /\ faults' = faults + 1
  <2>1. Kept'
    <3>1. faults' \in 0 .. MaxFaults
      BY <1>5, LinkAssumption DEF LInv, Kept
    <3> QED BY <1>5, <3>1 DEF OnConnectRequest, LInv, Kept
  <2>2. events' \in Seq(Events) /\ "link_error" \in Range(events')
    BY <1>5, EventOK DEF Events
  <2>3. Queues'
    BY <1>2, <1>3, <2>2 DEF OnConnectRequest, LInv, Queues
  <2>4. Handled'
    BY <2>2 DEF Handled, Pending, Retries
  <2> QED BY <1>1, <2>1, <2>3, <2>4 DEF LInv
<1> QED BY <1>4, <1>5 DEF OnConnectRequest

LEMMA ConnectedStep ==
  ASSUME LInv, OnConnected
  PROVE  LInv'
<1>1. TimerOK' /\ Configured' /\ (Running' <=> Running)
  BY Undisturbed DEF OnConnected
<1>2. Kept'
  BY DEF OnConnected, LInv, Kept, server
<1>3. PICK e \in {"linked", "link_error"} :
        events' = Append(events, e) /\ (hSocket' = "failed" => e = "link_error")
  BY DEF OnConnected
<1>4. events' \in Seq(Events) /\ e \in Range(events')
  BY <1>3, EventOK DEF Events
<1>5. Queues'
  BY <1>4 DEF OnConnected, LInv, Queues, server
<1>6. Handled'
  <2>1. hSocket' # "invalid"
    BY DEF OnConnected
  <2> QED BY <1>3, <1>4, <2>1 DEF Handled, Pending, Retries
<1> QED BY <1>1, <1>2, <1>5, <1>6 DEF LInv

LEMMA SendStep ==
  ASSUME LInv, PerformSendData
  PROVE  LInv'
<1>1. TimerOK' /\ Configured' /\ (Running' <=> Running)
  BY Undisturbed DEF PerformSendData
<1>2. Kept'
  BY DEF PerformSendData, LInv, Kept
<1>3. /\ requests' \in Seq(Requests)
      /\ "connect" \in Range(requests) => "connect" \in Range(requests')
  <2>1. PICK r \in {"register", "user_status"} : Request(r)
    BY DEF PerformSendData
  <2> QED BY <2>1, RequestOK
<1>4. Queues'
  BY <1>3 DEF PerformSendData, LInv, Queues
<1>5. Handled'
  <2>1. /\ hSocket' \in {"invalid", "failed"} => hSocket \in {"invalid", "failed"}
        /\ closing \subseteq closing' /\ UNCHANGED <<neek, events, controls, timer>>
    BY DEF PerformSendData
  <2>2. Pending => Pending'
    BY <1>3, <2>1 DEF Pending, timer
  <2> QED BY <1>1, <2>1, <2>2 DEF LInv, Handled
<1> QED BY <1>1, <1>2, <1>4, <1>5 DEF LInv

LEMMA CloseRequestStep ==
  ASSUME LInv, OnCloseRequest
  PROVE  LInv'
<1>1. TimerOK' /\ Configured' /\ (Running' <=> Running)
  BY Undisturbed DEF OnCloseRequest
<1>2. Kept'
  BY DEF OnCloseRequest, LInv, Kept, local, server
<1>3. /\ requests' \in Seq(Requests)
      /\ "connect" \in Range(requests) => "connect" \in Range(requests')
  BY RequestOK DEF OnCloseRequest
<1>4. Queues'
  BY <1>3 DEF OnCloseRequest, LInv, Queues, server
<1>5. Handled'
  BY <1>1, <1>3 DEF OnCloseRequest, LInv, Handled, Pending, local, timer
<1> QED BY <1>1, <1>2, <1>4, <1>5 DEF LInv

LEMMA ReadStep ==
  ASSUME LInv, OnSocketNotifyRead
  PROVE  LInv'
<1>1. TimerOK' /\ Configured' /\ (Running' <=> Running)
  BY Undisturbed DEF OnSocketNotifyRead
<1>2. Kept'
  BY DEF OnSocketNotifyRead, LInv, Kept, local
<1>3. inbox' \in Seq(Answers) /\ Head(inbox) \in Answers
  BY Taken DEF OnSocketNotifyRead, LInv, Queues
<1>4. events' \in Seq(Events)
  BY <1>3, EventOK DEF OnSocketNotifyRead, Answers, Events
<1>5. Queues'
  BY <1>3, <1>4 DEF OnSocketNotifyRead, LInv, Queues
<1>6. Handled'
  BY DEF OnSocketNotifyRead, Handled, local
<1> QED BY <1>1, <1>2, <1>5, <1>6 DEF LInv

LEMMA ReadErrorStep ==
  ASSUME LInv, OnSocketReadError
  PROVE  LInv'
<1>1. TimerOK' /\ Configured' /\ (Running' <=> Running)
  BY Undisturbed DEF OnSocketReadError
<1>2. Kept'
  BY DEF OnSocketReadError, LInv, Kept, server
<1>3. Queues'
  BY DEF OnSocketReadError, LInv, Queues, server
<1>4. Handled'
  BY DEF OnSocketReadError, Handled
<1> QED BY <1>1, <1>2, <1>3, <1>4 DEF LInv

LEMMA LoopEndsStep ==
  ASSUME LInv, LoopEnds
  PROVE  LInv'
<1>1. TimerOK' /\ Configured' /\ (Running' <=> Running)
  BY Undisturbed DEF LoopEnds
<1>2. Kept'
  BY DEF LoopEnds, LInv, Kept, server
<1>3. Queues'
  BY DEF LoopEnds, LInv, Queues, server
<1>4. Handled'
  BY <1>1 DEF LoopEnds, LInv, Handled, Pending, timer
<1> QED BY <1>1, <1>2, <1>3, <1>4 DEF LInv

\* Whichever thread closes the socket says so; a second one says so again.
LEMMA CloseStep ==
  ASSUME LInv, PerformCloseSocket
  PROVE  LInv'
<1>1. TimerOK' /\ Configured' /\ (Running' <=> Running)
  BY Undisturbed DEF PerformCloseSocket
<1>2. Kept'
  BY DEF PerformCloseSocket, LInv, Kept, server
<1>3. events' \in Seq(Events) /\ "shut" \in Range(events')
  BY EventOK DEF PerformCloseSocket, Events
<1>4. Queues'
  BY <1>3 DEF PerformCloseSocket, LInv, Queues, server
<1>5. Handled'
  BY <1>3 DEF Handled, Pending, Retries
<1> QED BY <1>1, <1>2, <1>4, <1>5 DEF LInv

-----------------------------------------------------------------------------
(* Time and the environment                                                *)

LEMMA TimerStep ==
  ASSUME LInv, OnTimerThreadSink
  PROVE  LInv'
<1>1. TimerOK' /\ (fired' # {} \/ active' = active)
  BY TickOK DEF OnTimerThreadSink, LInv
<1>2. Kept' /\ Configured'
  BY DEF OnTimerThreadSink, LInv, Kept, Configured, local, server
<1>3. CASE fired' # {}
  <2>1. events' \in Seq(Events) /\ "timer" \in Range(events')
    BY <1>3, EventOK DEF OnTimerThreadSink, Events
  <2>2. Queues'
    BY <2>1 DEF OnTimerThreadSink, LInv, Queues, server
  <2>3. Handled'
    BY <2>1 DEF Handled, Pending, Retries
  <2> QED BY <1>1, <1>2, <2>2, <2>3 DEF LInv
<1>4. CASE fired' = {}
  <2>1. events' = events /\ active' = active
    BY <1>1, <1>4 DEF OnTimerThreadSink
  <2>2. Queues'
    BY <2>1 DEF OnTimerThreadSink, LInv, Queues, server
  <2>3. UNCHANGED <<hSocket, closing, requests, neek, controls, status>> /\ Running
    BY DEF OnTimerThreadSink, local
  <2>4. Handled'
    BY <2>1, <2>3 DEF LInv, Handled, Pending
  <2> QED BY <1>1, <1>2, <2>2, <2>4 DEF LInv
<1> QED BY <1>3, <1>4

LEMMA EnvironmentStep ==
  ASSUME LInv, Environment
  PROVE  LInv'
<1>1. /\ UNCHANGED <<looping, closing, requests, events, neek, controls, status, timer>>
      /\ hSocket' \in {"invalid", "failed"} => hSocket \in {"invalid", "failed"}
  BY DEF Environment, ServerRegister, ServerStop, ServerStart, NetworkFault,
         ServerNotices, local
<1>2. TimerOK' /\ Configured' /\ (Running' <=> Running)
  BY <1>1, Undisturbed
<1>3. inbox' \in Seq(Answers)
  <2>1. inbox \in Seq(Answers)
    BY DEF LInv, Queues
  <2>2. \A x \in Answers : Append(inbox, x) \in Seq(Answers)
    BY <2>1
  <2>3. inbox' = inbox \/ inbox' = <<>> \/ \E x \in Answers : inbox' = Append(inbox, x)
    BY DEF Environment, ServerRegister, ServerStop, ServerStart, NetworkFault,
           ServerNotices, local, Answers
  <2>4. <<>> \in Seq(Answers)
    OBVIOUS
  <2> QED BY <2>1, <2>2, <2>3, <2>4
<1>4. Queues'
  BY <1>1, <1>3 DEF LInv, Queues
<1>5. faults' \in 0 .. MaxFaults
  <2>1. faults \in 0 .. MaxFaults /\ MaxFaults \in Nat
    BY LinkAssumption DEF LInv, Kept
  <2>2. faults' = faults \/ (faults < MaxFaults /\ faults' = faults + 1)
    BY DEF Environment, ServerRegister, ServerStop, ServerStart, NetworkFault,
           ServerNotices
  <2> QED BY <2>1, <2>2
<1>6. Kept'
  BY <1>1, <1>5 DEF Environment, ServerRegister, ServerStop, ServerStart, NetworkFault,
                    ServerNotices, local, LInv, Kept
<1>7. Handled'
  BY <1>1, <1>2 DEF LInv, Handled, Pending, timer
<1> QED BY <1>2, <1>4, <1>6, <1>7 DEF LInv

LEMMA NextLInv == LInv /\ [Next]_vars => LInv'
<1> SUFFICES ASSUME LInv, [Next]_vars PROVE LInv'
  OBVIOUS
<1>1. CASE UNCHANGED vars
  <2>1. TimerOK' /\ Configured' /\ (Running' <=> Running)
    BY <1>1, Undisturbed DEF vars
  <2>2. Kept' /\ Queues'
    BY <1>1 DEF vars, local, server, LInv, Kept, Queues
  <2>3. Handled'
    BY <1>1, <2>1 DEF vars, local, server, timer, LInv, Handled, Pending
  <2> QED BY <2>1, <2>2, <2>3 DEF LInv
<1> QED
  BY <1>1, LinkStep, ShutStep, ConnectStep, RegisterStep, ServiceInfoStep, ReportStep,
     ControlStep, ConnectRequestStep, ConnectedStep, SendStep, CloseRequestStep,
     ReadStep, ReadErrorStep, LoopEndsStep, CloseStep, TimerStep, EnvironmentStep
  DEF Next, Attemper, Service, Loop

-----------------------------------------------------------------------------
(* The theorem                                                             *)

\* As long as the process runs and its room was not refused, a link that is
\* down is about to be connected again: the timer, two queues of requests and one
\* of events hold what leads to the next attempt, and no thread drops it, however
\* they interleave.
THEOREM DownIsAlwaysHandled == Spec => []DownIsBeingHandled
<1> QED BY InitLInv, NextLInv, LInvHandles, PTL DEF Spec
-----------------------------------------------------------------------------
(* The timer the link is paced by                                          *)

LEMMA ATimerStep ==
  ASSUME [Next]_vars
  PROVE  [Timer!Next]_(Timer!vars)
<1> USE DEF Timer!vars, Timer!items, timer
<1>1. CASE UNCHANGED timer
  BY <1>1
<1>2. CASE SetConnectTimer
  BY <1>2 DEF SetConnectTimer, Timer!Next
<1>3. CASE OnTimerThreadSink
  BY <1>3 DEF OnTimerThreadSink, Timer!Next
<1>4. CASE Attemper
  BY <1>1, <1>2, <1>4 DEF Attemper, OnEventTCPSocketLink, OnEventTCPSocketShut, Connect,
     OnTCPSocketMainRegister, OnTCPSocketMainServiceInfo
<1>5. CASE Service
  BY <1>1, <1>5 DEF Service, OnConnectRequest, OnConnected, PerformSendData, OnCloseRequest
<1>6. CASE Loop
  BY <1>1, <1>6 DEF Loop, OnSocketNotifyRead, OnSocketReadError, LoopEnds
<1>7. CASE Environment
  BY <1>1, <1>7 DEF Environment, ServerRegister, ServerStop, ServerStart, NetworkFault,
     ServerNotices
<1>8. CASE ReportUserStatus \/ OnUIControlRequest \/ PerformCloseSocket
  BY <1>1, <1>8 DEF ReportUserStatus, OnUIControlRequest, PerformCloseSocket
<1>9. CASE UNCHANGED vars
  BY <1>1, <1>9 DEF vars
<1> QED BY <1>3, <1>4, <1>5, <1>6, <1>7, <1>8, <1>9 DEF Next

\* The link uses the timer engine by its calls alone: whatever its threads, the
\* network and the correspond server do, the timer of the retries behaves as
\* CTimerEngine does by itself, so what is proved of the engine holds for it.
THEOREM TheTimerIsTheEngines == Spec => Timer!Spec
<1>1. Init => Timer!Init
  BY DEF Init
<1>2. [Next]_vars => [Timer!Next]_(Timer!vars)
  BY ATimerStep
<1> QED BY <1>1, <1>2, PTL DEF Spec, Timer!Spec

=============================================================================
