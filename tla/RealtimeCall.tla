---------------------------- MODULE RealtimeCall ----------------------------
(***************************************************************************)
(* A call recorded live: the browser's useRealtimeSession, its WebSocket   *)
(* connections, their handlers in the backend (realtime_session,           *)
(* RealtimeManager.accept and control) and the one session they share.     *)
(*                                                                         *)
(* The audio is its frame numbers.  A connection is a pair of FIFO         *)
(* channels; when it is lost, the browser still gets some prefix of what   *)
(* was under way to it, and the handler may go on for some messages beside *)
(* the handlers of later connections.  A step of a handler is one message, *)
(* because accept() and end() run in a one-thread executor; start and end  *)
(* have an await whose outcome matters, and take two steps.  What is       *)
(* recognized is left out, and so are sessions of the recognition service. *)
(***************************************************************************)
EXTENDS Integers, Sequences, FiniteSets, FiniteSetsExt, Subsequences

CONSTANTS
    Connections,    \* the connections the browser may open are 1..Connections
    BufferLimit,    \* frames kept until acknowledged: 500
    MaxAttempts,    \* reconnections in a row before giving up: 6
    Faults,         \* "open": opening the ASR session raises; "recognition":
                    \* so does feeding it; "analysis": so does creating the
                    \* job; "slow": starting takes a minute; "leave": the user
                    \* leaves the page or closes the tab
    MaxFrames,      \* bound: frames captured
    MaxClicks,      \* bound: clicks on pause and resume
    MaxDrops        \* bound: these clicks, connections lost or refused and
                    \* frames that raise, together

ASSUME ConstantsAssumption ==
    /\ Connections \in Nat \ {0}
    /\ BufferLimit \in Nat \ {0}
    /\ {MaxAttempts, MaxFrames, MaxClicks, MaxDrops} \subseteq Nat
    /\ Faults \subseteq {"open", "recognition", "analysis", "slow", "leave"}

Conn == 1..Connections

VARIABLES
    status,         \* what the page shows
    capturing,      \* the microphone is on
    sequence,       \* number of the next frame
    lastAck,
    buffered,       \* bufferedFrames: the numbers of the frames kept
    socket,         \* the connection `socket` refers to
    opened,         \* connections created so far
    readyState,     \* readyState[k]: of the browser's end of connection k
    attempts,       \* reconnectAttempts
    timers,         \* reconnections that are scheduled
    intentional     \* intentionalClose

VARIABLES
    up, down,       \* up[k], down[k]: messages under way on connection k
    cut             \* cut[k]: connection k is closed or lost

VARIABLES
    handler,        \* handler[k]: what serves connection k in the backend
    session,        \* RealtimeManager.sessions: "none", "open" or "closed"
    lastSequence,
    paused,
    recording,      \* frames in source.wav, in order
    gated,          \* the session is in _gated_sessions: it keeps the gate shut
    jobs            \* analysis jobs created from the recording

VARIABLES clicks, drops

browser == <<status, capturing, sequence, lastAck, buffered, socket, opened,
             readyState, attempts, timers, intentional>>
network == <<up, down, cut>>
server == <<handler, session, lastSequence, paused, recording, gated, jobs>>
bounds == <<clicks, drops>>
vars == <<browser, network, server, bounds>>

Active == {"connecting", "recording", "paused", "ending"}
Message(t, n) == [type |-> t, sequence |-> n]

Init ==
    /\ status = "idle" /\ capturing = FALSE
    /\ sequence = 0 /\ lastAck = -1 /\ buffered = {}
    /\ socket = 0 /\ opened = 0
    /\ readyState = [k \in Conn |-> "none"]
    /\ attempts = 0 /\ timers = 0 /\ intentional = FALSE
    /\ up = [k \in Conn |-> <<>>] /\ down = [k \in Conn |-> <<>>]
    /\ cut = [k \in Conn |-> FALSE]
    /\ handler = [k \in Conn |-> "none"]
    /\ session = "none" /\ lastSequence = -1 /\ paused = FALSE
    /\ recording = <<>> /\ gated = FALSE /\ jobs = 0
    /\ clicks = 0 /\ drops = 0

-----------------------------------------------------------------------------
(* The browser's operations.                                               *)

(* socket.send: what is sent on a lost or closed socket is dropped, and on *)
(* one that is connecting the call throws; nothing leaves in either case.  *)
Send(msgs) ==
    up' = IF socket # 0 /\ readyState[socket] = "open" /\ ~cut[socket]
          THEN [up EXCEPT ![socket] = @ \o msgs] ELSE up

(* What the page shows; nobody sees what a page shows that was left.       *)
Shows(s) == status' = IF status = "gone" THEN "gone" ELSE s

(* socket.close(), with states the readyStates it finds.  A connection     *)
(* that is not open yet is aborted, and fires onerror later.               *)
Shut(state) == IF state \in {"connecting", "closing"} THEN "closing" ELSE "closed"
CloseSocket(states) ==
    /\ readyState' = [states EXCEPT ![socket] = Shut(@)]
    /\ down' = [down EXCEPT ![socket] = <<>>]
    /\ cut' = [cut EXCEPT ![socket] = TRUE]

(* new WebSocket(...)                                                      *)
Connect ==
    /\ opened < Connections
    /\ opened' = opened + 1
    /\ socket' = opened + 1
    /\ readyState' = [readyState EXCEPT ![opened + 1] = "connecting"]

(* fail(message) with closeSocket, its default.                            *)
Fail(states) ==
    /\ Shows("error")
    /\ capturing' = FALSE
    /\ intentional' = TRUE
    /\ CloseSocket(states)

Start ==
    /\ status = "idle"
    /\ status' = "connecting"
    /\ capturing' = TRUE
    /\ Connect
    /\ UNCHANGED <<sequence, lastAck, buffered, attempts, timers, intentional,
                   network, server, bounds>>

(* The minute is up: starting is slow, or its answer was lost.             *)
StartTimeout ==
    /\ "slow" \in Faults \/ cut[1]
    /\ status = "connecting"
    /\ readyState[1] # "connecting"
    /\ Fail(readyState)
    /\ UNCHANGED <<sequence, lastAck, buffered, socket, opened, attempts,
                   timers, up, server, bounds>>

(* socket.onopen.  It uses `socket`, which may be a later connection.      *)
ResendLater ==              \* mutant: the first frame to resend is left out
    Ascending({n \in buffered : n > lastAck + 1})
Resend == Ascending({n \in buffered : n > lastAck})
FirstMessages(k) ==
    IF k = 1 THEN <<Message("start_session", -1)>>
    ELSE <<Message("resume_session_connection", -1)>>
         \o [i \in DOMAIN Resend |-> Message("frame", Resend[i])]

Opens(k) ==
    /\ readyState[k] = "connecting"
    /\ readyState' = [readyState EXCEPT ![k] = "open"]
    /\ attempts' = 0
    /\ handler' = [handler EXCEPT ![k] = "reading"]
    /\ up' = IF readyState'[socket] = "open" /\ ~cut[socket]
             THEN [up EXCEPT ![socket] = @ \o FirstMessages(k)] ELSE up
    /\ UNCHANGED <<status, capturing, sequence, lastAck, buffered, socket,
                   opened, timers, intentional, down, cut, session,
                   lastSequence, paused, recording, gated, jobs, bounds>>

(* scheduleReconnect, n times in a row; `closes' is the connection that    *)
(* brought it about.                                                       *)
Reconnecting == status \in {"recording", "paused"} /\ ~intentional
ScheduleReconnect(n, k) ==
    IF attempts + n > MaxAttempts
    THEN /\ attempts' = MaxAttempts
         /\ timers' = timers + MaxAttempts - attempts
         /\ Shows("error") /\ capturing' = FALSE /\ intentional' = TRUE
         /\ readyState' = [readyState EXCEPT ![k] = "closed", ![socket] = Shut(@)]
         /\ down' = [down EXCEPT ![socket] = <<>>]
         /\ cut' = [cut EXCEPT ![k] = TRUE, ![socket] = TRUE]
    ELSE /\ attempts' = attempts + n
         /\ timers' = timers + n
         /\ readyState' = [readyState EXCEPT ![k] = "closed"]
         /\ cut' = [cut EXCEPT ![k] = TRUE]
         /\ UNCHANGED <<status, capturing, intentional, down>>

(* onerror and then onclose of a connection that could not be opened, or   *)
(* was closed before it was: the promise of connect is rejected.           *)
OpenFails(k) ==
    /\ \/ /\ readyState[k] = "connecting"
          /\ drops + clicks < MaxDrops /\ drops' = drops + 1
       \/ /\ readyState[k] = "closing"
          /\ UNCHANGED drops
    /\ IF k = 1
       THEN Fail([readyState EXCEPT ![1] = "closed"]) /\ UNCHANGED <<attempts, timers>>
       ELSE ScheduleReconnect(IF Reconnecting THEN 2 ELSE 1, k)
    /\ UNCHANGED <<sequence, lastAck, buffered, socket, opened, up, server, clicks>>

Aborts(k) == readyState[k] = "closing" /\ OpenFails(k)

(* onclose of a connection that was open.                                  *)
Closes(k) ==
    /\ readyState[k] = "open" /\ cut[k] /\ down[k] = <<>>
    /\ IF Reconnecting
       THEN ScheduleReconnect(1, k)
       ELSE /\ readyState' = [readyState EXCEPT ![k] = "closed"]
            /\ UNCHANGED <<attempts, timers, status, capturing, intentional,
                           down, cut>>
    /\ UNCHANGED <<sequence, lastAck, buffered, socket, opened, up, server, bounds>>

Reconnect ==
    /\ timers > 0
    /\ timers' = timers - 1
    /\ Connect
    /\ UNCHANGED <<status, capturing, sequence, lastAck, buffered, attempts,
                   intentional, network, server, bounds>>

(* handlePcm: the oldest frame makes room for the newest.                  *)
Trim(frames) ==
    IF Cardinality(frames) > BufferLimit THEN frames \ {Min(frames)} ELSE frames

Capture ==
    /\ capturing
    /\ status \in Active \ {"paused", "ending"}
    /\ sequence < MaxFrames
    /\ sequence' = sequence + 1
    /\ buffered' = Trim(buffered \cup {sequence})
    /\ Send(<<Message("frame", sequence)>>)
    /\ UNCHANGED <<status, capturing, lastAck, socket, opened, readyState,
                   attempts, timers, intentional, down, cut, server, bounds>>

ClickPause ==
    /\ status = "recording"
    /\ clicks < MaxClicks /\ drops + clicks < MaxDrops
    /\ clicks' = clicks + 1
    /\ Send(<<Message("pause_session", -1)>>)
    /\ UNCHANGED <<browser, down, cut, server, drops>>

ClickResume ==
    /\ status = "paused"
    /\ clicks < MaxClicks /\ drops + clicks < MaxDrops
    /\ clicks' = clicks + 1
    /\ Send(<<Message("resume_session", -1)>>)
    /\ UNCHANGED <<browser, down, cut, server, drops>>

End ==
    /\ status \in {"recording", "paused"}
    /\ status' = "ending"
    /\ capturing' = FALSE
    /\ Send(<<Message("end_session", -1)>>)
    /\ UNCHANGED <<sequence, lastAck, buffered, socket, opened, readyState,
                   attempts, timers, intentional, down, cut, server, bounds>>

(* onBeforeUnmount: the user goes to another page.  Only `socket' is       *)
(* closed, and a reconnection that is scheduled is not cancelled.          *)
Unmount ==
    /\ "leave" \in Faults
    /\ status \notin {"idle", "gone"}
    /\ status' = "gone" /\ capturing' = FALSE /\ intentional' = TRUE
    /\ CloseSocket(readyState)
    /\ UNCHANGED <<sequence, lastAck, buffered, socket, opened, attempts,
                   timers, up, server, bounds>>

(* The tab is closed: nothing of the page goes on.                         *)
Leave ==
    /\ "leave" \in Faults
    /\ status \notin {"idle", "gone"}
    /\ status' = "gone" /\ capturing' = FALSE
    /\ timers' = 0 /\ intentional' = TRUE
    /\ readyState' = [k \in Conn |->
          IF readyState[k] = "none" THEN "none" ELSE "closed"]
    /\ down' = [k \in Conn |-> <<>>]
    /\ cut' = [k \in Conn |-> cut[k] \/ readyState[k] # "none"]
    /\ UNCHANGED <<sequence, lastAck, buffered, socket, opened, attempts, up,
                   server, bounds>>

-----------------------------------------------------------------------------
(* handleEvent: the handlers of every connection stay attached, whichever  *)
(* one `socket' refers to.                                                 *)
Incoming(k, t) ==
    /\ readyState[k] = "open"
    /\ down[k] # <<>>
    /\ Head(down[k]).type = t
Consume(k) == down' = [down EXCEPT ![k] = Tail(@)]

SessionStarted(k) ==
    /\ Incoming(k, "session_started")
    /\ lastAck' = Head(down[k]).sequence
    /\ Shows("recording")
    /\ Consume(k)
    /\ UNCHANGED <<capturing, sequence, buffered, socket, opened, readyState,
                   attempts, timers, intentional, up, cut, server, bounds>>

(* Mutant: what was sent is forgotten at once, not when it is acknowledged. *)
AudioAckForgets(k) ==
    /\ Incoming(k, "audio_ack")
    /\ lastAck' = Max({lastAck, Head(down[k]).sequence})
    /\ buffered' = {}
    /\ Consume(k)
    /\ UNCHANGED <<status, capturing, sequence, socket, opened, readyState,
                   attempts, timers, intentional, up, cut, server, bounds>>

AudioAck(k) ==
    /\ Incoming(k, "audio_ack")
    /\ lastAck' = Max({lastAck, Head(down[k]).sequence})
    /\ buffered' = {n \in buffered : n > lastAck'}
    /\ Consume(k)
    /\ UNCHANGED <<status, capturing, sequence, socket, opened, readyState,
                   attempts, timers, intentional, up, cut, server, bounds>>

SessionPausedOrResumed(k) ==
    /\ \/ Incoming(k, "session_paused") /\ Shows("paused")
       \/ Incoming(k, "session_resumed") /\ Shows("recording")
    /\ Consume(k)
    /\ UNCHANGED <<capturing, sequence, lastAck, buffered, socket, opened,
                   readyState, attempts, timers, intentional, up, cut, server,
                   bounds>>

SessionEnded(k) ==
    /\ Incoming(k, "session_ended")
    /\ Shows("ended") /\ capturing' = FALSE /\ intentional' = TRUE
    /\ readyState' = [readyState EXCEPT ![socket] = Shut(@)]
    /\ down' = [down EXCEPT ![k] = Tail(@), ![socket] = <<>>]
    /\ cut' = [cut EXCEPT ![socket] = TRUE]
    /\ UNCHANGED <<sequence, lastAck, buffered, socket, opened, attempts,
                   timers, up, server, bounds>>

(* fail(message, false): the connection stays open.                        *)
ErrorEvent(k) ==
    /\ Incoming(k, "error")
    /\ Shows("error") /\ capturing' = FALSE
    /\ Consume(k)
    /\ UNCHANGED <<sequence, lastAck, buffered, socket, opened, readyState,
                   attempts, timers, intentional, up, cut, server, bounds>>

Receive(k) ==
    \/ SessionStarted(k) \/ AudioAck(k) \/ SessionPausedOrResumed(k)
    \/ SessionEnded(k) \/ ErrorEvent(k)

-----------------------------------------------------------------------------
(* The handler of a connection: receive a message, serve it, send events.  *)
Serving(k, t) ==
    /\ handler[k] = "reading"
    /\ up[k] # <<>>
    /\ Head(up[k]).type = t

Reply(k, t, n) ==
    down' = IF cut[k] THEN down ELSE [down EXCEPT ![k] = Append(@, Message(t, n))]
Take(k) == up' = [up EXCEPT ![k] = Tail(@)]
Goes(k, p) == handler' = [handler EXCEPT ![k] = p]

(* RealtimeManager.start, up to its awaits and after them: the session     *)
(* enters the gate before its recognition session is opened.               *)
ServeStart(k) ==
    /\ Serving(k, "start_session")
    /\ Take(k)
    /\ IF session = "open"
       THEN Reply(k, "session_started", lastSequence) /\ UNCHANGED handler
       ELSE Goes(k, "starting") /\ UNCHANGED down
    /\ UNCHANGED <<browser, cut, session, lastSequence, paused, recording,
                   gated, jobs, bounds>>

OpenSession(k) ==
    /\ handler[k] = "starting"
    /\ session' = "open"
    /\ gated' = TRUE
    /\ Reply(k, "session_started", -1)
    /\ Goes(k, "reading")
    /\ UNCHANGED <<browser, up, cut, lastSequence, paused, recording, jobs, bounds>>

(* An exception leaves the route, and the server closes the connection.    *)
Raises(k) == Goes(k, "done") /\ cut' = [cut EXCEPT ![k] = TRUE]

OpenSessionFails(k) ==
    /\ "open" \in Faults
    /\ handler[k] = "starting"
    /\ gated' \in BOOLEAN       \* it raises before or after realtime_started
    /\ Raises(k)
    /\ UNCHANGED <<browser, up, down, session, lastSequence, paused, recording,
                   jobs, bounds>>

(* RealtimeSession.accept                                                  *)
Accepting(k) == Serving(k, "frame") /\ session = "open" /\ ~paused
Continues(n) == lastSequence < 0 \/ n = lastSequence + 1

Accept(k) ==
    /\ Accepting(k)
    /\ LET n == Head(up[k]).sequence IN
          /\ n > lastSequence
          /\ Continues(n)
          /\ lastSequence' = n
          /\ recording' = Append(recording, n)
          /\ Reply(k, "audio_ack", n)
    /\ Take(k)
    /\ UNCHANGED <<browser, cut, handler, session, paused, gated, jobs, bounds>>

AcceptDuplicate(k) ==
    /\ Accepting(k)
    /\ Head(up[k]).sequence <= lastSequence
    /\ Reply(k, "audio_ack", lastSequence)
    /\ Take(k)
    /\ UNCHANGED <<browser, cut, handler, session, lastSequence, paused,
                   recording, gated, jobs, bounds>>

(* recognize() raises for a frame that is already in the recording: it is  *)
(* not acknowledged, and its connection is closed.                         *)
AcceptRaises(k) ==
    /\ "recognition" \in Faults
    /\ Accepting(k)
    /\ LET n == Head(up[k]).sequence IN
          /\ n > lastSequence
          /\ Continues(n)
          /\ lastSequence' = n
          /\ recording' = Append(recording, n)
    /\ Take(k)
    /\ Raises(k)
    /\ drops + clicks < MaxDrops /\ drops' = drops + 1
    /\ UNCHANGED <<browser, down, session, paused, gated, jobs, clicks>>

Refused(k) ==
    \/ Accepting(k) /\ LET n == Head(up[k]).sequence IN
                          n > lastSequence /\ ~Continues(n)
    \/ Serving(k, "frame") /\ ~Accepting(k)
    \/ session = "none" /\ \E t \in {"pause_session", "resume_session",
          "resume_session_connection", "end_session"} : Serving(k, t)

(* Mutant: what is refused is dropped without a word.                      *)
RefuseSilently(k) ==
    /\ Refused(k)
    /\ Take(k)
    /\ UNCHANGED <<browser, down, cut, handler, session, lastSequence, paused,
                   recording, gated, jobs, bounds>>

(* session_not_started, session_closed, session_paused, sequence_gap       *)
Refuse(k) ==
    /\ Refused(k)
    /\ Reply(k, "error", -1)
    /\ Take(k)
    /\ UNCHANGED <<browser, cut, handler, session, lastSequence, paused,
                   recording, gated, jobs, bounds>>

(* pause, resume and resume_session_connection                             *)
Control(k) ==
    /\ session # "none"
    /\ \/ /\ Serving(k, "pause_session")
          /\ paused' = TRUE
          /\ Reply(k, "session_paused", -1)
       \/ /\ Serving(k, "resume_session")
          /\ paused' = FALSE
          /\ Reply(k, "session_resumed", lastSequence)
       \/ /\ Serving(k, "resume_session_connection")
          /\ UNCHANGED paused
          /\ Reply(k, "session_started", lastSequence)
    /\ Take(k)
    /\ UNCHANGED <<browser, cut, handler, session, lastSequence, recording,
                   gated, jobs, bounds>>

(* end_session: session.end(), then the awaits of persisting and of        *)
(* creating the analysis job, and the gate is left in any case.  Ending a  *)
(* closed session has no session_ended among its events.                   *)
ServeEnd(k) ==
    /\ Serving(k, "end_session")
    /\ session # "none"
    /\ Goes(k, IF session = "open" THEN "ending" ELSE "endingAgain")
    /\ session' = "closed"
    /\ Take(k)
    /\ UNCHANGED <<browser, down, cut, lastSequence, paused, recording, gated,
                   jobs, bounds>>

(* The last recognition raises: the session stays open, and leaves the gate. *)
EndRaises(k) ==
    /\ "recognition" \in Faults
    /\ Serving(k, "end_session")
    /\ session = "open"
    /\ gated' = FALSE
    /\ Take(k)
    /\ Raises(k)
    /\ UNCHANGED <<browser, down, session, lastSequence, paused, recording, jobs,
                   bounds>>

(* Mutant: the gate is left when the session is closed, not in finally.    *)
AnalysisFailsGated(k) ==
    /\ "analysis" \in Faults
    /\ handler[k] \in {"ending", "endingAgain"}
    /\ Raises(k)
    /\ UNCHANGED <<browser, up, down, session, lastSequence, paused, recording,
                   gated, jobs, bounds>>

AnalysisFails(k) ==
    /\ "analysis" \in Faults
    /\ handler[k] \in {"ending", "endingAgain"}
    /\ gated' = FALSE
    /\ Raises(k)
    /\ UNCHANGED <<browser, up, down, session, lastSequence, paused, recording,
                   jobs, bounds>>

CreateAnalysis(k) ==
    /\ handler[k] \in {"ending", "endingAgain"}
    /\ jobs' = jobs + 1
    /\ gated' = FALSE
    /\ IF handler[k] = "ending"
       THEN /\ Reply(k, "session_ended", -1)
            /\ Goes(k, "done") /\ cut' = [cut EXCEPT ![k] = TRUE]
       ELSE /\ Goes(k, "reading")
            /\ UNCHANGED <<down, cut>>
    /\ UNCHANGED <<browser, up, session, lastSequence, paused, recording, bounds>>

(* WebSocketDisconnect, from receive or, with messages still to be read,   *)
(* from send_json.                                                         *)
Disconnected(k) ==
    /\ handler[k] = "reading"
    /\ cut[k]
    /\ Goes(k, "done")
    /\ up' = [up EXCEPT ![k] = <<>>]
    /\ UNCHANGED <<browser, down, cut, session, lastSequence, paused, recording,
                   gated, jobs, bounds>>

Serve(k) ==
    \/ ServeStart(k) \/ OpenSession(k) \/ Accept(k) \/ AcceptDuplicate(k)
    \/ Refuse(k) \/ Control(k) \/ ServeEnd(k) \/ CreateAnalysis(k)
    \/ Disconnected(k)

-----------------------------------------------------------------------------
(* The network loses a connection.  The browser still gets a prefix of     *)
(* what was under way to it; the handler may stop before any message.      *)
Drop(k) ==
    /\ readyState[k] = "open" /\ ~cut[k]
    /\ drops + clicks < MaxDrops
    /\ drops' = drops + 1
    /\ cut' = [cut EXCEPT ![k] = TRUE]
    /\ \E i \in 0..Len(down[k]) : down' = [down EXCEPT ![k] = SubSeq(@, 1, i)]
    /\ UNCHANGED <<browser, up, server, clicks>>

Next ==
    \/ Start \/ StartTimeout \/ Capture \/ ClickPause \/ ClickResume \/ End
    \/ Unmount \/ Leave \/ Reconnect
    \/ \E k \in Conn :
          \/ Opens(k) \/ OpenFails(k) \/ Closes(k) \/ Receive(k)
          \/ Serve(k) \/ OpenSessionFails(k) \/ AcceptRaises(k)
          \/ EndRaises(k) \/ AnalysisFails(k) \/ Drop(k)

(* The browser's event loop and the backend's go on, timers fire, and a    *)
(* connection is opened or refused.                                        *)
Progress ==
    \/ Reconnect \/ StartTimeout
    \/ \E k \in Conn : Opens(k) \/ Aborts(k) \/ Closes(k) \/ Receive(k) \/ Serve(k)

Fairness == WF_vars(Progress)

Spec == Init /\ [][Next]_vars /\ Fairness

-----------------------------------------------------------------------------
Messages == [type : {"start_session", "resume_session_connection", "frame",
                     "pause_session", "resume_session", "end_session",
                     "session_started", "audio_ack", "session_paused",
                     "session_resumed", "session_ended", "error"},
             sequence : Nat \cup {-1}]

TypeOK ==
    /\ status \in Active \cup {"idle", "ended", "error", "gone"}
    /\ capturing \in BOOLEAN /\ intentional \in BOOLEAN
    /\ sequence \in 0..MaxFrames
    /\ lastAck \in -1..MaxFrames
    /\ buffered \subseteq 0..MaxFrames /\ Cardinality(buffered) <= BufferLimit
    /\ socket \in 0..Connections /\ opened \in 0..Connections
    /\ readyState \in [Conn -> {"none", "connecting", "open", "closing", "closed"}]
    /\ attempts \in 0..MaxAttempts /\ timers \in Nat
    /\ up \in [Conn -> Seq(Messages)] /\ down \in [Conn -> Seq(Messages)]
    /\ cut \in [Conn -> BOOLEAN]
    /\ handler \in [Conn -> {"none", "reading", "starting", "ending",
                             "endingAgain", "done"}]
    /\ session \in {"none", "open", "closed"}
    /\ lastSequence \in -1..MaxFrames
    /\ paused \in BOOLEAN /\ gated \in BOOLEAN
    /\ recording \in Seq(0..MaxFrames)
    /\ jobs \in Nat
    /\ clicks \in 0..MaxClicks /\ drops \in 0..MaxDrops

Recorded == {recording[i] : i \in DOMAIN recording}

(* The recording is a stretch of the call, each frame once and in order,   *)
(* although connections overlap and every reconnection sends frames again. *)
RecordingIsWhole ==
    \A i \in 1..(Len(recording) - 1) : recording[i + 1] = recording[i] + 1

(* The browser forgets a frame only when it is in the recording.  The      *)
(* exceptions are the ones the code makes: frames captured before the      *)
(* first connection opened, and those a full buffer pushed out.            *)
NoFrameIsForgotten ==
    recording # <<>> =>
        \A n \in Head(recording)..(sequence - 1) :
            \/ n \in Recorded
            \/ n \in buffered
            \/ Cardinality(buffered) = BufferLimit /\ n < Min(buffered)

(* When the page says that the call has ended, its analysis exists and has *)
(* all of it, whatever was lost and sent again before.  Excepted are calls *)
(* that were paused, for the server refuses what is under way to it then,  *)
(* and buffers that overflowed: the server refuses what follows the gap,   *)
(* and the user may have clicked on End before the page is told.           *)
EndedIsComplete ==
    status = "ended" =>
        /\ jobs > 0
        /\ recording # <<>> /\ clicks = 0 /\ sequence <= BufferLimit =>
              \A n \in Head(recording)..(sequence - 1) : n \in Recorded

(* A reconnection leaves no gap: the browser is never told of one, which   *)
(* would end the call, although the handlers of lost connections still     *)
(* accept frames.  Excepted are buffers that overflowed, and pauses.       *)
NoGap ==
    clicks = 0 /\ sequence <= BufferLimit =>
        \A k \in Conn : Accepting(k) /\ ~cut[k] =>
            lastSequence < 0 \/ Head(up[k]).sequence <= lastSequence + 1

(* What is recorded and what is sent next follow on one another.           *)
RecordingInv == TypeOK /\ RecordingIsWhole /\ NoGap

(* The gate reopens after a session has closed, whatever fails after that. *)
GateReopens == session = "closed" ~> ~gated

(* A frame of the recorded stretch is known to be recorded in the end, or  *)
(* the microphone is switched off: no loss, and no second one while the    *)
(* first is repaired, leaves the call recording into nothing.  The browser *)
(* knows it from audio_ack, which removes the frame from the buffer, or    *)
(* from the number in session_started, which does not: such a frame stays  *)
(* in the buffer until a later one is acknowledged, for ever if none is    *)
(* captured any more.                                                      *)
FramesAreAcknowledged ==
    \A n \in 0..(MaxFrames - 1) :
        n \in buffered /\ recording # <<>> /\ n >= Head(recording)
            ~> n \notin buffered \/ n <= lastAck \/ ~capturing

=============================================================================
