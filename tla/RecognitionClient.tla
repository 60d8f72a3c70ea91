-------------------------- MODULE RecognitionClient --------------------------
(***************************************************************************)
(* A realtime session whose recognition runs in the recognition service:   *)
(* RpcRealtimeSession (rpc_session.py) sends each frame over an            *)
(* AsrRpcStream (client.py) and waits for the events up to the frame's     *)
(* acknowledgement.  A reader task moves the events of the gRPC call to    *)
(* one asyncio.Queue, from which whoever is waiting takes them: the        *)
(* handlers of two connections do so at the same time when the browser     *)
(* comes back while a frame of its lost connection is being sent.          *)
(*                                                                         *)
(* Audio, texts and times are left out, and so is the bound of 64 requests,*)
(* which takes 64 connections to reach.  AsrService has the other end.     *)
(***************************************************************************)
EXTENDS Integers, Sequences, FiniteSets, SequencesExt, Subsequences

CONSTANTS
    Handlers,       \* websocket connections of the session
    Manager,        \* RealtimeManager.close, at shutdown
    Faults,         \* a subset of {"service"}: the call fails
    MaxFrame        \* bound: the last sequence number

ASSUME HandlersAssumption == Manager \notin Handlers
ASSUME BoundAssumption == Faults \subseteq {"service"} /\ MaxFrame \in Nat

Senders == Handlers \cup {Manager}

VARIABLES
    pc,             \* of each sender
    want,           \* the sequence number it is waiting for
    got,            \* the final transcripts among the events it has received
    ready, getters, \* senders in events.get(): about to run, and asleep
    last, closed,   \* last_sequence and closed of the RpcRealtimeSession; the
                    \* AsrRpcStream is closed in the same step
    segments,       \* its segments, as frames whose recognition ended them
    requests,       \* frames that the service has not handled
    service,        \* the call: "up", "failed", "returned"
    wire, events,   \* events under way, and AsrRpcStream._events
    heard,          \* history: last frame the service has acknowledged
    finals,         \* history: the final transcripts it has sent
    acked,          \* history: last frame whose send() has returned
    clean           \* no two senders have overlapped, nor has one begun after
                    \* another one was told of the failure

session == <<last, closed, segments>>
stream == <<requests, service, wire, events>>
waiting == <<pc, want, got, ready, getters>>
history == <<heard, finals, acked, clean>>
vars == <<waiting, session, stream, history>>

Busy(h) == pc[h] \in {"sending", "ending"}
Error == [type |-> "error", seq |-> -1]

Init ==
    /\ pc = [h \in Senders |-> "idle"]
    /\ want = [h \in Senders |-> -1] /\ got = [h \in Senders |-> <<>>]
    /\ ready = <<>> /\ getters = <<>>
    /\ last = -1 /\ closed = FALSE /\ segments = <<>>
    /\ requests = <<>> /\ service = "up"
    /\ wire = <<>> /\ events = <<>>
    /\ heard = -1 /\ finals = <<>> /\ acked = -1 /\ clean = TRUE

-----------------------------------------------------------------------------
(* AsrRpcStream.send puts the frame into the queue of requests and asks    *)
(* for an event: it runs on without a pause.                               *)
Send(h, n, end) ==
    /\ requests' = Append(requests, [seq |-> n, end |-> end])
    /\ pc' = [pc EXCEPT ![h] = IF end THEN "ending" ELSE "sending"]
    /\ want' = [want EXCEPT ![h] = n]
    /\ ready' = Append(ready, h)
    /\ clean' = (clean /\ (\A g \in Senders : ~Busy(g))
                       /\ (service # "failed" \/ Error \in ToSet(wire \o events)))
    /\ UNCHANGED <<got, getters, service, wire, events, closed, segments,
                   heard, finals, acked>>

(* RpcRealtimeSession.accept of the frame in turn; frames seen before are  *)
(* acknowledged, others refused, without the stream.                       *)
Accept(h) ==
    /\ pc[h] = "idle" /\ h \in Handlers
    /\ ~closed /\ last < MaxFrame
    /\ last' = last + 1
    /\ Send(h, last + 1, FALSE)

(* RpcRealtimeSession.end, which numbers its frame like the next one: when *)
(* the user ends the call, or in RealtimeManager.close, which runs when no *)
(* connection is being served.                                             *)
End(h) ==
    /\ pc[h] = "idle"
    /\ h = Manager => \A g \in Handlers : ~Busy(g)
    /\ ~closed
    /\ Send(h, last + 1, TRUE)
    /\ UNCHANGED last

(* RpcRealtimeSession.close after end, which has closed the stream unless  *)
(* it raised: then the call is still there to be cancelled.                *)
Close ==
    /\ pc[Manager] = "idle" /\ closed
    /\ \A g \in Handlers : ~Busy(g)
    /\ pc' = [pc EXCEPT ![Manager] = "gone"]
    /\ UNCHANGED <<want, got, ready, getters, session, stream, history>>

-----------------------------------------------------------------------------
(* The service handles a frame: maybe the end of a sentence, then the      *)
(* acknowledgement; after the end of the stream it returns.                *)
Serve ==
    /\ service = "up" /\ requests # <<>>
    /\ LET f == Head(requests) IN
          /\ \E sentence \in BOOLEAN :
                /\ wire' = wire
                      \o (IF sentence THEN <<[type |-> "final", seq |-> f.seq]>> ELSE <<>>)
                      \o <<[type |-> "ack", seq |-> f.seq]>>
                /\ finals' = IF sentence THEN Append(finals, f.seq) ELSE finals
          /\ heard' = f.seq
          /\ service' = IF f.end THEN "returned" ELSE "up"
    /\ requests' = Tail(requests)
    /\ UNCHANGED <<waiting, session, events, acked, clean>>

Fail ==
    /\ service = "up" /\ "service" \in Faults
    /\ service' = "failed"
    /\ wire' = Append(wire, Error)
    /\ UNCHANGED <<waiting, session, requests, events, history>>

(* Mutant: the reader ends without handing the exception over.             *)
ReadSilently ==
    /\ wire # <<>>
    /\ wire' = Tail(wire)
    /\ events' = IF Head(wire) = Error THEN events ELSE Append(events, Head(wire))
    /\ ready' = IF getters = <<>> THEN ready ELSE Append(ready, Head(getters))
    /\ getters' = IF getters = <<>> THEN getters ELSE Tail(getters)
    /\ UNCHANGED <<pc, want, got, session, requests, service, history>>

(* AsrRpcStream._read_events: put() wakes the first sleeping getter.       *)
Read ==
    /\ wire # <<>>
    /\ wire' = Tail(wire)
    /\ events' = Append(events, Head(wire))
    /\ ready' = IF getters = <<>> THEN ready ELSE Append(ready, Head(getters))
    /\ getters' = IF getters = <<>> THEN getters ELSE Tail(getters)
    /\ UNCHANGED <<pc, want, got, session, requests, service, history>>

-----------------------------------------------------------------------------
(* Mutant: any acknowledgement will do.                                    *)
DecisiveAny(h, event) == event = Error \/ event.type = "ack"

(* The events that end the wait of h.                                      *)
Decisive(h, event) ==
    \/ event = Error
    \/ event.type = "ack" /\ event.seq >= want[h]

Transcripts(evs) ==
    LET fs == Chosen(evs, {i \in DOMAIN evs : evs[i].type = "final"})
    IN [i \in DOMAIN fs |-> fs[i].seq]

(* A getter that runs finds nothing that ends its wait: it keeps what      *)
(* there is and sleeps, behind the others.                                 *)
Sleep(h) ==
    /\ \A i \in DOMAIN events : ~Decisive(h, events[i])
    /\ got' = [got EXCEPT ![h] = @ \o Transcripts(events)]
    /\ events' = <<>>
    /\ getters' = Append(getters, h)
    /\ UNCHANGED <<pc, want, session, acked>>

(* Mutant: the transcripts that came before the last wait are forgotten.   *)
ReturnForgets(h) ==
    \E i \in DOMAIN events :
        /\ Decisive(h, events[i])
        /\ \A j \in 1..i - 1 : ~Decisive(h, events[j])
        /\ events' = SubSeq(events, i + 1, Len(events))
        /\ got' = [got EXCEPT ![h] = <<>>]
        /\ pc' = [pc EXCEPT ![h] = IF events[i] = Error THEN "gone" ELSE "idle"]
        /\ segments' = segments \o Transcripts(SubSeq(events, 1, i))
        /\ closed' = (closed \/ pc[h] = "ending")
        /\ UNCHANGED <<want, getters, last, acked>>

(* It finds what it has been waiting for: the transcripts it has received  *)
(* become segments, and the end of the stream closes both; or it raises,   *)
(* and the websocket's handler with it.                                    *)
Return(h) ==
    \E i \in DOMAIN events :
        /\ Decisive(h, events[i])
        /\ \A j \in 1..i - 1 : ~Decisive(h, events[j])
        /\ events' = SubSeq(events, i + 1, Len(events))
        /\ got' = [got EXCEPT ![h] = <<>>]
        /\ IF events[i] = Error
              THEN /\ pc' = [pc EXCEPT ![h] = "gone"]
                   /\ UNCHANGED <<segments, closed, acked>>
              ELSE /\ pc' = [pc EXCEPT ![h] = "idle"]
                   /\ segments' = segments \o got[h] \o Transcripts(SubSeq(events, 1, i))
                   /\ closed' = (closed \/ pc[h] = "ending")
                   /\ acked' = IF want[h] > acked THEN want[h] ELSE acked
        /\ UNCHANGED <<want, getters, last>>

Get ==
    /\ ready # <<>>
    /\ Sleep(Head(ready)) \/ Return(Head(ready))
    /\ ready' = Tail(ready)
    /\ UNCHANGED <<requests, service, wire, heard, finals, clean>>

Next ==
    \/ \E h \in Senders : Accept(h) \/ End(h)
    \/ Close \/ Serve \/ Fail \/ Read \/ Get

(* The event loop runs, and the service answers every frame or fails, as   *)
(* AsrService!FrameIsAnswered says.                                        *)
Fairness == WF_vars(Serve) /\ WF_vars(Read) /\ WF_vars(Get)

Spec == Init /\ [][Next]_vars /\ Fairness

-----------------------------------------------------------------------------
TypeOK ==
    /\ pc \in [Senders -> {"idle", "sending", "ending", "gone"}]
    /\ want \in [Senders -> -1..MaxFrame + 1]
    /\ \A h \in Senders : Len(got[h]) <= MaxFrame + 2
    /\ last \in -1..MaxFrame /\ closed \in BOOLEAN
    /\ service \in {"up", "failed", "returned"}
    /\ heard \in -1..MaxFrame + 1 /\ acked \in -1..MaxFrame + 1
    /\ ToSet(ready \o getters) = {h \in Senders : Busy(h)}
    /\ IsInjective(ready \o getters)

(* A frame whose send() has returned has been handled by the service, also *)
(* when another connection's handler took the events that were meant for   *)
(* this one.                                                               *)
AckedIsHeard == acked <= heard

(* Events and senders are where they belong, and no acknowledgement of a   *)
(* frame is one of an earlier frame.                                       *)
AcksAreTrue == TypeOK /\ AckedIsHeard

(* Every sentence the service ends becomes a segment, once and in order:   *)
(* between two sends none is missing.  Overlapping senders break this:     *)
(* the one that never returns keeps what it has received.                  *)
TranscriptsBecomeSegments ==
    clean =>
        /\ IsPrefix(segments, finals)
        /\ (\A h \in Senders : ~Busy(h)) /\ service # "failed" => segments = finals

(* Whoever sends a frame gets its answer or the failure of the call, as    *)
(* long as nobody else is sending and the failure has not been told yet:   *)
(* _read_events puts the exception into the queue only once.               *)
SendEnds == \A h \in Senders : Busy(h) ~> ~Busy(h) \/ ~clean

-----------------------------------------------------------------------------
(* The parts of the inductive invariant.                                   *)

Numbers == 0..MaxFrame + 1
Requests == [seq : Numbers, end : BOOLEAN]
Events == [type : {"final", "ack"}, seq : Numbers] \cup {Error}
Coming == events \o wire

TypeInv ==
    /\ pc \in [Senders -> {"idle", "sending", "ending", "gone"}]
    /\ want \in [Senders -> -1..MaxFrame + 1]
    /\ got \in [Senders -> Seq(Numbers)]
    /\ ready \in Seq(Senders) /\ getters \in Seq(Senders)
    /\ last \in -1..MaxFrame /\ closed \in BOOLEAN /\ segments \in Seq(Numbers)
    /\ requests \in Seq(Requests) /\ service \in {"up", "failed", "returned"}
    /\ wire \in Seq(Events) /\ events \in Seq(Events)
    /\ heard \in -1..MaxFrame + 1 /\ acked \in -1..MaxFrame + 1
    /\ finals \in Seq(Numbers) /\ clean \in BOOLEAN

(* Whoever is waiting for events has one place among the getters.          *)
WaitInv ==
    /\ ToSet(ready \o getters) = {h \in Senders : Busy(h)}
    /\ IsInjective(ready \o getters)
    /\ \A h \in Senders : ~Busy(h) => got[h] = <<>>

(* Frames are handled in order: of two with one number the first ends the  *)
(* stream.                                                                 *)
RequestInv ==
    /\ \A i \in DOMAIN requests :
          requests[i].seq <= IF requests[i].end THEN last + 1 ELSE last
    /\ \A i, j \in DOMAIN requests :
          i < j => requests[i].seq < requests[j].seq + (IF requests[i].end THEN 1 ELSE 0)
    /\ service = "up" =>
          heard <= last /\ \A i \in DOMAIN requests : heard < requests[i].seq

(* What is coming is about frames that the service has handled.            *)
HeardInv ==
    /\ \A i \in DOMAIN Coming : Coming[i].seq <= heard
    /\ AckedIsHeard

(* Whoever takes the events, it receives transcripts in order.             *)
Ascends(s) == \A i, j \in DOMAIN s : i < j => s[i] < s[j]
FinalAt(i) == Coming[i].type = "final"
OrderInv ==
    /\ \A i, j \in DOMAIN Coming :
          FinalAt(i) /\ FinalAt(j) /\ i < j => Coming[i].seq < Coming[j].seq
    /\ \A h \in Senders :
          /\ Ascends(got[h])
          /\ \A n \in DOMAIN got[h] :
                /\ got[h][n] <= heard
                /\ \A i \in DOMAIN Coming : FinalAt(i) => got[h][n] < Coming[i].seq

(* The failure is the last event, and told once.                           *)
ErrorInv ==
    \A i \in DOMAIN Coming :
        Coming[i] = Error => service = "failed" /\ i = Len(Coming)

(* The failure has been told to somebody.                                  *)
Told == service = "failed" /\ \A i \in DOMAIN Coming : Coming[i] # Error

(* While no two senders overlap, at most one frame is under way: its       *)
(* acknowledgement is the last event, and if the only sender received all  *)
(* that is coming, every transcript would be a segment.                    *)
OneSender == \A g, h \in Senders : Busy(g) /\ Busy(h) => g = h
OneFrame ==
    /\ \A i, j \in DOMAIN Coming :
          i < j /\ Coming[i].type # "final" => Coming[j] = Error
    /\ \A i \in DOMAIN Coming :
          Coming[i] # Error => \E h \in Senders : Busy(h)
    /\ \A i \in DOMAIN Coming, h \in Senders :
          Busy(h) /\ Coming[i].type = "ack" => Coming[i].seq = want[h]
    /\ service = "up" /\ requests # <<>> =>
          /\ Coming = <<>> /\ Len(requests) = 1
          /\ \E h \in Senders : Busy(h) /\ requests[1].seq = want[h]
AllKept ==
    \A h \in Senders : (\A g \in Senders : Busy(g) => g = h) =>
        segments \o got[h] \o Transcripts(Coming) = finals
CleanInv ==
    /\ OneSender /\ OneFrame /\ IsPrefix(segments, finals)
    /\ Told => \A h \in Senders : ~Busy(h)
    /\ ~Told => AllKept
StoryInv == clean => CleanInv
=============================================================================
