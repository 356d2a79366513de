------------------------------- MODULE Telemetry -------------------------------
(***************************************************************************)
(* What the coordinator tells the outside while it runs: the event bus     *)
(* (event_bus.py) with the feeds of dashboards that listen on /ws/events   *)
(* (main.py), and the audit log of attestations (audit_log.py), a file     *)
(* that outlives the process.                                              *)
(*                                                                         *)
(* An event is its number, and the request it is about; the hash of a line *)
(* of the audit log is the line's identity.                                *)
(***************************************************************************)
EXTENDS Integers, Sequences

CONSTANTS
    Clients,            \* dashboards
    RequestIds, NoRequest,
    MaxHistory,         \* MAX_HISTORY
    MaxEvents, MaxRuns  \* bounds

ASSUME TelemetryAssumption ==
    /\ NoRequest \notin RequestIds /\ MaxHistory \in Nat \ {0} /\ MaxEvents \in Nat
    /\ MaxRuns \in Nat \ {0}

VARIABLES
    history,        \* EventBus._history
    feeds,          \* of each client: its queue, what it has got, since when
    published,      \* history: all events of this run
    run, auditSeq, auditLast,   \* the process, AuditLog._seq and ._last_hash
    auditFile       \* the lines of audit.jsonl

telemetryVars == <<history, feeds, published, run, auditSeq, auditLast, auditFile>>

Off == [phase |-> "off"]
Genesis == <<0, 0>>
LastOf(s, n) == IF Len(s) > n THEN SubSeq(s, Len(s) - n + 1, Len(s)) ELSE s

\* Variant of Public: the event as it is
PublicRaw(e) == e

\* public_event: no field that tells a user or a request
Public(e) == [number |-> e.number]

Event(request) == [number |-> Len(published) + 1, request |-> request]

\* Variant of Publish: the history keeps everything
PublishUncut(e) ==
    /\ published' = Append(published, e)
    /\ history' = Append(history, e)
    /\ feeds' = [c \in Clients |-> IF feeds[c] = Off THEN Off
                                   ELSE [feeds[c] EXCEPT !.queue = Append(@, e)]]

\* Variant of Publish: only the feeds that have no event waiting
PublishToIdle(e) ==
    /\ published' = Append(published, e)
    /\ history' = LastOf(Append(history, e), MaxHistory)
    /\ feeds' = [c \in Clients |-> IF feeds[c] = Off \/ feeds[c].queue # <<>> THEN feeds[c]
                                   ELSE [feeds[c] EXCEPT !.queue = Append(@, e)]]

\* EventBus.publish: the history, and the queue of every subscriber
Publish(e) ==
    /\ published' = Append(published, e)
    /\ history' = LastOf(Append(history, e), MaxHistory)
    /\ feeds' = [c \in Clients |-> IF feeds[c] = Off THEN Off
                                   ELSE [feeds[c] EXCEPT !.queue = Append(@, e)]]

\* A match, a bill, a provider that comes or goes
Announce(request) ==
    /\ Len(published) < MaxEvents
    /\ Publish(Event(request))
    /\ UNCHANGED <<run, auditSeq, auditLast, auditFile>>

\* Variant of Logged: the number is counted when the line is on disk
LoggedLate(written) ==
    LET line == [run |-> run, seq |-> auditSeq + 1, prev |-> auditLast]
    IN  /\ auditSeq' = IF written THEN auditSeq + 1 ELSE auditSeq
        /\ auditLast' = <<run, auditSeq + 1>>
        /\ auditFile' = IF written THEN Append(auditFile, line) ELSE auditFile

\* AuditLog.log: number and hash advance before the line is written
Logged(written) ==
    LET line == [run |-> run, seq |-> auditSeq + 1, prev |-> auditLast]
    IN  /\ auditSeq' = auditSeq + 1
        /\ auditLast' = <<run, auditSeq + 1>>
        /\ auditFile' = IF written THEN Append(auditFile, line) ELSE auditFile

\* An attestation response is announced, then logged; a line that cannot be
\* written ends the provider's connection
AttestationResponse(written) ==
    /\ Len(published) < MaxEvents
    /\ Publish(Event(NoRequest))
    /\ Logged(written)
    /\ UNCHANGED run

\* /ws/events: a new feed starts with the next event
Subscribe(c) ==
    /\ feeds[c] = Off
    /\ feeds' = [feeds EXCEPT ![c] =
          [phase |-> "on", queue |-> <<>>, got |-> <<>>, since |-> Len(published)]]
    /\ UNCHANGED <<history, published, run, auditSeq, auditLast, auditFile>>

\* The browser goes away; the feed finds out when it sends
Leave(c) ==
    /\ feeds[c] # Off /\ feeds[c].phase = "on"
    /\ feeds' = [feeds EXCEPT ![c].phase = "gone"]
    /\ UNCHANGED <<history, published, run, auditSeq, auditLast, auditFile>>

\* Variant of Forward: a send that raises is passed over
ForwardAnyway(c) ==
    /\ feeds[c] # Off /\ feeds[c].queue # <<>>
    /\ feeds' = [feeds EXCEPT ![c].queue = Tail(@), ![c].got = Append(@, Public(Head(feeds[c].queue)))]
    /\ UNCHANGED <<history, published, run, auditSeq, auditLast, auditFile>>

\* One turn of the feed's loop: the next event, or the end when the send raises
Forward(c) ==
    LET f == feeds[c]
        next == [f EXCEPT !.queue = Tail(f.queue), !.got = Append(f.got, Public(Head(f.queue)))]
    IN  /\ f # Off /\ f.queue # <<>>
        /\ feeds' = [feeds EXCEPT ![c] = IF f.phase = "gone" THEN Off ELSE next]
        /\ UNCHANGED <<history, published, run, auditSeq, auditLast, auditFile>>

\* The process starts again, and appends to the same file
Restart ==
    /\ run < MaxRuns /\ run' = run + 1
    /\ history' = <<>> /\ published' = <<>> /\ feeds' = [c \in Clients |-> Off]
    /\ auditSeq' = 0 /\ auditLast' = Genesis
    /\ UNCHANGED auditFile

TelemetryInit ==
    /\ history = <<>> /\ published = <<>> /\ feeds = [c \in Clients |-> Off]
    /\ run = 1 /\ auditSeq = 0 /\ auditLast = Genesis /\ auditFile = <<>>

TelemetryNext ==
    \/ \E r \in RequestIds \union {NoRequest} : Announce(r)
    \/ \E w \in BOOLEAN : AttestationResponse(w)
    \/ \E c \in Clients : Subscribe(c) \/ Leave(c) \/ Forward(c)
    \/ Restart

Forwarding == \A c \in Clients : WF_telemetryVars(Forward(c))
TelemetrySpec == TelemetryInit /\ [][TelemetryNext]_telemetryVars /\ Forwarding

-----------------------------------------------------------------------------
TelemetryTypeOK ==
    /\ history = LastOf(published, MaxHistory)
    /\ run \in 1..MaxRuns /\ auditSeq \in Nat
    /\ \A i \in DOMAIN auditFile : auditFile[i].run \in 1..run

\* A feed is what was published since it began, in order and without a gap: what it
\* has got, then what waits for it.  Nothing it has got tells of a request
\* (docs/requirements/privacy.md).
FeedsAreGapless ==
    \A c \in Clients :
        feeds[c] # Off =>
            LET due == SubSeq(published, feeds[c].since + 1, Len(published))
                waiting == Len(feeds[c].queue)
                sent == SubSeq(due, 1, Len(due) - waiting)
            IN  /\ feeds[c].queue = LastOf(due, waiting)
                /\ Len(feeds[c].got) = Len(sent)
                /\ \A i \in DOMAIN sent : feeds[c].got[i] = [number |-> sent[i].number]

\* Of two lines of one run that follow each other, the second names the first by its
\* hash exactly when no line between them was lost (AuditLog.log).
LostLinesShow ==
    \A i \in DOMAIN auditFile :
        i > 1 =>
            LET old == auditFile[i - 1]
                new == auditFile[i]
            IN  old.run = new.run => /\ old.seq < new.seq
                                     /\ (new.prev = <<old.run, old.seq>>) <=> (new.seq = old.seq + 1)

\* The feed of a browser that has gone does not stay once there is an event for it.
GoneFeedsEnd ==
    \A c \in Clients :
        (feeds[c] # Off /\ feeds[c].phase = "gone" /\ feeds[c].queue # <<>>) ~> (feeds[c] = Off)

\* Feeds and log are complete, or show that they are not.
TelemetryIsComplete == TelemetryTypeOK /\ FeedsAreGapless /\ LostLinesShow

=============================================================================
