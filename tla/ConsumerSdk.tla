------------------------------ MODULE ConsumerSdk ------------------------------
(***************************************************************************)
(* The two client libraries and what they share with the agents:           *)
(*   confidential_sdk.py   ConfidentialTransport, which seals the prompt    *)
(*                         for one agent's key and posts it to the relay    *)
(*   ie_sdk.py             InferenceExchange, which sends the prompt as it  *)
(*                         is and asks for a sealed reply                   *)
(*   shared/crypto.py      the boxes                                        *)
(*                                                                         *)
(* A box is the key it is sealed for; it opens for the holder of that key   *)
(* and for nobody else. An agent makes a new key whenever its process       *)
(* starts; the consumer's key lasts as long as the client object.           *)
(* A client makes one call at a time; agents come, go and restart while a   *)
(* call is under way. Tokens are numbered from 1.                           *)
(***************************************************************************)
EXTENDS Integers, Sequences, SequencesExt, FiniteSets

CONSTANTS
    ManagedAgents,      \* agents of ocip_agent: they seal their tokens
    PlainAgents,        \* agents of inference_exchange/provider: they do not
    MaxKeys,            \* bound: keys that one agent has had
    MaxCalls,           \* bound: calls of the client
    MaxTokens           \* bound: tokens of a reply

ASSUME ConsumerSdkAssumption ==
    ManagedAgents \cap PlainAgents = {} /\ MaxKeys \in Nat /\ MaxCalls \in Nat /\ MaxTokens \in Nat

VARIABLES
    listed,     \* agents that are registered with the coordinator
    keyOf,      \* the present key of each agent: how often it has started
    transport,  \* ConfidentialTransport: cached key, sequence, fallback_enabled
    call,       \* the call under way, or the last one
    calls,      \* calls that were begun
    posted      \* history: the sequence number of each posted call

sdkVars == <<listed, keyOf, transport, call, calls, posted>>

Agents == ManagedAgents \union PlainAgents
NoBox == [agent |-> "none", key |-> 0]
NoAgent == "none"

Libraries == {"transport", "exchange"}
Phases == {"idle", "begun", "posted", "serving", "failed", "ok", "error", "fallback"}
IdleCall == [client |-> "exchange", stream |-> FALSE, phase |-> "idle", sealedFor |-> NoBox,
             agent |-> NoAgent, lines |-> <<>>, got |-> <<>>]

\* What the agent's public key seals; KeyPair()
BoxFor(a) == [agent |-> a, key |-> keyOf[a]]
\* decrypt_json: only with the key that the box was made for
CanOpen(a, box) == box = BoxFor(a)

\* A line of a reply: the number of its token, sealed for the consumer or not, and
\* whether it reaches the client in one piece. The length of pieces is the network's.
Line(n, sealed, whole) == [token |-> n, sealed |-> sealed, whole |-> whole]

Put(phase) == call' = [call EXCEPT !.phase = phase]

-----------------------------------------------------------------------------
\* The world around the client
Joins(a) ==
    /\ a \notin listed /\ keyOf[a] < MaxKeys
    /\ listed' = listed \union {a} /\ keyOf' = [keyOf EXCEPT ![a] = @ + 1]
    /\ UNCHANGED <<transport, call, calls, posted>>

\* A lost connection is an error for the call that the agent was serving
Leaves(a) ==
    /\ a \in listed /\ listed' = listed \ {a}
    /\ IF call.phase = "serving" /\ call.agent = a THEN Put("error") ELSE UNCHANGED call
    /\ UNCHANGED <<keyOf, transport, calls, posted>>

\* The same process connects again: its key stays
Rejoins(a) ==
    /\ a \notin listed /\ keyOf[a] > 0
    /\ listed' = listed \union {a}
    /\ UNCHANGED <<keyOf, transport, call, calls, posted>>

-----------------------------------------------------------------------------
\* send, chat and chat_stream: the caller's request
Begins(client, stream) ==
    /\ call.phase \in {"idle", "ok", "error", "fallback"} /\ calls < MaxCalls
    /\ calls' = calls + 1
    /\ call' = [IdleCall EXCEPT !.client = client, !.stream = stream, !.phase = "begun"]
    /\ UNCHANGED <<listed, keyOf, transport, posted>>

\* _discover_provider: the first listed agent with a key, once and for all
Discovers ==
    /\ call.phase = "begun" /\ call.client = "transport" /\ transport.cached = NoBox
    /\ \/ \E a \in listed : transport' = [transport EXCEPT !.cached = BoxFor(a)] /\ UNCHANGED call
       \/ Put("failed") /\ UNCHANGED transport    \* nobody is listed, or the list cannot be had
    /\ UNCHANGED <<listed, keyOf, calls, posted>>

\* Variant of Seals: the number is taken only when the relay has answered
SealsUncounted ==
    /\ call.phase = "begun" /\ call.client = "transport" /\ transport.cached # NoBox
    /\ call' = [call EXCEPT !.sealedFor = transport.cached, !.phase = "posted"]
    /\ posted' = Append(posted, transport.sequence)
    /\ UNCHANGED <<listed, keyOf, transport, calls>>

\* _send_confidential up to the post: the number is taken whatever comes of the call
Seals ==
    /\ call.phase = "begun" /\ call.client = "transport" /\ transport.cached # NoBox
    /\ call' = [call EXCEPT !.sealedFor = transport.cached, !.phase = "posted"]
    /\ posted' = Append(posted, transport.sequence)
    /\ transport' = [transport EXCEPT !.sequence = @ + 1]
    /\ UNCHANGED <<listed, keyOf, calls>>

\* InferenceExchange posts the prompt in plain text with its public key; it is the
\* coordinator that seals it for the agent it has chosen
PostsPlain ==
    /\ call.phase = "begun" /\ call.client = "exchange"
    /\ Put("posted")
    /\ UNCHANGED <<listed, keyOf, transport, calls, posted>>

\* The post or its answer is lost: an exception for the transport, and with it for
\* the caller unless there is a fallback
ConnectionFails ==
    /\ call.phase \in {"posted", "serving"}
    /\ IF call.client = "transport" THEN Put("failed") ELSE Put("error")
    /\ UNCHANGED <<listed, keyOf, transport, calls, posted>>

\* send: on an exception, the request goes to the external service if that is wanted
FallsBack ==
    /\ call.phase = "failed"
    /\ IF transport.fallback THEN Put("fallback") ELSE Put("error")
    /\ UNCHANGED <<listed, keyOf, transport, calls, posted>>

-----------------------------------------------------------------------------
\* Variant of Relays: the coordinator seals the prompt again for the agent it chose
RelaysResealing(a) ==
    /\ call.phase = "posted" /\ a \in listed
    /\ call' = [call EXCEPT !.agent = a, !.sealedFor = BoxFor(a), !.phase = "serving"]
    /\ UNCHANGED <<listed, keyOf, transport, calls, posted>>

\* The coordinator chooses an agent that it finds fit, not the one whose key was used
Relays(a) ==
    /\ call.phase = "posted" /\ a \in listed
    /\ LET box == IF call.client = "transport" THEN call.sealedFor ELSE BoxFor(a)
       IN  call' = [call EXCEPT !.agent = a, !.sealedFor = box,
                                !.phase = IF CanOpen(a, box) THEN "serving" ELSE "error"]
    /\ UNCHANGED <<listed, keyOf, transport, calls, posted>>

\* 503: an answer, not an exception
NobodyServes ==
    /\ call.phase = "posted" /\ listed = {}
    /\ Put("error")
    /\ UNCHANGED <<listed, keyOf, transport, calls, posted>>

\* _handle_inference of either agent: the consumer's key was in the box with the
\* prompt, and only the managed agent looks at it
Says ==
    /\ call.phase = "serving" /\ Len(call.lines) < MaxTokens
    /\ \E whole \in BOOLEAN :
          call' = [call EXCEPT !.lines =
                      Append(@, Line(Len(@) + 1, call.agent \in ManagedAgents, whole))]
    /\ UNCHANGED <<listed, keyOf, transport, calls, posted>>

-----------------------------------------------------------------------------
\* What reaches the client. Confidential: the sealed tokens only. Otherwise: in a
\* stream each chunk has both forms, in a collected reply only the plain text.
Forwarded(lines, form) ==
    FoldLeft(LAMBDA sent, l : IF l.sealed = form THEN Append(sent, l) ELSE sent, <<>>, lines)
Relayed ==
    IF call.client = "transport" \/ ~call.stream
    THEN Forwarded(call.lines, call.client = "transport") ELSE call.lines

Opened(l) == [l EXCEPT !.sealed = FALSE]
OpenedAll(lines) == [i \in DOMAIN lines |-> Opened(lines[i])]

\* Variant of OpenedWhole: a line that does not come in one piece is dropped
OpenedWholeOnly(lines) == OpenedAll(SelectSeq(lines, LAMBDA l : l.whole))

\* _decrypt_stream_response: it reads the pieces of the stream, so a line that does
\* not come in one is passed on sealed
OpenedWhole(lines) == [i \in DOMAIN lines |-> IF lines[i].whole THEN Opened(lines[i]) ELSE lines[i]]

\* Variant of Received: every stream is read by its pieces
ReceivedByPieces == IF call.stream THEN OpenedWhole(Relayed) ELSE OpenedAll(Relayed)

\* _decrypt_response; chat and chat_stream, which reads line by line
Received == IF call.client = "transport" /\ call.stream THEN OpenedWhole(Relayed) ELSE OpenedAll(Relayed)

\* Done, after which the client has its reply
Ends ==
    /\ call.phase = "serving"
    /\ call' = [call EXCEPT !.phase = "ok", !.got = Received]
    /\ UNCHANGED <<listed, keyOf, transport, calls, posted>>

SdkInit ==
    /\ listed = {} /\ keyOf = [a \in Agents |-> 0]
    /\ transport \in [cached : {NoBox}, sequence : {0}, fallback : BOOLEAN]
    /\ call = IdleCall /\ calls = 0 /\ posted = <<>>

SdkNext ==
    \/ \E a \in Agents : Joins(a) \/ Leaves(a) \/ Rejoins(a) \/ Relays(a)
    \/ \E client \in Libraries, stream \in BOOLEAN : Begins(client, stream)
    \/ Discovers \/ Seals \/ PostsPlain \/ ConnectionFails \/ FallsBack
    \/ NobodyServes \/ Says \/ Ends

SdkSpec == SdkInit /\ [][SdkNext]_sdkVars

-----------------------------------------------------------------------------
SdkTypeOK ==
    /\ listed \subseteq Agents /\ keyOf \in [Agents -> 0..MaxKeys]
    /\ transport.cached \in [agent : Agents, key : 1..MaxKeys] \union {NoBox}
    /\ transport.sequence = Len(posted) /\ Len(posted) <= calls
    /\ call.client \in Libraries /\ call.phase \in Phases /\ call.agent \in Agents \union {NoAgent}
    /\ Len(call.lines) <= MaxTokens

\* The number that the transport puts on a call is never that of an earlier call,
\* whatever became of it: replays can be told from retries.
NumbersAreFresh == \A i, j \in DOMAIN posted : i < j => posted[i] < posted[j]

\* A prompt that the transport has sealed is served by nobody but the agent, in the
\* same process, whose key it found when it looked for one: agents that the
\* coordinator prefers, and later processes of the same agent, cannot read it.
OnlyTheDiscoveredServes ==
    call.client = "transport" /\ call.phase \in {"serving", "ok"} =>
        /\ call.sealedFor = transport.cached /\ call.agent = transport.cached.agent
        /\ call.phase = "serving" => BoxFor(call.agent) = transport.cached

\* A reply that the client has is the reply of a managed agent, token by token: none
\* is lost, repeated or out of place, in a collected reply of the relay and in the
\* streams of both clients.
PlacesAreKept ==
    call.phase = "ok" /\ call.agent \in ManagedAgents /\ (call.stream \/ call.client = "transport") =>
        [i \in DOMAIN call.got |-> call.got[i].token] = [i \in DOMAIN call.lines |-> i]

\* And where the client reads whole lines or a whole reply, all of it is plain.
RepliesAreReadable ==
    call.phase = "ok" /\ (call.client = "exchange" \/ ~call.stream) =>
        \A i \in DOMAIN call.got : ~call.got[i].sealed

\* A call reaches only whom the client chose, and its reply comes back whole.
CallsAreFaithful ==
    /\ SdkTypeOK
    /\ NumbersAreFresh /\ OnlyTheDiscoveredServes /\ PlacesAreKept /\ RepliesAreReadable

-----------------------------------------------------------------------------
\* The inductive invariant behind CallsAreFaithful.
Boxes == [agent : Agents, key : 1..MaxKeys]
Lines == [token : Nat, sealed : BOOLEAN, whole : BOOLEAN]
Calls == [client : Libraries, stream : BOOLEAN, phase : Phases, sealedFor : Boxes \union {NoBox},
          agent : Agents \union {NoAgent}, lines : Seq(Lines), got : Seq(Lines)]

\* A listed agent has a key, and the present one for as long as it is listed.
ListedHaveKeys == \A a \in listed : keyOf[a] > 0

\* The transport has taken a number for each call that it posted, and never one twice.
NumbersAreTaken ==
    /\ posted = [i \in 1..transport.sequence |-> i - 1]
    /\ transport.sequence <= calls /\ (call.phase = "begun" => transport.sequence < calls)

\* The lines of a reply are those of its agent, in order; there are none before an agent was chosen.
LinesAreTheAgents ==
    /\ Len(call.lines) <= MaxTokens /\ (call.phase \in {"begun", "posted"} => call.lines = <<>>)
    /\ \A i \in DOMAIN call.lines :
          call.lines[i].token = i /\ call.lines[i].sealed = (call.agent \in ManagedAgents)

\* The box that was posted is for the cached key, and served only by an agent that is listed with it.
ServedIsDiscovered ==
    /\ call.phase = "serving" => call.agent \in listed
    /\ call.client = "transport" /\ call.phase \in {"posted", "serving", "ok"} =>
         call.sealedFor = transport.cached
    /\ call.client = "transport" /\ call.phase \in {"serving", "ok"} => call.agent = transport.cached.agent
    /\ call.client = "transport" /\ call.phase = "serving" => BoxFor(call.agent) = transport.cached

SdkIInv ==
    /\ listed \subseteq Agents /\ keyOf \in [Agents -> 0..MaxKeys] /\ calls \in Nat
    /\ transport \in [cached : Boxes \union {NoBox}, sequence : Nat, fallback : BOOLEAN]
    /\ call \in Calls
    /\ ListedHaveKeys /\ NumbersAreTaken /\ LinesAreTheAgents /\ ServedIsDiscovered
    /\ PlacesAreKept /\ RepliesAreReadable

=============================================================================
