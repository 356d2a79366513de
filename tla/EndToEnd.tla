-------------------------------- MODULE EndToEnd --------------------------------
(***************************************************************************)
(* shared/e2e.py: a session between a consumer and a provider, agreed by a *)
(* handshake that the provider signs, over a relay that may lose, repeat,  *)
(* reorder, damage and mislabel what passes.                               *)
(*                                                                         *)
(* A key is the transcript it is derived from and the direction it is for; *)
(* what a message carries is sealed with its key and its labels, and opens *)
(* only with the same.                                                     *)
(***************************************************************************)
EXTENDS Integers, Sequences, FiniteSets

CONSTANTS
    SessionNames,       \* session ids, one for each hello
    Ephemerals,         \* provider ephemeral keys
    Admissions,         \* admission records the two ends may hold
    MaxSaid,            \* bound: messages of one end
    MaxDamaged          \* bound: messages that the relay spoils

ASSUME EndToEndAssumption == MaxSaid \in Nat /\ MaxDamaged \in Nat

VARIABLES
    answers,    \* transcripts that the provider has signed
    ends,       \* the E2ESession of each side, by session
    wire        \* every message that was ever sent: the relay may deliver it again

channelVars == <<answers, ends, wire>>

Sides == {"consumer", "provider"}
Peer(side) == IF side = "consumer" THEN "provider" ELSE "consumer"
Direction(side) == side     \* a direction is named by who sends
Closed == [open |-> FALSE]

\* _transcript: all that the two sides must agree on
Transcript(session, ephemeral, admission) ==
    [session |-> session, ephemeral |-> ephemeral, admission |-> admission]

Key(transcript, direction) == <<transcript, direction>>

\* E2ESession.derive
Derived(transcript) ==
    [open |-> TRUE, transcript |-> transcript, next |-> 0, last |-> -1, got |-> <<>>]

\* Variant of Sealed: the sequence number is not bound
SealedLoosely(key, session, direction, seq, said) == <<key, session, direction, said>>

\* AES-GCM with the labels as associated data
Sealed(key, session, direction, seq, said) == <<key, session, direction, seq, said>>

Opens(m, key) ==
    /\ m.intact
    /\ m.sealed = Sealed(key, m.session, m.direction, m.seq, m.said)

-----------------------------------------------------------------------------
\* sign_handshake and the provider's derive_session; a hello that comes again is
\* answered with a new ephemeral key
Answer(s, e, a) ==
    LET t == Transcript(s, e, a)
    IN  /\ t \notin answers
        /\ answers' = answers \union {t}
        /\ ends' = [ends EXCEPT !["provider"][s] = Derived(t)]
        /\ UNCHANGED wire

\* Variant of Accept: what the provider signed is taken as it is
AcceptAsSigned(s, t, a) ==
    /\ t \in answers /\ ~ends["consumer"][s].open
    /\ ends' = [ends EXCEPT !["consumer"][s] = Derived(t)]
    /\ UNCHANGED <<answers, wire>>

\* verify_handshake with the consumer's own view of the transcript, and its
\* derive_session
Accept(s, t, a) ==
    /\ t \in answers /\ ~ends["consumer"][s].open
    /\ t = Transcript(s, t.ephemeral, a)
    /\ ends' = [ends EXCEPT !["consumer"][s] = Derived(t)]
    /\ UNCHANGED <<answers, wire>>

\* Variant of Encrypt: the counter is not raised
EncryptAgain(side, s) ==
    LET end == ends[side][s]
        key == Key(end.transcript, Direction(side))
        said == <<side, end.transcript, Cardinality({m \in wire : m.intact})>>
    IN  /\ end.open /\ Cardinality({m \in wire : m.intact}) < MaxSaid
        /\ wire' = wire \union {[session |-> s, direction |-> Direction(side), seq |-> end.next,
              said |-> said, intact |-> TRUE,
              sealed |-> Sealed(key, s, Direction(side), end.next, said)]}
        /\ UNCHANGED <<answers, ends>>

\* E2ESession.encrypt
Encrypt(side, s) ==
    LET end == ends[side][s]
        key == Key(end.transcript, Direction(side))
        said == <<side, end.transcript, end.next>>
    IN  /\ end.open /\ end.next < MaxSaid
        /\ wire' = wire \union {[session |-> s, direction |-> Direction(side), seq |-> end.next,
              said |-> said, intact |-> TRUE,
              sealed |-> Sealed(key, s, Direction(side), end.next, said)]}
        /\ ends' = [ends EXCEPT ![side][s] = [end EXCEPT !.next = end.next + 1]]
        /\ UNCHANGED answers

\* A message is delivered with other labels, or with a byte that changed
Spoil(m, s, direction, seq) ==
    LET spoiled == [m EXCEPT !.session = s, !.direction = direction, !.seq = seq]
        damaged == [m EXCEPT !.intact = FALSE]
    IN  /\ Cardinality(wire) < MaxSaid + MaxDamaged
        /\ wire' = wire \union {spoiled} \/ wire' = wire \union {damaged}
        /\ UNCHANGED <<answers, ends>>

\* Variant of Decrypt: the message is counted before it is opened
DecryptCountingFirst(side, s, m) ==
    LET end == ends[side][s]
        opened == Opens(m, Key(end.transcript, Direction(Peer(side))))
    IN  /\ end.open /\ m.session = s /\ m.direction = Direction(Peer(side)) /\ m.seq > end.last
        /\ ends' = [ends EXCEPT ![side][s].last = m.seq,
                                ![side][s].got = IF opened THEN Append(@, m.said) ELSE @]
        /\ UNCHANGED <<answers, wire>>

\* E2ESession.decrypt; a message that is refused changes nothing
Decrypt(side, s, m) ==
    LET end == ends[side][s]
    IN  /\ end.open /\ m.session = s /\ m.direction = Direction(Peer(side)) /\ m.seq > end.last
        /\ Opens(m, Key(end.transcript, Direction(Peer(side))))
        /\ ends' = [ends EXCEPT ![side][s] = [end EXCEPT !.last = m.seq, !.got = Append(end.got, m.said)]]
        /\ UNCHANGED <<answers, wire>>

ChannelInit ==
    /\ answers = {} /\ wire = {}
    /\ ends = [side \in Sides |-> [s \in SessionNames |-> Closed]]

ChannelNext ==
    \/ \E s \in SessionNames, a \in Admissions :
          (\E e \in Ephemerals : Answer(s, e, a)) \/ (\E t \in answers : Accept(s, t, a))
    \/ \E side \in Sides, s \in SessionNames : Encrypt(side, s)
    \/ \E m \in wire : \/ \E s \in SessionNames, side \in Sides, n \in 0..MaxSaid : Spoil(m, s, side, n)
                       \/ \E s \in SessionNames, side \in Sides : Decrypt(side, s, m)

ChannelSpec == ChannelInit /\ [][ChannelNext]_channelVars

-----------------------------------------------------------------------------
OpenSessions(side) == {s \in SessionNames : ends[side][s].open}

ChannelTypeOK ==
    /\ answers \subseteq [session : SessionNames, ephemeral : Ephemerals, admission : Admissions]
    /\ \A side \in Sides : \A s \in OpenSessions(side) :
         /\ ends[side][s].transcript \in answers /\ ends[side][s].transcript.session = s
         /\ ends[side][s].next \in 0..MaxSaid /\ ends[side][s].last \in -1..MaxSaid

\* An end only ever reads what its peer said in the session they agreed on, each
\* message once and in the order it was said, whatever the relay repeats, reorders,
\* reflects, damages or carries from one session to the other (PROV-007).
ReadAsSaid ==
    \A side \in Sides : \A s \in OpenSessions(side) :
        LET end == ends[side][s]
        IN  /\ \A i \in DOMAIN end.got : end.got[i][1] = Peer(side) /\ end.got[i][2] = end.transcript
            /\ \A i, j \in DOMAIN end.got : i < j => end.got[i][3] < end.got[j][3]

\* A message that does not open leaves no trace: the last number an end has counted
\* is that of the last message it read, so a later one is not locked out.
RefusedLeaveNoTrace ==
    \A side \in Sides : \A s \in OpenSessions(side) :
        LET end == ends[side][s]
        IN  end.last = IF end.got = <<>> THEN -1 ELSE end.got[Len(end.got)][3]

\* No two messages are sealed with one key and one number: the number that an end
\* takes next is above all that were ever sealed with the key it seals with, also by
\* an end that a repeated hello has replaced.
NumbersAreNotReused ==
    \A side \in Sides, m \in wire : \A s \in OpenSessions(side) :
        m.sealed[1] = Key(ends[side][s].transcript, Direction(side)) => m.said[3] < ends[side][s].next

\* The channel keeps its promises over any relay.
ChannelIsFaithful ==
    ChannelTypeOK /\ ReadAsSaid /\ RefusedLeaveNoTrace /\ NumbersAreNotReused

-----------------------------------------------------------------------------
\* The inductive invariant behind ChannelIsFaithful.
Transcripts == [session : SessionNames, ephemeral : Ephemerals, admission : Admissions]
SaidByAnEnd == Sides \X Transcripts \X (0..MaxSaid)
SealOf(said) == Sealed(Key(said[2], said[1]), said[2].session, said[1], said[3], said)
Message == [session : SessionNames, direction : Sides, seq : 0..MaxSaid, said : SaidByAnEnd,
            intact : BOOLEAN, sealed : {SealOf(said) : said \in SaidByAnEnd}]
OpenEnd == [open : {TRUE}, transcript : Transcripts, next : 0..MaxSaid, last : -1..MaxSaid,
            got : Seq(SaidByAnEnd)]

\* What an end has read came from its peer, in order, and the last of it is counted.
ReadInOrder(side, end) ==
    /\ \A i \in DOMAIN end.got : /\ end.got[i][1] = Peer(side) /\ end.got[i][2] = end.transcript
                                 /\ end.got[i][3] <= end.last
    /\ \A i, j \in DOMAIN end.got : i < j => end.got[i][3] < end.got[j][3]
    /\ end.last = IF end.got = <<>> THEN -1 ELSE end.got[Len(end.got)][3]

\* Whatever became of its labels, a message carries what an end sealed, in a transcript
\* that the provider signed, and the consumer's end that sealed it is still there.
SealedByAnEnd(m) ==
    LET t == m.said[2]
    IN  /\ m.sealed = SealOf(m.said) /\ t \in answers
        /\ m.said[1] = "consumer" =>
             ends["consumer"][t.session].open /\ ends["consumer"][t.session].transcript = t

ChannelIInv ==
    /\ answers \subseteq Transcripts /\ wire \subseteq Message
    /\ ends \in [Sides -> [SessionNames -> OpenEnd \union {Closed}]]
    /\ \A side \in Sides : \A s \in OpenSessions(side) :
         LET end == ends[side][s]
         IN  /\ end.transcript \in answers /\ end.transcript.session = s
             /\ ReadInOrder(side, end)
    /\ \A m \in wire : SealedByAnEnd(m)
    /\ NumbersAreNotReused

=============================================================================
