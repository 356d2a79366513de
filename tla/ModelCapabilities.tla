--------------------------- MODULE ModelCapabilities ---------------------------
(***************************************************************************)
(* What a provider's model can do, as the coordinator finds it out when    *)
(* the provider registers (coordinator/capability_resolver.py): the        *)
(* provider's own report, the model hub's files and the weight file's      *)
(* header, merged field by field.  The hub may be down, and a repository   *)
(* may have no configuration of its own and name a base repository.  What  *)
(* the hub answered is kept for the life of the process, a failure for     *)
(* RetryAfter.  The lookup is synchronous, so a registration is one step.  *)
(*                                                                         *)
(* Two fields stand for the seven: the context length, a number with 0 for *)
(* unknown, and tools, a flag whose FALSE also means unknown.              *)
(***************************************************************************)
EXTENDS Integers, Sequences, FiniteSets

CONSTANTS
    Repos,          \* repositories of the hub
    NoRepo,
    Nodes,          \* providers
    Contexts,       \* context lengths, not 0
    RetryAfter,     \* how long a failed lookup is not repeated (an hour)
    MaxHubTime      \* bound on the clock

ASSUME CapabilitiesAssumption ==
    /\ NoRepo \notin Repos /\ RetryAfter \in Nat \ {0} /\ MaxHubTime \in Nat
    /\ Contexts \subseteq Nat \ {0}

Facts == [context : Contexts \union {0}, tools : BOOLEAN]
Configurations == [context : Contexts, tools : BOOLEAN]
Nothing == [context |-> 0, tools |-> FALSE]

VARIABLES
    hubClock, hubUp,
    files,          \* the hub: repository -> its facts, for those that have a configuration
    baseOf,         \* the hub: repository -> the base its card names, or NoRepo
    known,          \* ModelCapabilityCache._cache: repository -> facts
    failed,         \* ModelCapabilityCache._failed: repository -> time
    record,         \* ConnectedProvider.model_capabilities, with what it was made of
    asks            \* history: the lookups of configurations, <<repository, time, whether it was found>>

capabilityVars == <<hubClock, hubUp, files, baseOf, known, failed, record, asks>>

Reports == [repo : Repos \union {NoRepo}, own : Facts, header : Facts]

-----------------------------------------------------------------------------
(* The cache: a state of it is [known, failed, asks], which a lookup moves. *)

\* A dictionary with an entry set
Entered(entries, key, value) ==
    [k \in DOMAIN entries \union {key} |-> IF k = key THEN value ELSE entries[k]]

\* Variant of Fresh: a failure is never tried again
FreshForever(s, repo) == repo \in DOMAIN s.failed

Fresh(s, repo) == repo \in DOMAIN s.failed /\ hubClock - s.failed[repo] < RetryAfter

Learn(s, repo, facts, how) ==
    [s EXCEPT !.known = Entered(@, repo, facts), !.failed = [r \in DOMAIN @ \ {repo} |-> @[r]],
              !.asks = Append(@, <<repo, hubClock, how>>)]

\* Variant of Inquire: only an answer is remembered
InquireForgetting(s, repo, halfway) ==
    IF hubUp /\ repo \in DOMAIN files
    THEN Learn(s, repo, files[repo], "found")
    ELSE [s EXCEPT !.asks = Append(@, <<repo, hubClock, "failed">>)]

\* _detect_capabilities_from_hf: config.json, then tokenizer_config.json, whose absence only means
\* that no tools were found, also when the hub fails `halfway` between the two
Inquire(s, repo, halfway) ==
    IF hubUp /\ repo \in DOMAIN files
    THEN IF halfway THEN Learn(s, repo, [files[repo] EXCEPT !.tools = FALSE], "half")
         ELSE Learn(s, repo, files[repo], "found")
    ELSE [s EXCEPT !.failed = Entered(@, repo, hubClock), !.asks = Append(@, <<repo, hubClock, "failed">>)]

\* _fetch_cached
Fetch(s, repo, halfway) ==
    IF repo \in DOMAIN s.known \/ Fresh(s, repo) THEN s ELSE Inquire(s, repo, halfway)

\* _try_resolve_base: the card of a repository, which is asked for whenever its files are unknown
Base(repo) == IF hubUp THEN baseOf[repo] ELSE NoRepo

\* Variant of LookUp: what the base has is kept under the name that was asked for
LookUpAsNamed(s, repo, halfway) ==
    LET direct == Fetch(s, repo, halfway)
        through == Fetch(direct, Base(repo), halfway)
    IN  IF repo \in DOMAIN direct.known \/ Base(repo) \in {NoRepo, repo} THEN direct
        ELSE IF Base(repo) \in DOMAIN through.known
        THEN [through EXCEPT !.known = Entered(@, repo, through.known[Base(repo)])] ELSE through

\* _resolve_from_hf: the repository itself, then its base
LookUp(s, repo, halfway) ==
    LET direct == Fetch(s, repo, halfway)
    IN  IF repo \in DOMAIN direct.known \/ Base(repo) \in {NoRepo, repo}
        THEN direct ELSE Fetch(direct, Base(repo), halfway)

Found(s, repo) ==
    IF repo \in DOMAIN s.known THEN s.known[repo]
    ELSE IF Base(repo) \in DOMAIN s.known THEN s.known[Base(repo)] ELSE Nothing

\* _merge_capabilities: for each field the first source that says something
Merged(own, hub, header) ==
    [context |-> IF own.context # 0 THEN own.context
                 ELSE IF hub.context # 0 THEN hub.context ELSE header.context,
     tools |-> own.tools \/ hub.tools \/ header.tools]

-----------------------------------------------------------------------------
CapabilitiesInit ==
    /\ hubClock = 0 /\ hubUp \in BOOLEAN
    /\ files \in UNION {[D -> Configurations] : D \in SUBSET Repos}
    /\ baseOf \in [Repos -> Repos \union {NoRepo}]
    /\ known = <<>> /\ failed = <<>> /\ record = <<>> /\ asks = <<>>

(* A provider registers, or reconnects; the lookup holds up the loop and nothing comes between,    *)
(* except that the hub may go down in the middle of it.                                           *)
RegisterModel(n, report, halfway) ==
    LET before == [known |-> known, failed |-> failed, asks |-> asks]
        after == IF report.repo = NoRepo THEN before ELSE LookUp(before, report.repo, halfway)
        hub == IF report.repo = NoRepo THEN Nothing ELSE Found(after, report.repo)
    IN  /\ halfway => hubUp
        /\ known' = after.known /\ failed' = after.failed /\ asks' = after.asks
        /\ hubUp' = (hubUp /\ ~halfway)
        /\ record' = Entered(record, n, [report |-> report, at |-> hubClock, up |-> hubUp,
                                         shown |-> Merged(report.own, hub, report.header)])
        /\ UNCHANGED <<hubClock, files, baseOf>>

\* The provider disconnects; what was learned stays
LeaveHub(n) ==
    /\ n \in DOMAIN record
    /\ record' = [m \in DOMAIN record \ {n} |-> record[m]]
    /\ UNCHANGED <<hubClock, hubUp, files, baseOf, known, failed, asks>>

HubFlips == hubUp' = ~hubUp /\ UNCHANGED <<hubClock, files, baseOf, known, failed, record, asks>>

HubTick ==
    /\ hubClock < MaxHubTime /\ hubClock' = hubClock + 1
    /\ UNCHANGED <<hubUp, files, baseOf, known, failed, record, asks>>

CapabilitiesNext ==
    \/ \E n \in Nodes, report \in Reports, halfway \in BOOLEAN : RegisterModel(n, report, halfway)
    \/ \E n \in Nodes : LeaveHub(n)
    \/ HubFlips \/ HubTick

CapabilitiesSpec == CapabilitiesInit /\ [][CapabilitiesNext]_capabilityVars

-----------------------------------------------------------------------------
CapabilitiesTypeOK ==
    /\ hubClock \in 0 .. MaxHubTime /\ hubUp \in BOOLEAN
    /\ DOMAIN known \subseteq DOMAIN files
    /\ \A r \in DOMAIN known : known[r].context = files[r].context /\ (known[r].tools => files[r].tools)
    /\ DOMAIN failed \subseteq Repos /\ \A r \in DOMAIN failed : failed[r] \in 0 .. hubClock
    /\ DOMAIN record \subseteq Nodes
    /\ \A n \in DOMAIN record : record[n].shown \in Facts

(* "Failed lookups are cached with a retry-after timestamp to avoid hammering HF", "HF lookups      *)
(* happen once per base model": however many providers register and whatever the hub does, the      *)
(* files of a repository are asked for once when they are found, and never twice in RetryAfter.     *)
HubIsNotHammered ==
    \A i, j \in DOMAIN asks : i < j /\ asks[i][1] = asks[j][1] =>
        asks[i][3] = "failed" /\ asks[j][2] - asks[i][2] >= RetryAfter

\* The lookups of a repository that went wrong in the RetryAfter before a time
Lately(repo, time, how) ==
    \E i \in DOMAIN asks : /\ asks[i][1] = repo /\ asks[i][3] \in how
                           /\ asks[i][2] <= time /\ time - asks[i][2] < RetryAfter
Ever(repo, how) == \E i \in DOMAIN asks : asks[i][1] = repo /\ asks[i][3] \in how

\* The repository that has the facts of a report, if any
SourceOf(report) ==
    IF report.repo \in DOMAIN files \union {NoRepo} THEN report.repo ELSE baseOf[report.repo]

Complete(r) ==
    /\ r.report.own.context = 0 => r.shown.context = files[SourceOf(r.report)].context
    /\ files[SourceOf(r.report)].tools => r.shown.tools

(* An outage costs a model its facts for RetryAfter at most: a provider that registers while the    *)
(* hub answers shows all that the hub has, in the fields it left open, unless the repository that   *)
(* has the facts failed less than RetryAfter before, or ever answered by half.                      *)
OutageIsForgotten ==
    \A n \in DOMAIN record :
        LET r == record[n]
            source == SourceOf(r.report)
        IN  /\ r.up /\ source \in DOMAIN files
            /\ ~Lately(source, r.at, {"failed"}) /\ ~Ever(source, {"half"})
            => Complete(r)

(* Facts are found, and the hub is spared.                                                          *)
CapabilitiesAreFound == CapabilitiesTypeOK /\ HubIsNotHammered /\ OutageIsForgotten

-----------------------------------------------------------------------------
\* The inductive invariant behind CapabilitiesAreFound.
Partial(S, T) == UNION {[D -> T] : D \in SUBSET S}
Lookups == Repos \X Nat \X {"found", "half", "failed"}
Caches == [known : Partial(Repos, Facts), failed : Partial(Repos, Nat), asks : Seq(Lookups)]
Records == [report : Reports, at : Nat, up : BOOLEAN, shown : Facts]
Cache == [known |-> known, failed |-> failed, asks |-> asks]

Asked(s, repo, how) == \E i \in DOMAIN s.asks : s.asks[i][1] = repo /\ s.asks[i][3] = how

\* What is known is what the hub has, unless a lookup went wrong half way.
KnownIsTrue(s) ==
    \A r \in DOMAIN s.known :
        /\ r \in DOMAIN files /\ s.known[r].context = files[r].context
        /\ s.known[r].tools => files[r].tools
        /\ s.known[r] = files[r] \/ Asked(s, r, "half")

\* A failure that is remembered is that of the last lookup of its repository, and a
\* repository that was looked up is known or has its failure remembered.
FailuresAreRemembered(s) ==
    /\ \A r \in DOMAIN s.failed : /\ s.failed[r] <= hubClock
                                  /\ \E i \in DOMAIN s.asks : s.asks[i] = <<r, s.failed[r], "failed">>
    /\ \A i \in DOMAIN s.asks :
          \/ s.asks[i][1] \in DOMAIN s.known
          \/ /\ s.asks[i][1] \in DOMAIN s.failed /\ s.asks[i][2] <= s.failed[s.asks[i][1]]
             /\ s.asks[i][3] = "failed"

AskedInTime(s) ==
    \A i, j \in DOMAIN s.asks : i < j /\ s.asks[i][1] = s.asks[j][1] =>
        s.asks[i][3] = "failed" /\ s.asks[j][2] - s.asks[i][2] >= RetryAfter

CacheInv(s) == s \in Caches /\ KnownIsTrue(s) /\ FailuresAreRemembered(s) /\ AskedInTime(s)

CapabilitiesIInv ==
    /\ hubClock \in 0 .. MaxHubTime /\ hubUp \in BOOLEAN
    /\ files \in Partial(Repos, Configurations)
    /\ baseOf \in [Repos -> Repos \union {NoRepo}]
    /\ record \in Partial(Nodes, Records)
    /\ \A n \in DOMAIN record : record[n].at <= hubClock
    /\ CacheInv(Cache) /\ OutageIsForgotten

=============================================================================
