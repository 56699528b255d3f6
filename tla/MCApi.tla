------------------------------- MODULE MCApi ---------------------------------
(* What applications use: the record and the permission objects of the API,   *)
(* what streams are read to, and the browser's worker and pages.  A behaviour shows one of them and     *)
(* leaves the others, whose state it does not share, where they start.        *)
EXTENDS Permissions, Sequences

CONSTANTS
    g1, g2, g3, notes, chat,         \* of Permissions
    Object, MaxTime, MayRefuse,      \* of Records
    Reader, Source,                  \* of TextStreams
    Request, Drl, Documents, Checks, MaxVersion, MaxClock,     \* of DrlWorker
    None, i1, i2, Link, Image, MaxClicks, MaxPresses           \* of DrlPage

ASSUME RecordAssumption == MaxTime \in Nat \ {0}

\* None is no link and no path of one.
ASSUME PageAssumption == \A link \in Link : link # None /\ link.path # None

VARIABLES creator, clock, node, object, sendCache, draft, shown

Record == INSTANCE Records

VARIABLES half, holder, read, mixed

Text == INSTANCE TextStreams

ASSUME SourceAssumption == Source \subseteq Seq(Text!Byte)

\* A character by itself, one after an ASCII character, and a text that ends in
\* the middle of a character.
Sources == {<<<<"lead", "e">>, <<"trail", "e">>>>,
            <<<<"one", "a">>, <<"lead", "u">>, <<"trail", "u">>>>,
            <<<<"one", "a">>, <<"lead", "o">>>>}

VARIABLES onLine, time, version, check, drlCache, puts, request,
          activeNavigation, linkLoading, timers, clicks, href, contextMenuTarget, src,
          looking, listening, frames, count, gone, wanted, wish, late, hasty

Worker == INSTANCE DrlWorker WITH MaxTime <- MaxClock, clock <- time, cache <- drlCache

\* No onCacheCheck, one that refuses and one with a ttl.
WorkerChecks == [does : {"throws", "nothing"}, ttl : {0}] \cup [does : {"keeps"}, ttl : {1}]

Page == INSTANCE DrlPage

\* Two DIDs with a path in common, one of their links for a tab.
LinkTo(did, path, tab) == [did |-> did, path |-> path, tab |-> tab]
PageLinks == {LinkTo("d1", "a", FALSE), LinkTo("d1", "b", FALSE), LinkTo("d2", "a", FALSE),
              LinkTo("d2", "a", TRUE)}

Scope(type, protocol, narrow, delegated) ==
    [type |-> type, protocol |-> protocol, narrow |-> narrow, delegated |-> delegated]

\* Two grants to write notes, the first not delegated, one to read any messages.
NotesScopes ==
    [g \in Grant |->
        CASE g = g1 -> Scope("RecordsWrite", notes, FALSE, FALSE)
          [] g = g2 -> Scope("RecordsWrite", notes, FALSE, TRUE)
          [] g = g3 -> Scope("MessagesRead", AnyProtocol, FALSE, FALSE)]
Types == {"RecordsWrite", "MessagesRead"}

recordVars == <<creator, clock, node, object, sendCache, draft>>
textVars == <<half, holder, read, mixed>>
workerVars == <<onLine, time, version, check, drlCache, puts, request>>
pageVars == <<activeNavigation, linkLoading, timers, clicks, href, contextMenuTarget, src,
              looking, listening, frames, count, gone, wanted, wish, late, hasty>>

ApiInit ==
    /\ Init /\ Record!Init /\ Text!Init /\ Worker!Init /\ Page!Init
    /\ shown \in {"permissions", "records", "texts", "worker", "links", "menu"}
    /\ shown # "records" => creator = "me"
    /\ shown # "texts" => \A r \in Reader : read[r].op = "whole" /\ read[r].bytes = CHOOSE s \in Source : TRUE
    /\ shown # "worker" => onLine /\ check.does = "nothing"

ApiNext ==
    \/ shown = "permissions" /\ Next /\ UNCHANGED <<recordVars, textVars, workerVars, pageVars, shown>>
    \/ shown = "records" /\ Record!Next /\ UNCHANGED <<vars, textVars, workerVars, pageVars, shown>>
    \/ shown = "texts" /\ Text!Next /\ UNCHANGED <<vars, recordVars, workerVars, pageVars, shown>>
    \/ shown = "worker" /\ Worker!Next /\ UNCHANGED <<vars, recordVars, textVars, pageVars, shown>>
    \/ shown = "links" /\ Page!LinkNext /\ UNCHANGED <<vars, recordVars, textVars, workerVars, shown>>
    \/ shown = "menu" /\ Page!MenuNext /\ UNCHANGED <<vars, recordVars, textVars, workerVars, shown>>

ApiSpec == ApiInit /\ [][ApiNext]_<<vars, recordVars, textVars, workerVars, pageVars, shown>>

\* Safety: what this application has updated, deleted or stored with success is
\* on the local node, or something newer (record.ts 784-806, 880-899); and what
\* a stream brings is read as it was sent, but for reads that found half a
\* character of another in the decoder they share (convert.ts 337-366).
DataKept == Record!Backed /\ (shown = "texts" => Text!TextsRight)

\* Safety: an object whose state is not the initial write has that write, is
\* right about whether it is stored and signed, and so offers the local node no
\* write that is refused for want of either (record.ts 594, 789, 904-1017).
ImportAccepted ==
    /\ Record!TypeOK
    /\ Record!InitialKnown
    /\ Record!FlagsTrue
    /\ Record!ImportAccepted

\* Safety: DRLs lead where they should: the worker answers with what the DWN had
\* or the application lets it keep, a page is sent where the last link leads that
\* was clicked and not stopped by then, and images get their address back, with
\* the exceptions DrlPage states (web-features.ts 39-117, 346-443).
DrlsRight ==
    /\ Worker!AnswersRight /\ Worker!CacheRight
    /\ Page!NavigatesAsWanted /\ Page!OverlayJustified /\ Page!SourcesRestored
=============================================================================
