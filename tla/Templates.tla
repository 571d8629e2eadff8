----------------------------- MODULE Templates -----------------------------
(***************************************************************************)
(* The cache of page templates: getTemplate and the handlers of            *)
(* GET /control, /roundaudio and /test that call it (pkg/proxy/server.go). *)
(*                                                                         *)
(* The cache is a plain map that concurrent requests read and write        *)
(* without a lock.  Go's runtime may stop the process when it notices a    *)
(* read or a write during another write; if it does not, a read finds      *)
(* something or nothing, and of two writes one may be lost.                *)
(***************************************************************************)
CONSTANTS
    Requests, \* the requests that run at a time
    Pages,    \* the names of the templates
    Missing   \* those that the file system does not have, or are malformed

ASSUME TemplatesAssumption == Missing \subseteq Pages

VARIABLES
    debug,     \* as configured: pages are parsed anew each time
    templates, \* the names in the map
    stage,        \* where each request is
    page,      \* the page that each request is for
    dead       \* the runtime has stopped the process

cacheVars == <<debug, templates, stage, page, dead>>

CacheTypeOK ==
    /\ debug \in BOOLEAN
    /\ templates \in SUBSET (Pages \ Missing)
    /\ stage \in [Requests -> {"idle", "lookup", "parse", "write", "execute"}]
    /\ page \in [Requests -> Pages]
    /\ dead \in BOOLEAN

CacheInit ==
    /\ debug \in BOOLEAN
    /\ templates = {}
    /\ stage = [r \in Requests |-> "idle"]
    /\ page \in [Requests -> Pages]
    /\ dead = FALSE

GotoStage(r, label) == ~dead /\ stage' = [stage EXCEPT ![r] = label]
OthersWrite(r) == \E q \in Requests \ {r} : stage[q] = "write"

Request(r) ==
    /\ stage[r] = "idle" /\ GotoStage(r, "lookup")
    /\ \E p \in Pages : page' = [page EXCEPT ![r] = p]
    /\ UNCHANGED <<debug, templates, dead>>

\* Slip: the template is looked up under another name than it is kept under.
LookupMisses(r) ==
    /\ stage[r] = "lookup" /\ GotoStage(r, "parse")
    /\ UNCHANGED <<debug, templates, page, dead>>

Lookup(r) ==
    /\ stage[r] = "lookup"
    /\ \/ page[r] \in templates /\ GotoStage(r, "execute")
       \/ (page[r] \notin templates \/ OthersWrite(r)) /\ GotoStage(r, "parse")
    /\ UNCHANGED <<debug, templates, page, dead>>

\* ParseFS; without debug the assignment to the map begins.
Parse(r) ==
    /\ stage[r] = "parse"
    /\ \/ page[r] \in Missing /\ GotoStage(r, "idle")
       \/ page[r] \notin Missing /\ GotoStage(r, IF debug THEN "execute" ELSE "write")
    /\ UNCHANGED <<debug, templates, page, dead>>

Write(r) ==
    /\ stage[r] = "write" /\ GotoStage(r, "execute")
    /\ \/ templates' = templates \cup {page[r]}
       \/ OthersWrite(r) /\ UNCHANGED templates
    /\ UNCHANGED <<debug, page, dead>>

\* fatal error: concurrent map writes, or concurrent map read and map write.
Fatal(r) ==
    /\ ~dead /\ stage[r] \in {"lookup", "write"} /\ OthersWrite(r)
    /\ dead' = TRUE
    /\ UNCHANGED <<debug, templates, stage, page>>

Execute(r) ==
    /\ stage[r] = "execute" /\ GotoStage(r, "idle")
    /\ UNCHANGED <<debug, templates, page, dead>>

CacheTerminated == dead /\ UNCHANGED cacheVars

CacheNext ==
    \/ \E r \in Requests : \/ Request(r) \/ Lookup(r) \/ Parse(r) \/ Write(r)
                           \/ Fatal(r) \/ Execute(r)
    \/ CacheTerminated

CacheSpec == CacheInit /\ [][CacheNext]_cacheVars

-----------------------------------------------------------------------------
\* With debug set, or once every page that exists is in the cache and no
\* request is on its way to put it there again, the process cannot die of the
\* map any more: only a cold cache is dangerous, and each request that found
\* it cold.
Warm ==
    \/ debug
    \/ /\ Pages \ Missing \subseteq templates
       /\ \A r \in Requests :
             stage[r] \in {"parse", "write"} => stage[r] = "parse" /\ page[r] \in Missing
WarmIsSafe == [](Warm => []~dead)
=============================================================================
