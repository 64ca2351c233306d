------------------------------ MODULE ViewCache ------------------------------
(***************************************************************************)
(* The answers src/daemon/server.py keeps in memory: the code graph of a    *)
(* project and the narratives of the language model (summary, assistant,    *)
(* semantic), next to what they were made from: the project's files and the *)
(* provider that src/daemon/llm_providers.py has active.  A request looks   *)
(* into its cache, works without a lock, and stores what it got.            *)
(***************************************************************************)
EXTENDS Integers, Sequences, FiniteSets

CONSTANTS Requests, NoRequest,
          GraphTTL, SummaryTTL, ErrorTTL, AssistantTTL,   \* in ticks of the viewClock
          MaxViewClock, MaxChanges, MaxSwitches   \* bounds of the model

\* A summary that failed is asked for again sooner than one that did not.
ASSUME ViewAssumption ==
    /\ \A n \in {GraphTTL, SummaryTTL, ErrorTTL, AssistantTTL} : n \in Nat
    /\ ErrorTTL <= SummaryTTL
    /\ \A n \in {MaxViewClock, MaxChanges, MaxSwitches} : n \in Nat

VARIABLES viewClock,
          changedAt,    \* when the files got their first, second, ... change
          switchedAt,   \* when the active provider was switched, in memory
          savedSwitches,\* how many of these switches the file has
          request,      \* what a handler is working on
          watched,      \* the caches do not interact: a behaviour follows one of them
          cached,       \* its entries that have not expired
          toClear,      \* caches that a switch has still to clear
          halfSwitched  \* a switch failed between the memory and the file

viewVars == <<viewClock, changedAt, switchedAt, savedSwitches, request, watched, cached,
              toClear, halfSwitched>>
origins == <<changedAt, switchedAt, savedSwitches, halfSwitched, watched>>

Narratives == {"summary", "assistant", "semantic"}
Views == Narratives \cup {"graph"}
Forever == MaxViewClock + 1
Files == Len(changedAt)
Provider == Len(switchedAt)

Entry == [key : 0..MaxSwitches, from : Nat, until : Nat, late : BOOLEAN]

(* The summary and the assistant have one entry whatever the provider; the key *)
(* of a semantic entry names the provider that was active when it was built.    *)
assistant_cache_key == 0
code_semantic_cache_key == Provider
KeyOf == IF watched = "semantic" THEN code_semantic_cache_key ELSE assistant_cache_key
Found(key) == {e \in cached : e.key = key}

ViewInit ==
    /\ viewClock = 0 /\ changedAt = <<>> /\ switchedAt = <<>> /\ savedSwitches = 0
    /\ request = [r \in Requests |-> NoRequest]
    /\ watched \in Views
    /\ cached = {} /\ toClear = <<>> /\ halfSwitched = FALSE

----------------------------------------------------------------------------
(* Requests: get_code_graph, get_llm_summary, project_assistant, interpret. *)

(* ?refresh=1 of the summary does not look. *)
Misses == watched = "summary" \/ Found(KeyOf) = {}

Begin(r) ==
    /\ request[r] = NoRequest
    /\ Misses
    /\ request' = [request EXCEPT ![r] = [key |-> KeyOf, start |-> viewClock, from |-> 0, done |-> FALSE]]
    /\ UNCHANGED <<viewClock, origins, cached, toClear>>

(* The builder reads the files; the client resolves the active provider.  The  *)
(* answer arrives later.                                                       *)
resolve_active == Provider
Work(r) ==
    /\ request[r] # NoRequest /\ ~request[r].done
    /\ request' = [request EXCEPT ![r].done = TRUE,
          ![r].from = IF watched = "graph" THEN Files ELSE resolve_active]
    /\ UNCHANGED <<viewClock, origins, cached, toClear>>

(* What an outcome is kept for; 0 when it is not kept. *)
get_code_graph(outcome) == IF outcome = "ok" THEN GraphTTL ELSE 0
get_llm_summary(outcome) ==
    [ok |-> SummaryTTL, error |-> ErrorTTL, unavailable |-> 0][outcome]
cache_assistant_reply(outcome) == IF outcome = "error" THEN 0 ELSE AssistantTTL
cache_code_semantic(outcome) == IF outcome = "error" THEN 0 ELSE Forever
KeptFor(outcome) ==
    CASE watched = "graph"     -> get_code_graph(outcome)
      [] watched = "summary"   -> get_llm_summary(outcome)
      [] watched = "assistant" -> cache_assistant_reply(outcome)
      [] watched = "semantic"  -> cache_code_semantic(outcome)

(* The age of a graph and of a summary counts from the start of their request. *)
(* (Mutant: from the moment they are stored.)                                  *)
when_stored(r) == viewClock
Stamp(r) == IF watched \in {"graph", "summary"} THEN request[r].start ELSE viewClock

Finish(r) ==
    /\ request[r] # NoRequest /\ request[r].done
    /\ \E outcome \in {"ok", "error", "unavailable"} :
          LET until == Stamp(r) + KeptFor(outcome)
              entry == [key |-> request[r].key, from |-> request[r].from, until |-> until,
                        late |-> watched # "graph" /\ request[r].from # Provider]
          IN  cached' = IF KeptFor(outcome) = 0 THEN cached
                        ELSE (cached \ Found(request[r].key))
                                 \cup (IF until > viewClock THEN {entry} ELSE {})
    /\ request' = [request EXCEPT ![r] = NoRequest]
    /\ UNCHANGED <<viewClock, origins, toClear>>

(* A full cache drops its oldest entry, a lookup an expired one. *)
Evict ==
    /\ \E e \in cached : cached' = cached \ {e}
    /\ UNCHANGED <<viewClock, origins, request, toClear>>

----------------------------------------------------------------------------
(* What changes under the caches: the files under the graph, the provider under *)
(* the narratives.                                                              *)

Change ==
    /\ watched = "graph" /\ Files < MaxChanges
    /\ changedAt' = Append(changedAt, viewClock)
    /\ UNCHANGED <<viewClock, switchedAt, savedSwitches, halfSwitched, watched, request, cached,
                   toClear>>

(* The monitor notices a change at its next poll. *)
invalidate_code_graph_cache ==
    /\ watched \in {"graph", "semantic"}
    /\ cached' = {}
    /\ UNCHANGED <<viewClock, origins, request, toClear>>

(* The file is replaced as a whole. *)
_write_state_locked == savedSwitches' = Provider + 1 /\ halfSwitched' = FALSE

(* The provider is active in memory before the file is written; if that fails, *)
(* the request fails and no cache is cleared.                                  *)
save_and_activate ==
    /\ watched # "graph" /\ Provider < MaxSwitches
    /\ switchedAt' = Append(switchedAt, viewClock)
    /\ \/ /\ _write_state_locked
          /\ toClear' = <<"summary", "assistant", "semantic">>
       \/ /\ halfSwitched' = TRUE
          /\ UNCHANGED <<savedSwitches, toClear>>
    /\ UNCHANGED <<viewClock, changedAt, watched, request, cached>>

(* One cache after the other. *)
(* (Mutant: the semantic cache is left, as its keys name the provider.) *)
keep_semantic == IF watched = Head(toClear) /\ watched # "semantic" THEN {} ELSE cached
Cleared == IF watched = Head(toClear) THEN {} ELSE cached
clear_llm_caches ==
    /\ toClear # <<>>
    /\ cached' = Cleared
    /\ toClear' = Tail(toClear)
    /\ UNCHANGED <<viewClock, origins, request>>

TimePasses ==
    /\ viewClock < MaxViewClock
    /\ viewClock' = viewClock + 1
    /\ cached' = {e \in cached : e.until > viewClock'}
    /\ UNCHANGED <<origins, request, toClear>>

(* A restart reads the file again and starts with empty caches. *)
RestartViews ==
    /\ Provider > 0
    /\ switchedAt' = SubSeq(switchedAt, 1, savedSwitches)
    /\ request' = [r \in Requests |-> NoRequest]
    /\ cached' = {} /\ toClear' = <<>> /\ halfSwitched' = FALSE
    /\ UNCHANGED <<viewClock, changedAt, savedSwitches, watched>>

ViewNext ==
    \/ \E r \in Requests : Begin(r) \/ Work(r) \/ Finish(r)
    \/ Evict \/ Change \/ invalidate_code_graph_cache
    \/ save_and_activate \/ clear_llm_caches \/ TimePasses \/ RestartViews

ViewSpec == ViewInit /\ [][ViewNext]_viewVars

----------------------------------------------------------------------------
(* Correctness *)

ViewTypeOK ==
    /\ viewClock \in 0..MaxViewClock
    /\ cached \subseteq Entry
    /\ \A e \in cached : Cardinality(Found(e.key)) = 1 /\ e.until > viewClock
    /\ savedSwitches \in 0..Provider /\ halfSwitched \in BOOLEAN

(* However long its request took, and whether it was stored before or after the  *)
(* monitor or a switch emptied the cache, no graph is served longer than its TTL *)
(* after the files changed, and no summary longer than its TTL after the         *)
(* provider that told it was replaced.                                           *)
Outdated(e) == e.from < IF watched = "graph" THEN Files ELSE Provider
OutdatedSince(e) == IF watched = "graph" THEN changedAt[e.from + 1] ELSE switchedAt[e.from + 1]
LongestTTL == IF watched = "graph" THEN GraphTTL ELSE SummaryTTL
StaleViewsExpire ==
    watched \in {"graph", "summary"} =>
        \A e \in cached : Outdated(e) => viewClock < OutdatedSince(e) + LongestTTL

(* A narrative of an earlier provider is kept only if the switch has not got to its *)
(* cache yet or failed half-way, or if the request for it was under way during the  *)
(* switch.                                                                          *)
OldAnswersCleared ==
    watched # "graph" =>
        \A e \in cached : Outdated(e) => \/ e.late \/ halfSwitched
                                         \/ \E i \in DOMAIN toClear : toClear[i] = watched
=============================================================================
