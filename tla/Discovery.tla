------------------------------ MODULE Discovery ------------------------------
(***************************************************************************)
(* Daemons that start, stop and crash on one machine (src/daemon/serve.py), *)
(* the descriptors and the config file they leave behind, and a search for  *)
(* them (src/daemon/service_discovery.py).  Daemons are numbered in the     *)
(* order of their instance ids, which says nothing of when they started.    *)
(***************************************************************************)
EXTENDS Integers, FiniteSets, FiniteSetsExt

CONSTANTS Ports,
          MaxDaemons,       \* bound: instance ids
          MaxDescriptors    \* MAX_DESCRIPTORS

ASSUME DiscoveryAssumption == MaxDaemons \in Nat /\ MaxDescriptors \in Nat

VARIABLES stage,       \* of each daemon: new, bound, registered, serving, gone
          port,        \* where it is bound, or was
          registry,    \* the daemons with a descriptor
          config,      \* the daemon that wrote service.json last, 0 if none
          search,      \* a discover() in progress
          stayed,      \* history: daemons that served ever since its start
          slow         \* history: daemons whose probe timed out

discoveryVars == <<stage, port, registry, config, search, stayed, slow>>

Daemons == 1..MaxDaemons
Candidate(d, source) == [id |-> d, port |-> port[d], source |-> source]
NoSearch == [pc |-> "idle", candidates |-> {}, shown |-> {}, saw |-> {}]

(* A socket that is bound answers only once serve_forever runs. *)
Bound == {d \in Daemons : stage[d] \in {"bound", "registered", "serving"}}
AnswersAt(p) == {d \in Daemons : stage[d] = "serving" /\ port[d] = p}

DiscoveryInit ==
    /\ stage = [d \in Daemons |-> "new"]
    /\ port \in [Daemons -> Ports]
    /\ registry = {} /\ config = 0
    /\ search = NoSearch /\ stayed = {} /\ slow = {}

----------------------------------------------------------------------------
(* serve.main *)

Becomes(d, s) == stage' = [stage EXCEPT ![d] = s]

Bind(d) ==
    /\ stage[d] = "new"
    /\ \A other \in Bound : port[other] # port[d]
    /\ Becomes(d, "bound")
    /\ UNCHANGED <<port, registry, config, search, stayed, slow>>

register(d) ==
    /\ stage[d] = "bound"
    /\ registry' = registry \cup {d}
    /\ Becomes(d, "registered")
    /\ UNCHANGED <<port, config, search, stayed, slow>>

(* The config of whoever started last; nobody ever removes it. *)
write_json(d) ==
    /\ stage[d] = "registered"
    /\ config' = d
    /\ Becomes(d, "serving")
    /\ UNCHANGED <<port, registry, search, stayed, slow>>

Gone(d) == Becomes(d, "gone") /\ stayed' = stayed \ {d}

unregister(d) ==
    /\ stage[d] = "serving"
    /\ registry' = registry \ {d}
    /\ Gone(d)
    /\ UNCHANGED <<port, config, search, slow>>

Killed(d) ==
    /\ d \in Bound
    /\ Gone(d)
    /\ UNCHANGED <<port, registry, config, search, slow>>

----------------------------------------------------------------------------
(* LocalServiceDiscoveryAgent *)

(* The first descriptors in the order of their ids. *)
Before(d) == {e \in registry : e < d}
Listed == {d \in registry : Cardinality(Before(d)) < MaxDescriptors}
Legacy == IF config = 0 THEN {} ELSE {Candidate(config, "legacy_config")}

(* One candidate for a port: the first descriptor, else the config file. *)
(* (Mutant: the last one that was read.)                                 *)
later_wins(p) ==
    IF config # 0 /\ port[config] = p THEN Legacy
    ELSE LET there == {d \in Listed : port[d] = p}
         IN  {Candidate(d, "registry") : d \in {e \in there : e = Max(there)}}
unique(p) ==
    LET there == {d \in Listed : port[d] = p}
    IN  IF there # {} THEN {Candidate(Min(there), "registry")}
        ELSE {c \in Legacy : c.port = p}

_collect_candidates ==
    /\ search.pc = "idle"
    /\ search' = [pc |-> "probing", candidates |-> UNION {unique(p) : p \in Ports},
                  shown |-> {}, saw |-> registry]
    /\ stayed' = {d \in Daemons : stage[d] = "serving"}
    /\ slow' = {}
    /\ UNCHANGED <<stage, port, registry, config>>

StatusOf(c) == IF c.source = "legacy_config" THEN "legacy"
               ELSE IF c.id \in AnswersAt(c.port) THEN "ready" ELSE "offline"

Shown(c, status) ==
    search' = [search EXCEPT !.candidates = @ \ {c},
                  !.shown = @ \cup {[id |-> c.id, status |-> status,
                                     answered |-> AnswersAt(c.port)]}]

_probe ==
    /\ search.pc = "probing"
    /\ \E c \in search.candidates :
          \/ Shown(c, IF AnswersAt(c.port) = {} THEN "offline" ELSE StatusOf(c))
             /\ UNCHANGED slow
          \/ Shown(c, "offline") /\ slow' = slow \cup {c.id}
    /\ UNCHANGED <<stage, port, registry, config, stayed>>

discover ==
    /\ search.pc = "probing" /\ search.candidates = {}
    /\ search' = NoSearch /\ stayed' = {} /\ slow' = {}
    /\ UNCHANGED <<stage, port, registry, config>>

DiscoveryNext ==
    \/ \E d \in Daemons : Bind(d) \/ register(d) \/ write_json(d) \/ unregister(d) \/ Killed(d)
    \/ _collect_candidates \/ _probe \/ discover

DiscoverySpec == DiscoveryInit /\ [][DiscoveryNext]_discoveryVars

----------------------------------------------------------------------------
DiscoveryTypeOK ==
    /\ stage \in [Daemons -> {"new", "bound", "registered", "serving", "gone"}]
    /\ \A d, e \in Bound : port[d] = port[e] => d = e
    /\ registry \subseteq Daemons /\ config \in 0..MaxDaemons
    /\ \A d \in Daemons : stage[d] \in {"registered", "serving"} => d \in registry

(* What a search shows as ready answered as that daemon, on whatever port the         *)
(* descriptors of dead daemons still name; and a daemon that served all through the    *)
(* search is shown as ready.  It is missed only if its probe timed out, or if a        *)
(* descriptor with a smaller id stands before it: of a dead daemon on the same port,   *)
(* or one too many of any.                                                             *)
Preceding(d) == {e \in search.saw : e < d}
Crowded(d) == Cardinality(Preceding(d)) >= MaxDescriptors
Hidden(d) == \E e \in Preceding(d) : port[e] = port[d]
SearchFindsRunning ==
    /\ \A s \in search.shown : s.status = "ready" => s.id \in s.answered
    /\ search.pc = "probing" /\ search.candidates = {} =>
          \A d \in stayed : \/ \E s \in search.shown : s.id = d /\ s.status = "ready"
                            \/ d \in slow \/ Crowded(d) \/ Hidden(d)
=============================================================================
