----------------------------- MODULE NodeTypes ------------------------------
(***************************************************************************)
(* The types of storage nodes (StorageSyncer.RefreshNodeTypes in sync/     *)
(* storage.go, store/store_node_type.go).  A cycle first brings the flag   *)
(* "regular" of the hosts in line with the node list of the indexer, then  *)
(* the flag "hot" with the active providers of the hot router; each source *)
(* may be out, and its flags are then left alone.                          *)
(***************************************************************************)
EXTENDS Integers, FiniteSets

CONSTANTS
    Providers,      \* addresses of the registered providers, ordered as the router orders them
    Hosts,
    HostOf,         \* [Providers -> Hosts]
    PageLimit,      \* storageConfig.NodeTypePageLimit
    MaxChanges,     \* bound: changes of the two sources
    MaxFaults       \* bound: failed requests and statements, restarts

ConstantsOK ==
    /\ Providers \subseteq Nat \ {0} /\ IsFiniteSet(Providers) /\ HostOf \in [Providers -> Hosts]
    /\ PageLimit \in Nat \ {0}
    /\ {MaxChanges, MaxFaults} \subseteq Nat

VARIABLES
    regularNodes,   \* hosts in the node list of the indexer
    active,         \* active providers of the router
    up,             \* sources that answer
    isRegular, isHot,   \* the flags of storage_node_types, as sets of hosts
    providerAddr,   \* provider_addr, 0 for none
    step,           \* what the cycle does next
    present,        \* hosts of the source's answer
    fetched, cursor,\* active providers read so far, and up to where
    heldRegular, heldHot,   \* for the properties: nodes, providers reported since it was asked
    changes, faults

sources == <<regularNodes, active, up>>
rows == <<isRegular, isHot, providerAddr>>
cycle == <<step, present, fetched, cursor>>
held == <<heldRegular, heldHot>>
vars == <<sources, rows, cycle, held, changes, faults>>

HostsOf(ps) == {HostOf[p] : p \in ps}

Init ==
    /\ regularNodes \in SUBSET Hosts /\ active \in SUBSET Providers
    /\ up = {"indexer", "router"}
    /\ isRegular = {} /\ isHot = {} /\ providerAddr = [h \in Hosts |-> 0]
    /\ step = "regular" /\ present = {} /\ fetched = {} /\ cursor = 0
    /\ heldRegular = regularNodes /\ heldHot = active
    /\ changes = 0 /\ faults = 0

-----------------------------------------------------------------------------
(* The sources: a node joins or leaves, a provider starts or stops, a source *)
(* goes out or comes back.                                                   *)

Change == changes < MaxChanges /\ changes' = changes + 1

NodesChange ==
    /\ Change
    /\ \E h \in Hosts :
          regularNodes' = IF h \in regularNodes THEN regularNodes \ {h} ELSE regularNodes \cup {h}
    /\ heldRegular' = heldRegular \cap regularNodes'
    /\ UNCHANGED <<active, up, rows, cycle, heldHot, faults>>

ProvidersChange ==
    /\ Change
    /\ \E p \in Providers : active' = IF p \in active THEN active \ {p} ELSE active \cup {p}
    /\ heldHot' = heldHot \cap active'
    /\ UNCHANGED <<regularNodes, up, rows, cycle, heldRegular, faults>>

SourceChange ==
    /\ Change
    /\ \E s \in {"indexer", "router"} : up' = IF s \in up THEN up \ {s} ELSE up \cup {s}
    /\ UNCHANGED <<regularNodes, active, rows, cycle, held, faults>>

-----------------------------------------------------------------------------
(* The table: each source has a flag of its own, and the rows stay.         *)

RegularHosts == isRegular
HotHosts == isHot

MarkRegular(hosts) == isRegular' = isRegular \cup hosts /\ UNCHANGED <<isHot, providerAddr>>

\* An upsert of a host that is there replaces its address as well.
MarkHot(hosts, addr) ==
    /\ isHot' = isHot \cup hosts
    /\ providerAddr' = [h \in Hosts |-> IF h \in hosts THEN addr[h] ELSE providerAddr[h]]
    /\ UNCHANGED isRegular

UnmarkRegular(hosts) == isRegular' = isRegular \ hosts /\ UNCHANGED <<isHot, providerAddr>>
UnmarkHot(hosts) == isHot' = isHot \ hosts /\ UNCHANGED <<isRegular, providerAddr>>

\* StorageNodeTypeStore.List: hosts without a flag are left out.
List(nodeType) ==
    CASE nodeType = "hot" -> HotHosts
      [] nodeType = "regular" -> RegularHosts
      [] OTHER -> HotHosts \cup RegularHosts

\* The response of the API.
listNodeTypes(nodeType) ==
    [h \in List(nodeType) |->
        [isHot |-> h \in isHot, isRegular |-> h \in isRegular, providerAddr |-> providerAddr[h]]]

-----------------------------------------------------------------------------
(* The regular source.                                                      *)

BeginHot ==
    /\ step' = "page"
    /\ fetched' = {} /\ cursor' = 0 /\ present' = {}
    /\ heldHot' = active

\* The answers of the node list, if any.
GetShardedNodes == IF "indexer" \in up THEN {regularNodes} ELSE {}

\* GetShardedNodes fails: the flags are left alone, the other source is next.
RegularFails ==
    /\ step = "regular" /\ GetShardedNodes = {}
    /\ BeginHot
    /\ UNCHANGED <<sources, rows, heldRegular, changes, faults>>

\* GetShardedNodes and UpsertRegular.
UpsertRegular ==
    /\ step = "regular"
    /\ \E nodes \in GetShardedNodes : present' = nodes /\ MarkRegular(nodes) /\ heldRegular' = nodes
    /\ step' = "clearRegular"
    /\ UNCHANGED <<sources, fetched, cursor, heldHot, changes, faults>>

\* RegularHosts and ClearRegular.
ClearRegular ==
    /\ step = "clearRegular"
    /\ UnmarkRegular(RegularHosts \ present)
    /\ BeginHot
    /\ UNCHANGED <<sources, heldRegular, changes, faults>>

-----------------------------------------------------------------------------
(* The hot source.                                                          *)

Above(n) == {p \in Providers : p > n}

\* The answers of the router, if any: the first providers after the cursor, as many as a
\* page holds.
ListProviders ==
    IF "router" \notin up THEN {}
    ELSE {page \in SUBSET Above(cursor) :
             /\ \A p \in page, q \in Above(cursor) \ page : p < q
             /\ Cardinality(page) = PageLimit \/ page = Above(cursor)
             /\ Cardinality(page) <= PageLimit}

EndCycle == step' = "regular" /\ UNCHANGED <<present, fetched, cursor>>

\* Faulty variants of HotFails: the page is asked for until it comes; what was
\* read before the page failed is used.
HotRetries ==
    /\ step = "page" /\ "router" \notin up
    /\ UNCHANGED vars

HotStopsPaging ==
    /\ step = "page" /\ "router" \notin up
    /\ step' = "hot"
    /\ present' = HostsOf(fetched)
    /\ UNCHANGED <<sources, rows, fetched, cursor, held, changes, faults>>

\* A page fails: the flags are left alone.
HotFails ==
    /\ step = "page" /\ ListProviders = {}
    /\ EndCycle
    /\ UNCHANGED <<sources, rows, held, changes, faults>>

\* fetchHotProviders: a full page comes with a next cursor; of its providers the active
\* ones are used.
FetchHotProviders ==
    /\ step = "page"
    /\ \E page \in ListProviders :
          /\ fetched' = fetched \cup (page \cap active)
          /\ IF Cardinality(page) = PageLimit
             THEN /\ cursor' \in page /\ \A p \in page : p <= cursor'
                  /\ UNCHANGED <<step, present>>
             ELSE /\ step' = "hot" /\ present' = HostsOf(fetched')
                  /\ UNCHANGED cursor
    /\ UNCHANGED <<sources, rows, held, changes, faults>>

\* Of several providers of one host the last one read gives the address.
LastOf(h) == CHOOSE p \in fetched : HostOf[p] = h /\ \A q \in fetched : HostOf[q] = h => q <= p

UpsertHot ==
    /\ step = "hot"
    /\ MarkHot(present, [h \in present |-> LastOf(h)])
    /\ step' = "clearHot"
    /\ UNCHANGED <<sources, present, fetched, cursor, held, changes, faults>>

\* HotHosts and ClearHot: the flag only.
ClearHot ==
    /\ step = "clearHot"
    /\ UnmarkHot(HotHosts \ present)
    /\ EndCycle
    /\ UNCHANGED <<sources, held, changes, faults>>

\* A failed statement of the first source leads to the second source, one of the
\* second ends the cycle, as a restart does.
StatementFails ==
    /\ faults < MaxFaults /\ faults' = faults + 1
    /\ \/ step \in {"regular", "clearRegular"} /\ BeginHot
       \/ EndCycle /\ UNCHANGED heldHot
    /\ UNCHANGED <<sources, rows, heldRegular, changes>>

-----------------------------------------------------------------------------
Worker ==
    \/ RegularFails \/ UpsertRegular \/ ClearRegular
    \/ HotFails \/ FetchHotProviders \/ UpsertHot \/ ClearHot

Next == NodesChange \/ ProvidersChange \/ SourceChange \/ Worker \/ StatementFails

Spec == Init /\ [][Next]_vars

\* The worker runs again after every cycle.
FairSpec == Spec /\ WF_vars(Worker)

-----------------------------------------------------------------------------
(* Properties.                                                              *)

\* Every variable has its type; a host flagged hot has a provider.
TypeOK ==
    /\ {regularNodes, isRegular, isHot, present, heldRegular} \subseteq SUBSET Hosts
    /\ {active, fetched, heldHot} \subseteq SUBSET Providers
    /\ up \subseteq {"indexer", "router"}
    /\ providerAddr \in [Hosts -> Providers \cup {0}]
    /\ step \in {"regular", "clearRegular", "page", "hot", "clearHot"}
    /\ cursor \in Nat
    /\ \A h \in isHot : providerAddr[h] # 0

\* No flag is cleared for a host that its source has reported all the time since
\* the worker began to ask it, through outages of a source and failed statements.
ReportedAreSpared ==
    [][ /\ isRegular \ isRegular' \subseteq Hosts \ heldRegular
        /\ isHot \ isHot' \subseteq Hosts \ HostsOf(heldHot) ]_vars

\* The API comes to list what each source has, even when the other one stays out for good.
RegularFollows == <>[]("indexer" \in up) => <>[](DOMAIN listNodeTypes("regular") = regularNodes)
HotFollows == <>[]("router" \in up) => <>[](DOMAIN listNodeTypes("hot") = HostsOf(active))

\* A host that is listed as not hot shows no provider address.  (It may: ClearHot leaves it.)
AddressOnlyHot ==
    LET shown == listNodeTypes("all") IN \A h \in DOMAIN shown : shown[h].isHot \/ shown[h].providerAddr = 0
=============================================================================
