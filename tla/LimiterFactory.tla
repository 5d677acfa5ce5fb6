--------------------------- MODULE LimiterFactory ---------------------------
(***************************************************************************)
(* The rate limit strategies and the limiters made from them (api/         *)
(* middlewares/rate/limiter_factory.go, LoadRateLimitConfigs of store/     *)
(* store_config.go).  AutoReload reads the strategies from the table       *)
(* configs, keeps them by name and by id, and removes the limiters whose   *)
(* rule it changed; a request finds its strategy by id, or the default one *)
(* by name, and then takes or makes the limiter of that strategy's name.   *)
(* The registry of limiters is a library; it is taken to make a limiter    *)
(* and to remove one in turn, never at the same time.                      *)
(***************************************************************************)
EXTENDS Integers, FiniteSets, FiniteSetsExt, Functions, SequencesExt

CONSTANTS
    Names, DefaultStrategy, \* names of strategies
    Resources,              \* limited resources: a path, or all of them
    Values,                 \* contents of config rows: a rule per resource
    NoRule,                 \* a strategy does not limit the resource
    Malformed,              \* a rule of no known algorithm, or with a bad option
    MaxIDs,                 \* bound: rows ever added to configs
    CanRename,              \* whether rows are renamed
    Requests,               \* requests at the same time
    MaxEdits,               \* bound: changes of rows
    MaxReloadFaults         \* bound: failed reads of configs

IDs == 1..MaxIDs
Rules == UNION {{v[r] : r \in Resources} : v \in Values} \cup {NoRule}

ConstantsOK ==
    /\ DefaultStrategy \in Names /\ Values \subseteq [Resources -> Rules]
    /\ CanRename \in BOOLEAN
    /\ MaxIDs \in Nat \ {0} /\ {MaxEdits, MaxReloadFaults} \subseteq Nat

VARIABLES
    configs,        \* rows of strategies in configs, by id
    usedIDs,        \* ids ever given
    strategies,     \* by name
    id2Strategies,  \* by id
    lastSums,       \* checksums of the last load, by id
    loaded,         \* what a reload has read, or nothing
    limiters,       \* the registry: the rule of the limiter of a name and a resource
    waiting,        \* per request: the strategy it was sent to, and the resource
    edits, reloadFaults

vars == <<configs, usedIDs, strategies, id2Strategies, lastSums, loaded, limiters, waiting,
          edits, reloadFaults>>
lfVars == <<strategies, id2Strategies, lastSums, limiters>>

Empty == [x \in {} |-> NoRule]
Without(f, S) == Restrict(f, DOMAIN f \ S)
With(f, x, v) == [y \in DOMAIN f \cup {x} |-> IF y = x THEN v ELSE f[y]]

Init ==
    /\ configs \in {Empty} \cup [{1} -> [Name : {DefaultStrategy}, Value : Values]]
    /\ usedIDs = DOMAIN configs
    /\ strategies = Empty /\ id2Strategies = Empty /\ lastSums = Empty
    /\ loaded = {} /\ limiters = Empty /\ waiting = [q \in Requests |-> {}]
    /\ edits = 0 /\ reloadFaults = 0

-----------------------------------------------------------------------------
(* A reload.                                                                *)

\* LimitRule.UnmarshalJSON: a rule has a known algorithm and its option.
IsLimitRule(rule) == rule # Malformed

\* Strategy.UnmarshalJSON: one bad rule spoils the strategy.
IsStrategy(value) == \A r \in Resources : IsLimitRule(value[r])

\* decodeRateLimitStrategy.
Strategy(id, row) == [ID |-> id, Name |-> row.Name, LimitOptions |-> row.Value]

\* LoadRateLimitStrategyConfigs: the rows that can be decoded.
Decoded(rows) ==
    [id \in {i \in DOMAIN rows : IsStrategy(rows[i].Value)} |-> Strategy(id, rows[id])]

\* LoadRateLimitConfigs, which may fail.
Load ==
    /\ loaded = {}
    /\ \/ loaded' = {Decoded(configs)} /\ UNCHANGED reloadFaults
       \/ /\ reloadFaults < MaxReloadFaults /\ reloadFaults' = reloadFaults + 1
          /\ UNCHANGED loaded
    /\ UNCHANGED <<configs, usedIDs, lfVars, waiting, edits>>

\* The state of the factory that a reload works on.
Factory == [byName |-> strategies, byID |-> id2Strategies, limits |-> limiters]

LimitersOf(lf, s, changed) ==
    {l \in DOMAIN lf.limits : l[1] = s.Name /\ s.LimitOptions[l[2]] # NoRule /\ l[2] \in changed}

\* Faulty variant of removeStrategy: the limiters stay.
removeOnly(lf, s) ==
    [byName |-> Without(lf.byName, {s.Name}), byID |-> Without(lf.byID, {s.ID}),
     limits |-> lf.limits]

removeStrategy(lf, s) ==
    [byName |-> Without(lf.byName, {s.Name}), byID |-> Without(lf.byID, {s.ID}),
     limits |-> Without(lf.limits, LimitersOf(lf, s, Resources))]

addStrategy(lf, s) ==
    [lf EXCEPT !.byName = With(@, s.Name, s), !.byID = With(@, s.ID, s)]

updateStrategy(lf, old, new) ==
    LET added == addStrategy(lf, new)
        changed == {r \in Resources : old.LimitOptions[r] # new.LimitOptions[r]}
    IN  IF old.Name # new.Name
        THEN [added EXCEPT !.byName = Without(@, {old.Name}),
                           !.limits = Without(@, LimitersOf(lf, old, Resources))]
        ELSE [added EXCEPT !.limits = Without(@, LimitersOf(lf, old, changed))]

\* Faulty variant of Changed: a strategy stays as it was added.
NeverChanged(rc, id) == FALSE

\* The checksum of a strategy is that of its value; its name is not in it.
Changed(rc, id) == id \notin DOMAIN lastSums \/ lastSums[id] # rc[id].LimitOptions

\* The strategies are taken in the order of a Go map, that is in any.
reload(rc, order) ==
    LET gone == {id \in DOMAIN id2Strategies : id \notin DOMAIN rc}
        kept == FoldLeft(LAMBDA lf, id : IF id \in gone THEN removeStrategy(lf, lf.byID[id]) ELSE lf,
                         Factory, order)
        Put(lf, id) ==
            IF id \notin DOMAIN rc THEN lf
            ELSE IF id \notin DOMAIN lf.byID THEN addStrategy(lf, rc[id])
            ELSE IF Changed(rc, id) THEN updateStrategy(lf, lf.byID[id], rc[id])
            ELSE lf
    IN  FoldLeft(Put, kept, order)

Reload ==
    /\ \E rc \in loaded, order \in SetToSeqs(usedIDs) :
          /\ LET lf == reload(rc, order)
             IN  strategies' = lf.byName /\ id2Strategies' = lf.byID /\ limiters' = lf.limits
          /\ lastSums' = [id \in DOMAIN rc |-> rc[id].LimitOptions]
    /\ loaded' = {}
    /\ UNCHANGED <<configs, usedIDs, waiting, edits, reloadFaults>>

-----------------------------------------------------------------------------
(* A request.                                                               *)

Limits(s, r) == s.LimitOptions[r] # NoRule

\* Without a key, or with one that is not known: the default strategy, by name.
DefaultGroups(r) ==
    {strategies[n].Name : n \in {m \in DOMAIN strategies \cap {DefaultStrategy} : Limits(strategies[m], r)}}

\* With a key: the strategy of the key, by id.
KeyInfoGroups(id, r) ==
    {id2Strategies[i].Name : i \in {j \in DOMAIN id2Strategies \cap {id} : Limits(id2Strategies[j], r)}}

\* GetGroupAndKey: where a request with some key or none is sent to; nowhere when the
\* strategy is gone or does not limit the resource.
GroupsOf(r) == DefaultGroups(r) \cup UNION {KeyInfoGroups(id, r) : id \in IDs}

GetGroupAndKey(q) ==
    /\ waiting[q] = {}
    /\ \E r \in Resources, n \in Names :
          n \in GroupsOf(r) /\ waiting' = [waiting EXCEPT ![q] = {<<n, r>>}]
    /\ UNCHANGED <<configs, usedIDs, lfVars, loaded, edits, reloadFaults>>

\* The limiter is taken from the registry, or made (Create), or the request is
\* refused because its strategy or the rule of it is gone.
Limit(q) ==
    /\ \E l \in waiting[q] :
          IF /\ l \notin DOMAIN limiters /\ l[1] \in DOMAIN strategies
             /\ strategies[l[1]].LimitOptions[l[2]] # NoRule
          THEN limiters' = With(limiters, l, strategies[l[1]].LimitOptions[l[2]])
          ELSE UNCHANGED limiters
    /\ waiting' = [waiting EXCEPT ![q] = {}]
    /\ UNCHANGED <<configs, usedIDs, strategies, id2Strategies, lastSums, loaded, edits, reloadFaults>>

\* ScheduleGC: limiters nobody uses are dropped.
GC ==
    /\ \E l \in DOMAIN limiters : limiters' = Without(limiters, {l})
    /\ UNCHANGED <<configs, usedIDs, strategies, id2Strategies, lastSums, loaded, waiting, edits,
                   reloadFaults>>

-----------------------------------------------------------------------------
(* The operator edits the rows; names are unique, ids never come back.      *)

Edit ==
    /\ edits < MaxEdits /\ edits' = edits + 1
    /\ \/ \E n \in Names \ {configs[i].Name : i \in DOMAIN configs}, v \in Values, id \in IDs :
             /\ id = Cardinality(usedIDs) + 1
             /\ usedIDs' = usedIDs \cup {id}
             /\ configs' = With(configs, id, [Name |-> n, Value |-> v])
       \/ /\ \E id \in DOMAIN configs :
                \/ configs' = Without(configs, {id})
                \/ \E v \in Values : configs' = [configs EXCEPT ![id].Value = v]
          /\ UNCHANGED usedIDs
       \/ /\ CanRename
          /\ \E id \in DOMAIN configs, v \in Values,
                n \in Names \ {configs[i].Name : i \in DOMAIN configs} :
                configs' = [configs EXCEPT ![id] = [Name |-> n, Value |-> v]]
          /\ UNCHANGED usedIDs
    /\ UNCHANGED <<lfVars, loaded, waiting, reloadFaults>>

Next ==
    \/ Load \/ Reload \/ GC \/ Edit
    \/ \E q \in Requests : GetGroupAndKey(q) \/ Limit(q)

Spec == Init /\ [][Next]_vars

\* AutoReload runs every ten seconds.
FairSpec == Spec /\ WF_vars(Load \/ Reload)

-----------------------------------------------------------------------------
(* Properties.                                                              *)

StrategiesOver(S) == {[ID |-> id, Name |-> n, LimitOptions |-> v] : id \in S, n \in Names, v \in Values}

TypeOK ==
    /\ DOMAIN configs \subseteq IDs /\ usedIDs \subseteq IDs
    /\ \A id \in DOMAIN configs : configs[id] \in [Name : Names, Value : Values]
    /\ DOMAIN strategies \subseteq Names /\ DOMAIN id2Strategies \subseteq usedIDs
    /\ Range(strategies) \cup Range(id2Strategies) \subseteq StrategiesOver(usedIDs)
    /\ \A l \in DOMAIN limiters : l \in Names \X Resources
    /\ Cardinality(loaded) <= 1
    /\ edits \in 0..MaxEdits /\ reloadFaults \in 0..MaxReloadFaults

\* A limiter limits by the rule its strategy has now, whatever was reloaded while the
\* request that made it was on its way.
LimitersCurrent ==
    \A l \in DOMAIN limiters :
        l[1] \in DOMAIN strategies /\ limiters[l] = strategies[l[1]].LimitOptions[l[2]]

\* A strategy found by its id is the one found by its name.  (With renames it is not:
\* two rows that swap their names in one reload lose one of them.)
NamesAgree == Range(strategies) = Range(id2Strategies)

\* Once the rows stay as they are, the strategies come to be those of the rows.
ShowsConfigs == id2Strategies = Decoded(configs)
ConfigFollows == <>[]ShowsConfigs
=============================================================================
