------------------------------ MODULE KeyCache ------------------------------
(***************************************************************************)
(* The cache of API keys in front of the table rate_limits                 *)
(* (api/middlewares/rate/key_loader.go), for one key.  A request looks the *)
(* key up, looks again under the lock, where an expired entry gets another *)
(* lease while it is reloaded, reads the table without the lock and caches *)
(* what it read.  An error of the database is cached too, where no entry   *)
(* is, but as a nil the next request cannot convert to a KeyInfo.          *)
(***************************************************************************)
EXTENDS Integers

CONSTANTS
    Clients,        \* requests that use the key at the same time
    StrategyIDs,    \* strategies the key can be bound to
    MaxKeyChanges,  \* bound: changes of the row of the key
    MaxKeyFaults,   \* bound: failed queries
    Missing,        \* a KeyInfo that is nil: the table has no row of the key
    Untyped,        \* the nil without a type that stands for an error
    Failed,         \* result of a query that failed
    Panicked,       \* end of a request by the panic of a failed conversion
    NoEntry         \* the cache has no entry of the key

KeyInfos == StrategyIDs \cup {Missing}

ConstantsOK ==
    /\ {MaxKeyChanges, MaxKeyFaults} \subseteq Nat
    /\ StrategyIDs \cap {Missing, Untyped, Failed, Panicked, NoEntry} = {}

VARIABLES
    row,            \* the row of the key in rate_limits
    entry,          \* the entry of the key in the cache
    request,        \* per client: where it is and what it got
    keyChanges, keyFaults

vars == <<row, entry, request, keyChanges, keyFaults>>

Fresh(value) == [value |-> value, expired |-> FALSE]
Found == entry # NoEntry
Hit == Found /\ ~entry.expired

\* A request at step `at` of Load with the result `got` so far.
At(at, got) == [at |-> at, got |-> got]
Move(c, at, got) == request' = [request EXCEPT ![c] = At(at, got)]

\* The rows of the key: it is unique in the table.
ListLimitKeyInfos == {row} \ {Missing}

\* The server starts with the keys of the table (warmUp), or without when they cannot be
\* read, or when there are more than the cache takes at first.
Init ==
    /\ row \in KeyInfos
    /\ entry \in {NoEntry} \cup {Fresh(info) : info \in ListLimitKeyInfos}
    /\ request = [c \in Clients |-> At("done", row)]
    /\ keyChanges = 0 /\ keyFaults = 0

-----------------------------------------------------------------------------
(* A request.                                                               *)

\* What the conversion of a cached value to a KeyInfo gives.
Converted(value) == IF value = Untyped THEN Panicked ELSE value

\* The first lookup, without the lock.
Lookup(c) ==
    /\ request[c].at = "done"
    /\ IF Hit THEN Move(c, "done", Converted(entry.value)) ELSE Move(c, "missed", Missing)
    /\ UNCHANGED <<row, entry, keyChanges, keyFaults>>

\* The second lookup, under the lock.
Recheck(c) ==
    /\ request[c].at = "missed"
    /\ \/ /\ Hit \/ (Found /\ entry.value = Untyped)
          /\ Move(c, "done", Converted(entry.value)) /\ UNCHANGED entry
       \/ /\ Found /\ entry.expired /\ entry.value # Untyped
          /\ entry' = Fresh(entry.value) /\ Move(c, "query", Missing)
       \/ ~Found /\ Move(c, "query", Missing) /\ UNCHANGED entry
    /\ UNCHANGED <<row, keyChanges, keyFaults>>

\* loadDB: the first row, or none.
LoadDB == IF ListLimitKeyInfos = {} THEN {Missing} ELSE ListLimitKeyInfos

Query(c) ==
    /\ request[c].at = "query"
    /\ \/ (\E info \in LoadDB : Move(c, "store", info)) /\ UNCHANGED keyFaults
       \/ /\ keyFaults < MaxKeyFaults /\ keyFaults' = keyFaults + 1
          /\ Move(c, "store", Failed)
    /\ UNCHANGED <<row, entry, keyChanges>>

\* Faulty variant of Cached: an error hides the key from everyone
CachedAsMissing(got) == IF got # Failed THEN Fresh(got) ELSE Fresh(Missing)

\* What the cache holds after the result `got` of a query.
Cached(got) ==
    IF got # Failed THEN Fresh(got)
    ELSE IF Found THEN entry ELSE Fresh(Untyped)

StoreCache(c) ==
    /\ request[c].at = "store"
    /\ entry' = Cached(request[c].got)
    /\ Move(c, "done", request[c].got)
    /\ UNCHANGED <<row, keyChanges, keyFaults>>

-----------------------------------------------------------------------------
(* The time to live, the other keys and the operator.                       *)

Expire ==
    /\ Hit /\ entry' = [entry EXCEPT !.expired = TRUE]
    /\ UNCHANGED <<row, request, keyChanges, keyFaults>>

Evict ==
    /\ Found /\ entry' = NoEntry
    /\ UNCHANGED <<row, request, keyChanges, keyFaults>>

\* The row is added where there is none, and deleted.
ChangeRow ==
    /\ keyChanges < MaxKeyChanges /\ keyChanges' = keyChanges + 1
    /\ IF row = Missing THEN row' \in StrategyIDs ELSE row' = Missing
    /\ UNCHANGED <<entry, request, keyFaults>>

Request(c) == Lookup(c) \/ Recheck(c) \/ Query(c) \/ StoreCache(c)

Next == (\E c \in Clients : Request(c)) \/ Expire \/ Evict \/ ChangeRow

Spec == Init /\ [][Next]_vars

\* Requests with the key keep coming and end, and entries expire.
FairSpec == Spec /\ (\A c \in Clients : WF_vars(Request(c))) /\ WF_vars(Expire)

-----------------------------------------------------------------------------
(* Properties.                                                              *)

TypeOK ==
    /\ row \in KeyInfos
    /\ entry \in {NoEntry} \cup [value : KeyInfos \cup {Untyped}, expired : BOOLEAN]
    /\ \A c \in Clients :
          \/ request[c].at \in {"missed", "query"} /\ request[c].got = Missing
          \/ request[c].at = "store" /\ request[c].got \in KeyInfos \cup {Failed}
          \/ request[c].at = "done" /\ request[c].got \in KeyInfos \cup {Failed, Panicked}
    /\ keyChanges \in 0..MaxKeyChanges /\ keyFaults \in 0..MaxKeyFaults

\* Once the row no longer changes, the cache comes to hold it and stays so, even
\* when a slow request stores what it read before the change.  The nil of an error
\* is left out: it stays until other keys evict it (see NoRequestPanics).
ShowsRow == entry = NoEntry \/ entry.value \in {row, Untyped}
CacheFollowsRow == <>[]ShowsRow

\* While the row does not change, a failed query takes the strategy from no request
\* but its own: every other request gets the row, or panics on the cached error.
FailureIsLocal ==
    keyChanges = 0 =>
        \A c \in Clients : request[c].at = "done" => request[c].got \in {row, Failed, Panicked}

\* No request ends in a panic: an error is cached as nil "so that db pressure can be
\* mitigated" (key_loader.go:87), and nil stands for a missing key (key_loader.go:33).
NoRequestPanics == \A c \in Clients : request[c].got # Panicked
=============================================================================
