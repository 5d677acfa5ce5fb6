------------------------------ MODULE Answers -------------------------------
(***************************************************************************)
(* The handlers of the REST API that answer about one account, one miner   *)
(* or one file (api/storage/account_api.go, miner_api.go, topn_api.go,     *)
(* tx_api.go).  Each reads several rows, and calls the node, one after the *)
(* other and in no transaction, while the sync and the statistics process  *)
(* write.  What an account has in files is told in two ways: by the        *)
(* counters of its row, which the statistics keep, and by a query over its *)
(* rows with the time of the database.                                     *)
(***************************************************************************)
EXTENDS Integers, Sequences, FiniteSets, FiniteSetsExt

CONSTANTS
    Lifetime,       \* expireSeconds, and those of the statistic of expired files
    Soon,           \* expiringSoonSeconds
    NoRow,          \* a row that is not there
    MaxFiles, MaxTime, MaxWins  \* bounds: files, time, wins and attempts

ConstantsOK == {Lifetime, Soon, MaxFiles, MaxTime, MaxWins} \subseteq Nat

VARIABLES
    asks,           \* what the client asks about: "account", "miner", "file"
    time,           \* NOW() of the database
    finalTime,      \* time of the finalized block
    submitted,      \* block times of the account's rows of address_submits
    account,        \* its row of addresses: number of expired files
    miner,          \* row of miners: [wins, attempts]
    ranked,         \* wins of the miner in the cached ranking
    file,           \* row of submits: [patched: is its gas in the row?]
    txHeld,         \* does the node hold the transaction and its receipt?
    asked,          \* the request: what it has read so far
    answer,         \* the last answer
    toldExpired,    \* for the properties: expired files told by getAccountInfo
    promised        \* and the files told to be healthy, and until when

rowVars == <<time, finalTime, submitted, account, miner, ranked, file, txHeld>>
clientVars == <<asked, toldExpired, promised>>
vars == <<asks, rowVars, clientVars, answer>>

Nobody == [step |-> "none"]
Silence == [of |-> "none"]
Refused == [of |-> "error"]
NoPromise == [until |-> -1, healthy |-> 0]

Init ==
    /\ asks \in {"account", "miner", "file"}
    /\ time = 1 /\ finalTime = 0 /\ submitted = <<>>
    /\ account = NoRow /\ miner = NoRow /\ ranked = NoRow
    /\ file = [patched |-> FALSE] /\ txHeld = TRUE
    /\ asked = Nobody /\ answer = Silence /\ toldExpired = 0 /\ promised = NoPromise

-----------------------------------------------------------------------------
(* The other processes.  An answer was read when they go on.                *)

Keeps(unchanged) == answer' = Silence /\ UNCHANGED <<asks, unchanged>>

\* Time goes on; a block is final when it is in the past.
Tick ==
    /\ asks = "account" /\ time < MaxTime
    /\ time' = time + 1 /\ finalTime' \in finalTime..time
    /\ Keeps(<<submitted, account, miner, ranked, file, txHeld, clientVars>>)

\* A block with a file is stored, some time after it was made.
Store ==
    /\ asks = "account" /\ Len(submitted) < MaxFiles
    /\ \E t \in 0..time :
          /\ \A f \in DOMAIN submitted : submitted[f] <= t
          /\ submitted' = Append(submitted, t)
    /\ account' = IF account = NoRow THEN 0 ELSE account
    /\ Keeps(<<time, finalTime, miner, ranked, file, txHeld, clientVars>>)

\* A block that is not final is removed, and with it what was told of it.
Unstore ==
    /\ submitted # <<>> /\ finalTime < submitted[Len(submitted)]
    /\ submitted' = SubSeq(submitted, 1, Len(submitted) - 1)
    /\ promised' = NoPromise
    /\ Keeps(<<time, finalTime, account, miner, ranked, file, txHeld, asked, toldExpired>>)

\* The statistic of expired files counts the next one.
CountExpired ==
    /\ account # NoRow /\ account < Len(submitted)
    /\ submitted[account + 1] + Lifetime <= finalTime
    /\ account' = account + 1
    /\ Keeps(<<time, finalTime, submitted, miner, ranked, file, txHeld, clientVars>>)

\* A reward is ranked, a call of the mine contract is counted, the cache is refreshed.
Mine ==
    /\ asks = "miner"
    /\ \/ /\ miner = NoRow /\ miner' = [wins |-> 0, attempts |-> 0] /\ UNCHANGED ranked
       \/ /\ miner # NoRow /\ UNCHANGED ranked
          /\ \E column \in {"wins", "attempts"} :
                miner[column] < MaxWins /\ miner' = [miner EXCEPT ![column] = @ + 1]
       \/ /\ miner # NoRow /\ miner.wins > 0
          /\ ranked' \in 1..miner.wins /\ UNCHANGED miner
    /\ Keeps(<<time, finalTime, submitted, account, file, txHeld, clientVars>>)

\* The gas of a file is patched into its row, or the node prunes its transaction.
Patch ==
    /\ asks = "file"
    /\ \/ txHeld /\ file' = [patched |-> TRUE] /\ UNCHANGED txHeld
       \/ txHeld' = FALSE /\ UNCHANGED file
    /\ Keeps(<<time, finalTime, submitted, account, miner, ranked, clientVars>>)

-----------------------------------------------------------------------------
(* The handlers.                                                            *)

Ask(next) == asked' = next /\ answer' = Silence /\ UNCHANGED <<toldExpired, promised>>
Tell(what) == answer' = what /\ asked' = Nobody

\* The row of the address, or an error without one.
getAddressInfo ==
    /\ asks = "account" /\ asked = Nobody
    /\ IF account = NoRow
       THEN Tell(Refused) /\ UNCHANGED <<toldExpired, promised>>
       ELSE \E step \in {"balance", "stats"} : Ask([step |-> step, expired |-> account])
    /\ UNCHANGED <<asks, rowVars>>

\* The balance is read from the node, which may fail.
Balance ==
    /\ asked.step = "balance"
    /\ \/ \E step \in {"info", "miner"} : Ask([step |-> step, expired |-> asked.expired])
       \/ Tell(Refused) /\ UNCHANGED <<toldExpired, promised>>
    /\ UNCHANGED <<asks, rowVars>>

\* What its miner has earned: nothing without a row.
Amount == IF miner = NoRow THEN 0 ELSE miner.wins

getAccountInfo ==
    /\ asked.step = "info"
    /\ Tell([of |-> "info", expired |-> asked.expired, reward |-> Amount])
    /\ toldExpired' = Max({toldExpired, asked.expired})
    /\ UNCHANGED <<asks, rowVars, promised>>

getMinerInfo ==
    /\ asked.step = "miner"
    /\ Tell([of |-> "miner", reward |-> Amount])
    /\ UNCHANGED <<asks, rowVars, toldExpired, promised>>

\* The classes of the files, by the time their lifetime ends.
Files(InClass(_)) == Cardinality({f \in DOMAIN submitted : InClass(submitted[f] + Lifetime)})
IsExpired(end) == end < time

\* Faulty variant of IsHealthy: without the time ahead.
IsUnexpired(end) == end >= time

IsHealthy(end) == end >= time + Soon

Stats ==
    [of |-> "stats", total |-> Len(submitted), expired |-> Files(IsExpired),
     soon |-> Files(LAMBDA end : ~IsExpired(end) /\ end < time + Soon),
     healthy |-> Files(IsHealthy)]

\* One query over the rows of the address.
getAccountStats ==
    /\ asked.step = "stats"
    /\ Tell(Stats)
    /\ promised' = [until |-> time + Soon, healthy |-> Stats.healthy]
    /\ UNCHANGED <<asks, rowVars, toldExpired>>

\* The cached ranking, which may be empty.
RankedMiners ==
    /\ asks = "miner" /\ asked = Nobody
    /\ IF ranked = NoRow THEN Tell(Silence) /\ UNCHANGED <<toldExpired, promised>>
                         ELSE Ask([step |-> "ranked", wins |-> ranked])
    /\ UNCHANGED <<asks, rowVars>>

\* The rows of the ranked miners; one without a row has no attempts.
BatchGetMiners == IF miner = NoRow THEN 0 ELSE miner.attempts

\* The attempts are raised to the wins where they are fewer.
topnReward ==
    /\ asked.step = "ranked"
    /\ Tell([of |-> "reward", wins |-> asked.wins, attempts |-> Max({BatchGetMiners, asked.wins})])
    /\ UNCHANGED <<asks, rowVars, toldExpired, promised>>

\* The row of the file, then, if its gas is not in the row, the transaction and the
\* receipt from the node, one after the other.
getStorageTx ==
    /\ asks = "file"
    /\ \/ asked = Nobody /\ Ask([step |-> "row", patched |-> file.patched])
       \/ /\ asked.step = "row" /\ asked.patched
          /\ Tell([of |-> "file", from |-> "row"]) /\ UNCHANGED <<toldExpired, promised>>
       \/ /\ asked.step = "row" /\ ~asked.patched /\ txHeld
          /\ Ask([step |-> "transaction"])
       \/ /\ asked.step = "transaction" /\ txHeld
          /\ Tell([of |-> "file", from |-> "node"]) /\ UNCHANGED <<toldExpired, promised>>
       \/ /\ asked.step = "transaction" \/ (asked.step = "row" /\ ~asked.patched)
          /\ ~txHeld
          /\ Tell(Refused) /\ UNCHANGED <<toldExpired, promised>>
    /\ UNCHANGED <<asks, rowVars>>

-----------------------------------------------------------------------------
Others == Tick \/ Store \/ Unstore \/ CountExpired \/ Mine \/ Patch

Handlers ==
    \/ getAddressInfo \/ Balance \/ getAccountInfo \/ getMinerInfo \/ getAccountStats
    \/ RankedMiners \/ topnReward \/ getStorageTx

Next == Others \/ Handlers

Spec == Init /\ [][Next]_vars

-----------------------------------------------------------------------------
(* Properties.                                                              *)

TypeOK ==
    /\ time \in 1..MaxTime /\ finalTime \in 0..time
    /\ \A f \in DOMAIN submitted : submitted[f] \in 0..MaxTime
    /\ account \in 0..MaxFiles \cup {NoRow} /\ toldExpired \in 0..MaxFiles
    /\ txHeld \in BOOLEAN

\* The two answers about an account agree: the query over its rows puts each file in one
\* class, and finds expired what the counter of its row was told to say.
CounterAgrees ==
    /\ Stats.expired + Stats.soon + Stats.healthy = Stats.total
    /\ toldExpired <= Stats.expired

\* A file that was told to be healthy is not told to have expired within the time ahead.
HealthyKept ==
    /\ answer.of \in {"info", "stats"} /\ time < promised.until
    => answer.expired + promised.healthy <= Len(submitted)

\* A miner of the ranking is shown with at least as many attempts as wins, though the two
\* are read at different times and counted by different processes.
WinsWereTried == answer.of = "reward" => answer.wins <= answer.attempts

=============================================================================
