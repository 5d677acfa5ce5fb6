------------------------- MODULE SyncWorkersProofs --------------------------
(***************************************************************************)
(* What is proved of the workers of the sync process, in the composition   *)
(* itself: of the storage class, of mining attempts, of what L1Txs passes  *)
(* and of which node types a cycle clears.  No step of another worker      *)
(* disturbs the invariant of one.                                          *)
(***************************************************************************)
EXTENDS SyncWorkers, SequenceTheorems, FiniteSetTheorems, TLAPS

LEMMA Constants == Class!ConstantsOK /\ Mining!ConstantsOK
  BY SyncWorkersAssumption DEF SyncWorkersAssumption

\* The workers count as everybody does.
LEMMA SameCardinality ==
    /\ \A S : Class!Cardinality(S) = Cardinality(S) /\ Mining!Cardinality(S) = Cardinality(S)
    /\ \A S : Class!IsFiniteSet(S) = IsFiniteSet(S) /\ Mining!IsFiniteSet(S) = IsFiniteSet(S)
  BY DEF Class!Cardinality, Mining!Cardinality, Cardinality, Class!IsFiniteSet,
         Mining!IsFiniteSet, IsFiniteSet

-----------------------------------------------------------------------------
(* The steps of the process.                                                *)

\* A step of the process is one of the worker, or leaves its data alone.
LEMMA StepOfClass ==
    [Next]_vars =>
        /\ worker' = worker
        /\ worker = "class" => Class!Next \/ UNCHANGED <<classVars, cursor, changes, faults>>
        /\ worker # "class" => UNCHANGED classVars
  <1> SUFFICES ASSUME [Next]_vars
               PROVE  /\ worker' = worker
                      /\ worker = "class" =>
                            Class!Next \/ UNCHANGED <<classVars, cursor, changes, faults>>
                      /\ worker # "class" => UNCHANGED classVars
      OBVIOUS
  <1>1. CASE ClassRun(Class!Next)  BY <1>1 DEF ClassRun
  <1>2. CASE NodesRun(Nodes!Next)  BY <1>2 DEF NodesRun
  <1>3. CASE L1Run(L1!Next)  BY <1>3 DEF L1Run
  <1>4. CASE MiningRun(Mining!Next)  BY <1>4 DEF MiningRun
  <1>5. CASE HeightsRun(Heights!Next)  BY <1>5 DEF HeightsRun
  <1>6. CASE UNCHANGED vars  BY <1>6 DEF vars
  <1> QED  BY <1>1, <1>2, <1>3, <1>4, <1>5, <1>6 DEF Next

LEMMA StepOfMining == [Next]_vars => Mining!Next \/ UNCHANGED miningVars
  <1> SUFFICES ASSUME [Next]_vars PROVE Mining!Next \/ UNCHANGED miningVars  OBVIOUS
  <1>1. CASE MiningRun(Mining!Next)  BY <1>1 DEF MiningRun
  <1>2. CASE NodesRun(Nodes!Next)  BY <1>2 DEF NodesRun
  <1>3. CASE ClassRun(Class!Next)  BY <1>3 DEF ClassRun
  <1>4. CASE L1Run(L1!Next)  BY <1>4 DEF L1Run
  <1>5. CASE HeightsRun(Heights!Next)  BY <1>5 DEF HeightsRun
  <1>6. CASE UNCHANGED vars  BY <1>6 DEF vars
  <1> QED  BY <1>1, <1>2, <1>3, <1>4, <1>5, <1>6 DEF Next

-----------------------------------------------------------------------------
(* The storage class.                                                       *)

\* While it pages, a cycle has seen the held roots up to its cursor.
SeenUpToCursor == classPhase = "page" => \A r \in held : r <= cursor => r \in hotSet

\* After that it has seen all of them.
SeenAll == classPhase \in {"promote", "demote"} => held \subseteq hotSet

\* What is demoted was not seen.
DemotesUnseen == classPhase = "demote" => todo \cap hotSet = {} /\ chunk \cap hotSet = {}

ClassIInv ==
    /\ Class!TypeOK
    /\ held \subseteq hot
    /\ SeenUpToCursor /\ SeenAll /\ DemotesUnseen
    /\ chunk \subseteq todo
    /\ classPhase \in {"idle", "page"} => chunk = {}

-----------------------------------------------------------------------------
\* Writing a class changes no row's root and no table's length.
LEMMA SetStorageClassType ==
    ASSUME NEW table \in Seq(Class!Rows), NEW roots, NEW class \in Class!Classes
    PROVE  /\ Class!SetStorageClass(table, roots, class) \in Seq(Class!Rows)
           /\ DOMAIN Class!SetStorageClass(table, roots, class) = DOMAIN table
           /\ \A i \in DOMAIN table :
                   Class!SetStorageClass(table, roots, class)[i].root = table[i].root
  <1> DEFINE new == Class!SetStorageClass(table, roots, class)
  <1>1. PICK n \in Nat : table \in [1..n -> Class!Rows]  BY SeqDef
  <1>2. DOMAIN new = DOMAIN table /\ DOMAIN table = 1..n
      BY <1>1 DEF Class!SetStorageClass
  <1>3. ASSUME NEW i \in 1..n
        PROVE  new[i] \in Class!Rows /\ new[i].root = table[i].root
    <2>1. table[i] \in Class!Rows  BY <1>1
    <2>2. new[i] = IF table[i].root \in roots THEN [table[i] EXCEPT !.class = class]
                                              ELSE table[i]
        BY <1>2 DEF Class!SetStorageClass
    <2> QED  BY <2>1, <2>2 DEF Class!Rows
  <1>4. new \in [1..n -> Class!Rows]  BY <1>2, <1>3 DEF Class!SetStorageClass
  <1> QED  BY <1>2, <1>3, <1>4, SeqDef

LEMMA InitClassInv == ASSUME Class!ConstantsOK PROVE Class!Init => ClassIInv
  <1> SUFFICES ASSUME Class!Init PROVE ClassIInv  OBVIOUS
  <1>1. <<>> \in Seq(Class!Rows)  OBVIOUS
  <1> QED
      BY <1>1 DEF Class!Init, ClassIInv, Class!TypeOK, SeenUpToCursor, SeenAll, DemotesUnseen

LEMMA StepClassInv ==
    ASSUME Class!ConstantsOK
    PROVE  ClassIInv /\ [Class!Next]_(Class!vars) => ClassIInv'
  <1> SUFFICES ASSUME ClassIInv, [Class!Next]_(Class!vars) PROVE ClassIInv'  OBVIOUS
  <1> USE DEF ClassIInv
  <1>1. CASE \E r \in Roots : Class!CacheFile(r)
    <2>1. PICK r \in Roots : Class!CacheFile(r)  BY <1>1
    <2> QED
        BY <2>1
           DEF Class!CacheFile, Class!TypeOK, SeenUpToCursor, SeenAll, DemotesUnseen,
               Class!tables, Class!worker
  <1>2. CASE \E r \in Roots : Class!EvictFile(r)
    <2>1. PICK r \in Roots : Class!EvictFile(r)  BY <1>2
    <2> QED
        BY <2>1
           DEF Class!EvictFile, Class!TypeOK, SeenUpToCursor, SeenAll, DemotesUnseen,
               Class!tables, Class!worker
  <1>3. CASE \E r \in Roots : Class!Push(r)
    <2>1. PICK r \in Roots : Class!Push(r)  BY <1>3
    <2> DEFINE row == [root |-> r, class |-> "standard"]
    <2>2. classes' = Append(classes, row) /\ addressClasses' = Append(addressClasses, row)
        BY <2>1 DEF Class!Push
    <2>3. row \in Class!Rows  BY DEF Class!Rows, Class!Classes
    <2> HIDE DEF row
    <2>4. classes' \in Seq(Class!Rows) /\ addressClasses' \in Seq(Class!Rows)
        BY <2>2, <2>3 DEF Class!TypeOK
    <2>5. Len(classes) = Len(addressClasses)  BY DEF Class!TypeOK
    <2>6. /\ DOMAIN classes' = DOMAIN addressClasses'
          /\ \A i \in DOMAIN classes' : classes'[i].root = addressClasses'[i].root
        BY <2>2, <2>3, <2>5 DEF Class!TypeOK
    <2> QED
        BY <2>1, <2>4, <2>6
           DEF Class!Push, Class!TypeOK, SeenUpToCursor, SeenAll, DemotesUnseen, Class!worker
  <1>4. CASE \E n \in 0..(Len(classes) - 1) : Class!Pop(n)
    <2>1. PICK n \in 0..(Len(classes) - 1) : Class!Pop(n)  BY <1>4
    <2>2. /\ classes' = SubSeq(classes, 1, n) /\ addressClasses' = SubSeq(addressClasses, 1, n)
          /\ Len(classes) = Len(addressClasses) /\ Len(classes) \in Nat
        BY <2>1 DEF Class!Pop, Class!TypeOK
    <2>3. classes' \in Seq(Class!Rows) /\ addressClasses' \in Seq(Class!Rows)
        BY <2>2, SubSeqProperties DEF Class!TypeOK
    <2>4. /\ DOMAIN classes' = DOMAIN addressClasses'
          /\ \A i \in DOMAIN classes' : classes'[i].root = addressClasses'[i].root
        BY <2>2, SubSeqProperties DEF Class!TypeOK
    <2> QED
        BY <2>1, <2>3, <2>4
           DEF Class!Pop, Class!TypeOK, SeenUpToCursor, SeenAll, DemotesUnseen, Class!worker
  <1>5. CASE Class!StartCycle
    <2>1. \A r \in hot : ~(r <= 0)
      <3>1. hot \subseteq Nat \ {0}  BY DEF Class!ConstantsOK, Class!TypeOK
      <3> QED  BY <3>1
    <2>2. Class!TypeOK'  BY <1>5 DEF Class!StartCycle, Class!TypeOK, Class!tables
    <2>3. SeenUpToCursor' /\ SeenAll' /\ DemotesUnseen'
        BY <1>5, <2>1 DEF Class!StartCycle, SeenUpToCursor, SeenAll, DemotesUnseen
    <2> QED  BY <1>5, <2>2, <2>3 DEF Class!StartCycle
  <1>6. CASE Class!ListCachedFiles
    <2>1. held \subseteq Nat  BY DEF Class!ConstantsOK, Class!TypeOK
    <2>2. PICK page \in SUBSET Class!Above(cursor) :
             /\ Class!IsPage(page)
             /\ hotSet' = hotSet \cup page
             /\ \/ /\ Cardinality(page) = ClassPageLimit
                   /\ cursor' \in page /\ \A r \in page : r <= cursor'
                   /\ UNCHANGED <<classPhase, todo>>
                \/ /\ Cardinality(page) < ClassPageLimit
                   /\ classPhase' = "promote" /\ todo' = hotSet'
                   /\ UNCHANGED cursor
        BY <1>6, SameCardinality DEF Class!ListCachedFiles
    <2>3. hotSet' \subseteq Roots /\ hot \subseteq Nat
        BY <2>2 DEF Class!ConstantsOK, Class!Above, Class!TypeOK
    <2>4. CASE /\ cursor' \in page /\ \A r \in page : r <= cursor'
               /\ UNCHANGED <<classPhase, todo>>
      <3>1. cursor' \in Nat  BY <2>3, <2>4 DEF Class!Above
      <3>2. \A r \in held : r <= cursor' => r \in hotSet'
        <4> SUFFICES ASSUME NEW r \in held, r <= cursor' PROVE r \in hotSet'
            OBVIOUS
        <4>1. CASE r <= cursor
            BY <1>6, <2>2, <4>1 DEF Class!ListCachedFiles, SeenUpToCursor
        <4>2. CASE r > cursor
          <5>1. r \in Class!Above(cursor)  BY <4>2 DEF Class!Above
          <5>2. r \in page  BY <2>1, <2>2, <2>4, <3>1, <5>1 DEF Class!IsPage
          <5> QED  BY <2>2, <5>2
        <4> QED  BY <2>1, <4>1, <4>2 DEF Class!TypeOK
      <3> QED
          BY <1>6, <2>3, <2>4, <3>1, <3>2
             DEF Class!ListCachedFiles, Class!TypeOK, SeenUpToCursor, SeenAll, DemotesUnseen,
                 Class!tables
    <2>5. CASE /\ Cardinality(page) < ClassPageLimit
               /\ classPhase' = "promote" /\ todo' = hotSet'
               /\ UNCHANGED cursor
      <3>1. page = Class!Above(cursor)
          BY <2>2, <2>5, SameCardinality DEF Class!ConstantsOK, Class!IsPage
      <3>2. held \subseteq hotSet'
          BY <1>6, <2>1, <2>2, <3>1
             DEF Class!ListCachedFiles, Class!Above, SeenUpToCursor, Class!TypeOK
      <3> QED
          BY <1>6, <2>3, <2>5, <3>2
             DEF Class!ListCachedFiles, Class!TypeOK, SeenUpToCursor, SeenAll, DemotesUnseen,
                 Class!tables
    <2> QED  BY <2>2, <2>4, <2>5
  <1>7. CASE Class!WriteSubmits
    <2>1. PICK some \in SUBSET todo :
             /\ chunk' = some
             /\ classes' = Class!SetStorageClass(classes, some, Class!ClassOf(classPhase))
        BY <1>7 DEF Class!WriteSubmits
    <2>2. Class!ClassOf(classPhase) \in Class!Classes  BY DEF Class!ClassOf, Class!Classes
    <2>3. /\ classes' \in Seq(Class!Rows) /\ DOMAIN classes' = DOMAIN classes
          /\ \A i \in DOMAIN classes : classes'[i].root = classes[i].root
        BY <2>1, <2>2, SetStorageClassType DEF Class!TypeOK
    <2> QED
        BY <1>7, <2>1, <2>3
           DEF Class!WriteSubmits, Class!TypeOK, SeenUpToCursor, SeenAll, DemotesUnseen
  <1>8. CASE Class!WriteAddressSubmits
    <2>1. addressClasses' = Class!SetStorageClass(addressClasses, chunk, Class!ClassOf(classPhase))
        BY <1>8 DEF Class!WriteAddressSubmits
    <2>2. Class!ClassOf(classPhase) \in Class!Classes  BY DEF Class!ClassOf, Class!Classes
    <2>3. /\ addressClasses' \in Seq(Class!Rows) /\ DOMAIN addressClasses' = DOMAIN addressClasses
          /\ \A i \in DOMAIN addressClasses :
                addressClasses'[i].root = addressClasses[i].root
        BY <2>1, <2>2, SetStorageClassType DEF Class!TypeOK
    <2>4. torn' \subseteq Roots
        BY <1>8 DEF Class!WriteAddressSubmits, Class!Renewed, Class!TypeOK
    <2> QED
        BY <1>8, <2>3, <2>4
           DEF Class!WriteAddressSubmits, Class!TypeOK, SeenUpToCursor, SeenAll, DemotesUnseen
  <1>9. CASE Class!ListHotRootHashes
    <2>1. Class!ToDemote \subseteq Roots
      <3>1. \A i \in DOMAIN classes : classes[i] \in Class!Rows  BY DEF Class!TypeOK
      <3> QED  BY <3>1 DEF Class!ToDemote, Class!HotRoots, Class!Rows
    <2> QED
        BY <1>9, <2>1
           DEF Class!ListHotRootHashes, Class!ToDemote, Class!TypeOK, SeenUpToCursor, SeenAll,
               DemotesUnseen, Class!tables
  <1>10. CASE Class!EndCycle
    BY <1>10 DEF Class!EndCycle, Class!TypeOK, SeenUpToCursor, SeenAll, DemotesUnseen, Class!tables
  <1>11. CASE Class!CycleFails
    BY <1>11
       DEF Class!CycleFails, Class!TypeOK, SeenUpToCursor, SeenAll, DemotesUnseen, Class!tables
  <1>12. CASE UNCHANGED Class!vars
    BY <1>12
       DEF Class!vars, Class!tables, Class!worker, Class!TypeOK, SeenUpToCursor, SeenAll,
           DemotesUnseen
  <1> QED
      BY <1>1, <1>2, <1>3, <1>4, <1>5, <1>6, <1>7, <1>8, <1>9, <1>10, <1>11, <1>12
         DEF Class!Next, Class!Worker

-----------------------------------------------------------------------------
(* The action property.                                                     *)

\* Writing a class demotes only what is in the chunk, and only in its phase.
LEMMA WriteSpares ==
    ASSUME ClassIInv, NEW table \in Seq(Class!Rows), NEW some \in SUBSET todo,
           classPhase = "demote" => some \cap hotSet = {},
           classPhase \in {"promote", "demote"}
    PROVE  Class!SparesHeld(table, Class!SetStorageClass(table, some, Class!ClassOf(classPhase)))
  <1> DEFINE new == Class!SetStorageClass(table, some, Class!ClassOf(classPhase))
  <1> SUFFICES ASSUME NEW i \in DOMAIN table, Class!Demoted(table, new, i)
               PROVE  table[i].root \notin held
      BY DEF Class!SparesHeld
  <1>1. table[i] \in Class!Rows  OBVIOUS
  <1>2. new[i] = IF table[i].root \in some
                 THEN [table[i] EXCEPT !.class = Class!ClassOf(classPhase)]
                                            ELSE table[i]
      BY DEF Class!SetStorageClass
  <1>3. table[i].root \in some /\ Class!ClassOf(classPhase) = "standard"
      BY <1>1, <1>2 DEF Class!Demoted, Class!Rows
  <1>4. classPhase = "demote"  BY <1>3 DEF Class!ClassOf
  <1> QED  BY <1>3, <1>4 DEF ClassIInv, SeenAll

\* A table that keeps its rows, or the first of them, demotes nothing.
LEMMA NothingDemoted ==
    ASSUME NEW table, NEW new, \A i \in DOMAIN table \cap DOMAIN new : new[i] = table[i]
    PROVE  Class!SparesHeld(table, new)
  BY DEF Class!SparesHeld, Class!Demoted

\* No step demotes a held file, in either table.
LEMMA ClassStepSpares ==
    ASSUME Class!ConstantsOK
    PROVE  ClassIInv /\ [Class!Next]_(Class!vars) =>
              /\ Class!SparesHeld(classes, classes')
              /\ Class!SparesHeld(addressClasses, addressClasses')
  <1> SUFFICES ASSUME ClassIInv, [Class!Next]_(Class!vars)
               PROVE  /\ Class!SparesHeld(classes, classes')
                      /\ Class!SparesHeld(addressClasses, addressClasses')
      OBVIOUS
  <1>1. classes \in Seq(Class!Rows) /\ addressClasses \in Seq(Class!Rows)
      BY DEF ClassIInv, Class!TypeOK
  <1>2. CASE Class!WriteSubmits
    <2>1. PICK some \in SUBSET todo :
             classes' = Class!SetStorageClass(classes, some, Class!ClassOf(classPhase))
        BY <1>2 DEF Class!WriteSubmits
    <2>2. Class!SparesHeld(classes, classes')
        BY <1>1, <1>2, <2>1, WriteSpares DEF Class!WriteSubmits, ClassIInv, DemotesUnseen
    <2> QED  BY <1>2, <2>2, NothingDemoted DEF Class!WriteSubmits
  <1>3. CASE Class!WriteAddressSubmits
    <2>1. classPhase \in {"promote", "demote"} /\ chunk \in SUBSET todo
        BY <1>3 DEF Class!WriteAddressSubmits, ClassIInv, Class!TypeOK
    <2>2. Class!SparesHeld(addressClasses, addressClasses')
        BY <1>1, <1>3, <2>1, WriteSpares DEF Class!WriteAddressSubmits, ClassIInv, DemotesUnseen
    <2> QED  BY <1>3, <2>2, NothingDemoted DEF Class!WriteAddressSubmits
  <1>4. CASE \E r \in Roots : Class!Push(r)
    <2>1. PICK r \in Roots : Class!Push(r)  BY <1>4
    <2>2. \A i \in DOMAIN classes : classes'[i] = classes[i]
        BY <1>1, <2>1 DEF Class!Push
    <2>3. \A i \in DOMAIN addressClasses : addressClasses'[i] = addressClasses[i]
        BY <1>1, <2>1 DEF Class!Push
    <2> QED  BY <2>2, <2>3, NothingDemoted
  <1>5. CASE \E n \in 0..(Len(classes) - 1) : Class!Pop(n)
    <2>1. PICK n \in 0..(Len(classes) - 1) : Class!Pop(n)  BY <1>5
    <2>2. /\ classes' = SubSeq(classes, 1, n) /\ addressClasses' = SubSeq(addressClasses, 1, n)
          /\ Len(classes) = Len(addressClasses) /\ Len(classes) \in Nat
        BY <2>1 DEF Class!Pop, ClassIInv, Class!TypeOK
    <2>3. \A i \in DOMAIN classes' : classes'[i] = classes[i]
        BY <1>1, <2>2, SubSeqProperties
    <2>4. \A i \in DOMAIN addressClasses' : addressClasses'[i] = addressClasses[i]
        BY <1>1, <2>2, SubSeqProperties
    <2> QED  BY <2>3, <2>4, NothingDemoted
  <1>6. CASE UNCHANGED Class!tables
      BY <1>6, NothingDemoted DEF Class!tables
  <1> QED
      BY <1>2, <1>3, <1>4, <1>5, <1>6
         DEF Class!Next, Class!Worker, Class!vars, Class!tables, Class!CacheFile, Class!EvictFile,
             Class!StartCycle, Class!ListCachedFiles, Class!ListHotRootHashes, Class!EndCycle,
             Class!CycleFails

-----------------------------------------------------------------------------
(* The storage class.  Its cursor is a variable of several workers, so its  *)
(* invariant is claimed for the behaviours that run it.                     *)

ClassInv == worker = "class" => ClassIInv

LEMMA ClassInitInv == Init => ClassInv
  BY Constants, InitClassInv DEF Init, ClassInv

LEMMA ClassNextInv == ClassInv /\ [Next]_vars => ClassInv'
  <1> SUFFICES ASSUME ClassInv, [Next]_vars, worker' = "class" PROVE ClassIInv'
      BY DEF ClassInv
  <1>1. ClassIInv /\ worker = "class"  BY StepOfClass DEF ClassInv
  <1>2. CASE Class!Next
      BY <1>1, <1>2, Constants, StepClassInv
  <1>3. CASE UNCHANGED <<classVars, cursor, changes, faults>>
    <2>1. UNCHANGED Class!vars
        BY <1>3 DEF classVars, Class!vars, Class!tables, Class!worker
    <2> QED  BY <1>1, <2>1, Constants, StepClassInv
  <1> QED  BY <1>1, <1>2, <1>3, StepOfClass

\* The invariant of the storage class holds in every state of its behaviours.
THEOREM ClassInvariance == Spec => []ClassInv
  BY ClassInitInv, ClassNextInv, PTL DEF Spec

LEMMA StepSpares ==
    ClassInv /\ [Next]_vars => Class!SparesHeld(classes, classes')
                               /\ Class!SparesHeld(addressClasses, addressClasses')
  <1> SUFFICES ASSUME ClassInv, [Next]_vars
               PROVE  /\ Class!SparesHeld(classes, classes')
                      /\ Class!SparesHeld(addressClasses, addressClasses')
      OBVIOUS
  <1>1. CASE worker = "class" /\ Class!Next
      BY <1>1, Constants, ClassStepSpares DEF ClassInv
  <1>2. CASE UNCHANGED classVars
      BY <1>2, NothingDemoted DEF classVars
  <1> QED  BY <1>1, <1>2, StepOfClass

\* setStorageClassChunked never demotes a file that stayed in the hot set since the
\* cycle began, whatever runs beside it.
THEOREM Spared == Spec => CachedAreSpared
  <1>1. ClassInv /\ [Next]_vars =>
            [Class!SparesHeld(classes, classes')
             /\ Class!SparesHeld(addressClasses, addressClasses')]_(Class!vars)
      BY StepSpares
  <1> QED
      BY <1>1, ClassInvariance, PTL DEF Spec, CachedAreSpared, Class!CachedAreSpared

-----------------------------------------------------------------------------
(* Mining attempts.                                                         *)

\* What is counted lies below the cursor in memory, and the stored cursor is
\* never behind that one: it may have been stored without its counts.
CountedBelow ==
    /\ currentBn - 1 <= attemptsBn
    /\ \A m \in Miners : miningAttempts[m] <= Cardinality(Mining!AttemptsUpTo(currentBn - 1, m))

\* The range of a round starts at the cursor in memory.
MiningRangeOK == attemptsPhase # "range" => minPos = currentBn /\ minPos <= maxPos

DeltaOK ==
    attemptsPhase \in {"config", "commit"} =>
        delta = [m \in Miners |-> Cardinality({a \in Attempts : Mining!InRange(a) /\ By[a] = m})]

StoredFirst == attemptsPhase = "commit" => attemptsBn = maxPos

\* A failed round loses nothing: only a restart may.
CountedExactly ==
    /\ crashes \in Nat
    /\ crashes = 0 =>
          \A m \in Miners : miningAttempts[m] = Cardinality(Mining!AttemptsUpTo(currentBn - 1, m))

MiningInv ==
    /\ Mining!TypeOK
    /\ CountedBelow
    /\ CountedExactly
    /\ MiningRangeOK
    /\ DeltaOK
    /\ StoredFirst

-----------------------------------------------------------------------------
(* Numbers of attempts.                                                     *)

LEMMA AttemptsFinite ==
    ASSUME Mining!ConstantsOK, NEW S \in SUBSET Attempts
    PROVE  IsFiniteSet(S) /\ Cardinality(S) \in Nat
  BY FS_Subset, FS_CardinalityType, SameCardinality DEF Mining!ConstantsOK

\* A later block has at least as many attempts up to it.
LEMMA AttemptsGrow ==
    ASSUME Mining!ConstantsOK, NEW low \in Int, NEW high \in Int, low <= high, NEW m \in Miners
    PROVE  Cardinality(Mining!AttemptsUpTo(low, m)) <= Cardinality(Mining!AttemptsUpTo(high, m))
  <1>1. \A a \in Attempts : BlockOf[a] \in Int  BY DEF Mining!ConstantsOK
  <1>2. Mining!AttemptsUpTo(low, m) \subseteq Mining!AttemptsUpTo(high, m)
      BY <1>1 DEF Mining!AttemptsUpTo
  <1>3. IsFiniteSet(Mining!AttemptsUpTo(high, m))
      BY AttemptsFinite DEF Mining!AttemptsUpTo
  <1> QED  BY <1>2, <1>3, FS_Subset

\* The attempts up to the end of a range are those below it and those in it.
LEMMA AttemptsExtend ==
    ASSUME Mining!ConstantsOK, NEW low \in Int, NEW high \in Int, low <= high, NEW m \in Miners
    PROVE  Cardinality(Mining!AttemptsUpTo(high, m)) =
              Cardinality(Mining!AttemptsUpTo(low - 1, m)) +
              Cardinality({a \in Attempts : (low <= BlockOf[a] /\ BlockOf[a] <= high) /\ By[a] = m})
  <1> DEFINE Below == Mining!AttemptsUpTo(low - 1, m)
             Added == {a \in Attempts : (low <= BlockOf[a] /\ BlockOf[a] <= high) /\ By[a] = m}
  <1>1. \A a \in Attempts : BlockOf[a] \in Int  BY DEF Mining!ConstantsOK
  <1>2. IsFiniteSet(Below) /\ IsFiniteSet(Added)
        /\ Cardinality(Below) \in Nat /\ Cardinality(Added) \in Nat
      BY AttemptsFinite DEF Mining!AttemptsUpTo
  <1>3. \A a : a \in Mining!AttemptsUpTo(high, m) <=> a \in Below \/ a \in Added
      BY <1>1 DEF Mining!AttemptsUpTo
  <1>4. \A a : ~(a \in Below /\ a \in Added)
      BY <1>1 DEF Mining!AttemptsUpTo
  <1> HIDE DEF Below, Added
  <1>5. Mining!AttemptsUpTo(high, m) = Below \cup Added  BY <1>3
  <1>6. Below \cap Added = {}  BY <1>4
  <1>7. Cardinality(Below \cup Added) =
            Cardinality(Below) + Cardinality(Added) - Cardinality(Below \cap Added)
      BY <1>2, FS_Union
  <1>8. Cardinality(Below \cap Added) = 0  BY <1>6, FS_EmptySet, Zenon
  <1>9. Cardinality(Mining!AttemptsUpTo(high, m)) = Cardinality(Below \cup Added)  BY <1>5, Zenon
  <1>10. Cardinality(Mining!AttemptsUpTo(high, m)) = Cardinality(Below) + Cardinality(Added)
      BY <1>2, <1>7, <1>8, <1>9
  <1> QED  BY <1>10 DEF Below, Added

-----------------------------------------------------------------------------
(* The invariant.                                                           *)

LEMMA InitMiningInv == ASSUME Mining!ConstantsOK PROVE Mining!Init => MiningInv
  <1> SUFFICES ASSUME Mining!Init PROVE MiningInv  OBVIOUS
  <1>1. Mining!TypeOK  BY DEF Mining!ConstantsOK, Mining!Init, Mining!TypeOK, Mining!NoAttempts
  <1>3. \A m \in Miners : Cardinality(Mining!AttemptsUpTo(-1, m)) = 0
    <2> SUFFICES ASSUME NEW m \in Miners PROVE Cardinality(Mining!AttemptsUpTo(-1, m)) = 0
        OBVIOUS
    <2>1. \A a \in Attempts : ~(BlockOf[a] <= -1)
        BY DEF Mining!ConstantsOK
    <2>2. Mining!AttemptsUpTo(-1, m) = {}
        BY <2>1 DEF Mining!AttemptsUpTo
    <2> QED  BY <2>2, FS_EmptySet
  <1>4. CountedBelow /\ CountedExactly
    <2>1. currentBn - 1 = -1 /\ \A m \in Miners : miningAttempts[m] = 0
        BY DEF Mining!Init, Mining!NoAttempts
    <2> QED  BY <1>3, <2>1 DEF Mining!Init, CountedBelow, CountedExactly
  <1> QED  BY <1>1, <1>4 DEF Mining!Init, MiningInv, MiningRangeOK, DeltaOK, StoredFirst

LEMMA StepMiningInv ==
    ASSUME Mining!ConstantsOK
    PROVE  MiningInv /\ [Mining!Next]_(Mining!vars) => MiningInv'
  <1> SUFFICES ASSUME MiningInv, [Mining!Next]_(Mining!vars) PROVE MiningInv'  OBVIOUS
  <1> USE DEF MiningInv
  <1>1. CASE Mining!FinalizedPosMoves
    BY <1>1
       DEF Mining!ConstantsOK, Mining!FinalizedPosMoves, Mining!TypeOK, CountedBelow,
           CountedExactly, Mining!AttemptsUpTo, MiningRangeOK, DeltaOK, Mining!InRange,
           StoredFirst, Mining!dbVars, Mining!roundVars
  <1>2. CASE Mining!NextStatRange
    <2>1. maxPos' \in Nat /\ currentBn <= maxPos'
        BY <1>2 DEF Mining!ConstantsOK, Mining!NextStatRange, Mining!Reached, Mining!TypeOK
    <2> QED
        BY <1>2, <2>1
           DEF Mining!NextStatRange, Mining!TypeOK, CountedBelow, CountedExactly,
               Mining!AttemptsUpTo, MiningRangeOK, DeltaOK, StoredFirst, Mining!dbVars
  <1>3. CASE Mining!ReadAttempts
    <2>1. CASE attemptsPhase' = "range" /\ UNCHANGED delta
        BY <1>3, <2>1
           DEF Mining!ReadAttempts, Mining!TypeOK, CountedBelow, CountedExactly,
               Mining!AttemptsUpTo, MiningRangeOK, DeltaOK, StoredFirst, Mining!dbVars
    <2>2. CASE /\ delta' = [m \in Miners |->
                               Cardinality({a \in Attempts : Mining!InRange(a) /\ By[a] = m})]
               /\ attemptsPhase' = "config"
      <3>1. delta' \in [Miners -> Nat]  BY <2>2, AttemptsFinite
      <3>2. DeltaOK'  BY <1>3, <2>2 DEF Mining!ReadAttempts, DeltaOK, Mining!InRange
      <3> QED
          BY <1>3, <2>2, <3>1, <3>2
             DEF Mining!ReadAttempts, Mining!TypeOK, CountedBelow, CountedExactly,
                 Mining!AttemptsUpTo, MiningRangeOK, StoredFirst, Mining!dbVars
    <2> QED  BY <1>3, <2>1, <2>2, SameCardinality DEF Mining!ReadAttempts
  <1>4. CASE Mining!UpsertBn
    <2>1. currentBn - 1 <= maxPos  BY <1>4 DEF Mining!UpsertBn, MiningRangeOK, Mining!TypeOK
    <2> QED
        BY <1>4, <2>1
           DEF Mining!UpsertBn, Mining!TypeOK, CountedBelow, CountedExactly, Mining!AttemptsUpTo,
               MiningRangeOK, DeltaOK, Mining!InRange, StoredFirst
  <1>5. CASE Mining!Commit
    <2>1. /\ attemptsPhase = "commit" /\ currentBn' = maxPos + 1 /\ attemptsBn' = maxPos
          /\ miningAttempts' = [m \in Miners |-> miningAttempts[m] + delta[m]]
        BY <1>5
           DEF Mining!Commit, Mining!AddDelta, Mining!BatchDeltaUpsertMiningAttempts, StoredFirst
    <2>2. currentBn \in Int /\ maxPos \in Int /\ currentBn <= maxPos /\ minPos = currentBn
        BY <2>1 DEF MiningRangeOK, Mining!TypeOK
    <2>3. ASSUME NEW m \in Miners
          PROVE  /\ miningAttempts'[m] <= Cardinality(Mining!AttemptsUpTo(maxPos, m))
                 /\ crashes = 0 => miningAttempts'[m] = Cardinality(Mining!AttemptsUpTo(maxPos, m))
      <3>1. delta[m] = Cardinality({a \in Attempts :
                           (currentBn <= BlockOf[a] /\ BlockOf[a] <= maxPos) /\ By[a] = m})
          BY <2>1, <2>2 DEF DeltaOK, Mining!InRange
      <3>2. Cardinality(Mining!AttemptsUpTo(maxPos, m)) =
                Cardinality(Mining!AttemptsUpTo(currentBn - 1, m)) + delta[m]
          BY <2>2, <3>1, AttemptsExtend
      <3>3. /\ miningAttempts[m] <= Cardinality(Mining!AttemptsUpTo(currentBn - 1, m))
            /\ crashes = 0 => miningAttempts[m] = Cardinality(Mining!AttemptsUpTo(currentBn - 1, m))
          BY DEF CountedBelow, CountedExactly
      <3>4. Cardinality(Mining!AttemptsUpTo(currentBn - 1, m)) \in Nat
          BY AttemptsFinite DEF Mining!AttemptsUpTo
      <3> QED  BY <2>1, <3>2, <3>3, <3>4 DEF Mining!TypeOK
    <2>4. CountedBelow' /\ CountedExactly'
      <3>0. crashes' = crashes  BY <1>5 DEF Mining!Commit, Mining!AddDelta
      <3>1. currentBn' - 1 = maxPos  BY <2>1, <2>2
      <3>2. \A m \in Miners :
             Mining!AttemptsUpTo(currentBn - 1, m)' = Mining!AttemptsUpTo(maxPos, m)
          BY <3>1 DEF Mining!AttemptsUpTo
      <3> QED  BY <2>1, <2>2, <2>3, <3>0, <3>1, <3>2 DEF CountedBelow, CountedExactly
    <2>5. Mining!TypeOK'
        BY <1>5, <2>1 DEF Mining!Commit, Mining!AddDelta, Mining!TypeOK
    <2> QED
        BY <1>5, <2>4, <2>5 DEF Mining!Commit, Mining!AddDelta, MiningRangeOK, DeltaOK, StoredFirst
  <1>6. CASE Mining!RoundFails
    BY <1>6
       DEF Mining!RoundFails, Mining!TypeOK, CountedBelow, CountedExactly, Mining!AttemptsUpTo,
           MiningRangeOK, DeltaOK, StoredFirst, Mining!dbVars
  <1>7. CASE Mining!Restart
    <2>1. currentBn' = attemptsBn + 1 /\ UNCHANGED Mining!dbVars
        BY <1>7 DEF Mining!Restart, Mining!ResumeAt
    <2>2. ASSUME NEW m \in Miners
          PROVE  miningAttempts[m] <= Cardinality(Mining!AttemptsUpTo(attemptsBn, m))
      <3>1. Cardinality(Mining!AttemptsUpTo(currentBn - 1, m))
            <= Cardinality(Mining!AttemptsUpTo(attemptsBn, m))
          BY AttemptsGrow DEF CountedBelow, Mining!TypeOK
      <3>2. /\ Cardinality(Mining!AttemptsUpTo(currentBn - 1, m)) \in Nat
            /\ Cardinality(Mining!AttemptsUpTo(attemptsBn, m)) \in Nat
          BY AttemptsFinite DEF Mining!AttemptsUpTo
      <3> QED  BY <3>1, <3>2 DEF CountedBelow, Mining!TypeOK
    <2>3. CountedBelow' /\ CountedExactly'
      <3>0. crashes' \in Nat /\ crashes' # 0
          BY <1>7 DEF Mining!Restart, Mining!ResumeAt, CountedExactly
      <3>1. currentBn' - 1 = attemptsBn  BY <2>1 DEF Mining!TypeOK
      <3>2. \A m \in Miners :
             Mining!AttemptsUpTo(currentBn - 1, m)' = Mining!AttemptsUpTo(attemptsBn, m)
          BY <3>1 DEF Mining!AttemptsUpTo
      <3> QED
          BY <2>1, <2>2, <3>0, <3>1, <3>2
             DEF CountedBelow, CountedExactly, Mining!TypeOK, Mining!dbVars
    <2> QED
        BY <1>7, <2>3
           DEF Mining!Restart, Mining!ResumeAt, Mining!TypeOK, MiningRangeOK, DeltaOK,
               StoredFirst, Mining!dbVars
  <1>8. CASE UNCHANGED Mining!vars
    BY <1>8
       DEF Mining!vars, Mining!dbVars, Mining!roundVars, Mining!TypeOK, CountedBelow,
           CountedExactly, Mining!AttemptsUpTo, MiningRangeOK, DeltaOK, Mining!InRange,
           StoredFirst
  <1> QED  BY <1>1, <1>2, <1>3, <1>4, <1>5, <1>6, <1>7, <1>8 DEF Mining!Next, Mining!Round

\* The invariant bounds the counters by the stored cursor.
LEMMA InvCounted == ASSUME Mining!ConstantsOK PROVE MiningInv => Mining!CountedAtMostOnce
  <1> SUFFICES ASSUME MiningInv, NEW m \in Miners
               PROVE  miningAttempts[m] <= Cardinality(Mining!AttemptsUpTo(attemptsBn, m))
      BY SameCardinality DEF Mining!CountedAtMostOnce
  <1>1. Cardinality(Mining!AttemptsUpTo(currentBn - 1, m))
            <= Cardinality(Mining!AttemptsUpTo(attemptsBn, m))
      BY AttemptsGrow, SameCardinality DEF MiningInv, CountedBelow, Mining!TypeOK
  <1>2. /\ Cardinality(Mining!AttemptsUpTo(currentBn - 1, m)) \in Nat
        /\ Cardinality(Mining!AttemptsUpTo(attemptsBn, m)) \in Nat
      BY AttemptsFinite DEF Mining!AttemptsUpTo
  <1> QED  BY <1>1, <1>2 DEF MiningInv, CountedBelow, Mining!TypeOK

-----------------------------------------------------------------------------
(* Until the first restart.                                                 *)

LEMMA MiningCountCardinality == ASSUME NEW S PROVE Mining!Count!Cardinality(S) = Cardinality(S)
  BY DEF Mining!Count!Cardinality, Cardinality

\* Exact counters are those of the abstract count at the cursor in memory.
LEMMA ExactIsAbstract ==
    ASSUME Mining!ConstantsOK
    PROVE  Mining!TypeOK /\ CountedExactly /\ crashes = 0 =>
               currentBn \in Nat /\ miningAttempts = Mining!Count!CountsBelow(currentBn)
  <1> SUFFICES ASSUME Mining!TypeOK, CountedExactly, crashes = 0
               PROVE  currentBn \in Nat /\ miningAttempts = Mining!Count!CountsBelow(currentBn)
      OBVIOUS
  <1>1. \A m \in Miners :
           Mining!AttemptsUpTo(currentBn - 1, m) = Mining!Count!ItemsBelow(currentBn, m)
    <2> TAKE m \in Miners
    <2>1. \A a \in Attempts : BlockOf[a] <= currentBn - 1 <=> BlockOf[a] < currentBn
        BY DEF Mining!ConstantsOK, Mining!TypeOK
    <2> QED  BY <2>1 DEF Mining!AttemptsUpTo, Mining!Count!ItemsBelow
  <1>2. miningAttempts = [m \in Miners |-> Cardinality(Mining!AttemptsUpTo(currentBn - 1, m))]
      BY DEF Mining!TypeOK, CountedExactly
  <1>3. miningAttempts = [m \in Miners |-> Cardinality(Mining!Count!ItemsBelow(currentBn, m))]
      BY <1>1, <1>2
  <1> QED  BY <1>3, MiningCountCardinality DEF Mining!TypeOK, Mining!Count!CountsBelow

\* A step before the first restart counts a range, or leaves counters and cursor alone.
LEMMA StepCounts ==
    ASSUME Mining!ConstantsOK
    PROVE  MiningInv /\ MiningInv' /\ [Mining!Next]_(Mining!vars) /\ crashes' = 0 =>
               [Mining!Count!CountRange]_<<currentBn, miningAttempts>>
  <1> SUFFICES ASSUME MiningInv, MiningInv', [Mining!Next]_(Mining!vars), crashes' = 0
               PROVE  [Mining!Count!CountRange]_<<currentBn, miningAttempts>>
      OBVIOUS
  <1>1. CASE Mining!Commit
    <2>1. (currentBn \in Nat /\ miningAttempts = Mining!Count!CountsBelow(currentBn))'
      <3>1. (Mining!TypeOK /\ CountedExactly /\ crashes = 0)'  BY DEF MiningInv
      <3> QED  BY <3>1, ExactIsAbstract, PTL
    <2>2. currentBn < currentBn'
        BY <1>1 DEF Mining!Commit, Mining!AddDelta, MiningInv, MiningRangeOK, Mining!TypeOK
    <2> QED  BY <2>1, <2>2 DEF Mining!Count!CountRange
  <1>2. CASE Mining!Restart
      BY <1>2 DEF Mining!Restart, Mining!ResumeAt, MiningInv, CountedExactly
  <1>3. CASE ~Mining!Commit /\ ~Mining!Restart
    <2>1. UNCHANGED <<currentBn, miningAttempts>>
        BY <1>3
           DEF Mining!Next, Mining!Round, Mining!vars, Mining!dbVars, Mining!roundVars,
               Mining!FinalizedPosMoves, Mining!NextStatRange, Mining!ReadAttempts,
               Mining!UpsertBn, Mining!RoundFails
    <2> QED  BY <2>1
  <1> QED  BY <1>1, <1>2, <1>3

LEMMA MiningInitInv == Init => MiningInv
  BY Constants, InitMiningInv DEF Init

LEMMA OthersKeepMining == MiningInv /\ UNCHANGED miningVars => MiningInv'
  BY DEF miningVars, MiningInv, Mining!TypeOK, CountedBelow,
         CountedExactly,
         Mining!AttemptsUpTo, MiningRangeOK, DeltaOK,
         Mining!InRange, StoredFirst

LEMMA MiningNextInv == MiningInv /\ [Next]_vars => MiningInv'
  BY Constants, StepOfMining, OthersKeepMining, StepMiningInv

\* The invariant of the count of mining attempts holds in every state.
THEOREM MiningInvariance == Spec => []MiningInv
  BY MiningInitInv, MiningNextInv, PTL DEF Spec

\* syncMinerAttempts never counts an attempt twice, though its cursor is stored
\* outside its transaction, and whatever runs beside it.
THEOREM AtMostOnce == Spec => []CountedAtMostOnce
  <1>1. MiningInv => CountedAtMostOnce
      BY Constants, InvCounted DEF CountedAtMostOnce
  <1> QED  BY <1>1, MiningInvariance, PTL

\* Until the first restart syncMinerAttempts implements the exactly-once count: a
\* round that fails, also after its cursor was stored, loses nothing.
THEOREM OnceWhileRunning == Spec => CountsOnceWhileRunning
  <1>1. MiningInv /\ MiningInv' /\ [Next]_vars =>
            [crashes' = 0 => Mining!Count!CountRange]_<<currentBn, miningAttempts>>
    <2>1. MiningInv /\ MiningInv' /\ Mining!Next /\ crashes' = 0 =>
              [Mining!Count!CountRange]_<<currentBn, miningAttempts>>
        BY Constants, StepCounts
    <2>2. UNCHANGED miningVars => UNCHANGED <<currentBn, miningAttempts>>
        BY DEF miningVars
    <2> QED  BY <2>1, <2>2, StepOfMining
  <1> QED
      BY <1>1, MiningInvariance, PTL
         DEF Spec, CountsOnceWhileRunning, Mining!CountsOnceWhileRunning

-----------------------------------------------------------------------------
(* L1Txs.  Its invariant speaks of every index a cursor has passed, also of  *)
(* those whose rows a reorganisation takes away and brings back.             *)

SubmitRows == [fork : Nat, extra : Nat, gas : BOOLEAN]
BatchRows == [id : Nat \ {0}, row : SubmitRows]

L1Type ==
    /\ chain \in Seq(Nat) /\ submits \in Seq(SubmitRows)
    /\ batch \in Seq(BatchRows)
    /\ reorgs \in Nat /\ prunedTo \in Nat /\ patchedId \in Nat /\ currentSubmitId \in Nat \ {0}
    /\ phase \in {"ask", "update", "cursor"} /\ (phase # "ask" => batch # <<>>)

\* The chain has no submission of the first fork at i any more, and never will.
Lost(i) == reorgs > 0 /\ (i \in DOMAIN chain => chain[i] # 0)

\* Behind the first replaced submission all are replaced.
ForksInOrder ==
    /\ \A i \in DOMAIN chain : chain[i] # 0 => reorgs > 0
    /\ \A i, j \in DOMAIN chain : i <= j /\ chain[i] # 0 => chain[j] # 0

\* A row was on the chain once; a row of a later fork has replaced another.
RowsKnown ==
    /\ \A i \in DOMAIN submits : i \in DOMAIN chain \/ reorgs > 0
    /\ \A i \in DOMAIN submits : submits[i].fork # 0 => Lost(i)

\* The batch is a run of indexes, whose rows are there unless they were replaced.
BatchKnown ==
    \A k \in DOMAIN batch :
        /\ batch[k].id = batch[1].id + k - 1
        /\ batch[k].row.fork # 0 => Lost(batch[k].id)
        /\ batch[k].id \in DOMAIN submits \/ Lost(batch[k].id)

\* Nothing is left to do for the row at i.
DoneWith(i) == Lost(i) \/ i <= prunedTo \/ (i \in DOMAIN submits /\ submits[i].gas)

\* What either cursor, or the position in the batch, has passed is done with.
PassedDone ==
    \A i \in Nat \ {0} :
        \/ i <= patchedId \/ i < currentSubmitId
        \/ batch # <<>> /\ i < batch[1].id
        \/ phase = "cursor" /\ i = batch[1].id
        => DoneWith(i)

L1Inv == L1Type /\ ForksInOrder /\ RowsKnown /\ BatchKnown /\ PassedDone

LEMMA L1InitInv == L1!Init => L1Inv
  BY DEF L1!Init, L1Inv, L1Type, ForksInOrder, RowsKnown, BatchKnown, PassedDone, DoneWith,
         Lost, SubmitRows

\* The first of a sequence, and the rest.
LEMMA HeadAndTail ==
    ASSUME NEW S, NEW s \in Seq(S), s # <<>>
    PROVE  /\ Len(s) \in Nat \ {0} /\ 1 \in DOMAIN s /\ Head(s) = s[1] /\ s[1] \in S
           /\ Tail(s) \in Seq(S) /\ DOMAIN Tail(s) = 1..(Len(s) - 1)
           /\ \A k \in 1..(Len(s) - 1) : Tail(s)[k] = s[k + 1]
           /\ Tail(s) # <<>> => Len(s) # 1
  <1>1. Len(s) \in Nat /\ DOMAIN s = 1..Len(s)
      OBVIOUS
  <1>2. Len(s) # 0
      BY EmptySeq
  <1>3. Len(s) \in Nat \ {0} /\ 1 \in DOMAIN s /\ s[1] \in S
      BY <1>1, <1>2
  <1>4. Head(s) = s[1]
      OBVIOUS
  <1>5. /\ Tail(s) \in Seq(S) /\ Len(Tail(s)) = Len(s) - 1
        /\ \A k \in 1..Len(Tail(s)) : Tail(s)[k] = s[k + 1]
      BY HeadTailProperties
  <1>6. DOMAIN Tail(s) = 1..Len(Tail(s))
      BY <1>5
  <1>7. Tail(s) # <<>> => Len(Tail(s)) # 0
      BY <1>5, EmptySeq
  <1> QED BY <1>1, <1>3, <1>4, <1>5, <1>6, <1>7

LEMMA L1InvPassed == L1Inv => L1!PassedArePatched
  <1> SUFFICES ASSUME L1Inv, NEW i \in DOMAIN submits, L1!Untouched(i),
                      i <= patchedId \/ i < currentSubmitId
               PROVE  L1!Patched(i)
      BY DEF L1!PassedArePatched
  <1>1. i \in Nat \ {0}
      BY DEF L1Inv, L1Type
  <1>2. DoneWith(i) BY <1>1 DEF L1Inv, PassedDone
  <1> QED
      BY <1>1, <1>2 DEF L1Inv, L1Type, RowsKnown, PassedDone, DoneWith, Lost,
                        L1!PassedArePatched, L1!Untouched, L1!Patched, SubmitRows

LEMMA L1NextInv == L1!ConstantsOK /\ L1Inv /\ [L1!Next]_(L1!vars) => L1Inv'
  <1> SUFFICES ASSUME L1!ConstantsOK, L1Inv, [L1!Next]_(L1!vars) PROVE L1Inv'
      OBVIOUS
  <1> USE DEF L1Inv
  <1>a. /\ DOMAIN chain = 1..Len(chain) /\ DOMAIN submits = 1..Len(submits)
        /\ DOMAIN batch = 1..Len(batch)
        /\ Len(chain) \in Nat /\ Len(submits) \in Nat /\ Len(batch) \in Nat
      BY DEF L1Type
  <1>b. ASSUME batch # <<>>
        PROVE  /\ Len(batch) \in Nat \ {0} /\ 1 \in DOMAIN batch /\ Head(batch) = batch[1]
               /\ batch[1].id \in Nat \ {0} /\ batch[1].row.fork \in Nat
               /\ Tail(batch) \in Seq(BatchRows) /\ DOMAIN Tail(batch) = 1..(Len(batch) - 1)
               /\ \A k \in 1..(Len(batch) - 1) : Tail(batch)[k] = batch[k + 1]
               /\ Tail(batch) # <<>> => Len(batch) # 1
    <2>1. batch \in Seq(BatchRows)
        BY DEF L1Type
    <2>2. batch[1] \in BatchRows
        BY <1>b, <2>1, HeadAndTail
    <2>3. batch[1].id \in Nat \ {0} /\ batch[1].row.fork \in Nat
        BY <2>2 DEF BatchRows, SubmitRows
    <2> QED
        BY <1>b, <2>1, <2>3, HeadAndTail
  <1>1. CASE L1!Submit
    <2>1. /\ chain' \in Seq(Nat) /\ Len(chain') = Len(chain) + 1
          /\ DOMAIN chain' = 1..(Len(chain) + 1)
          /\ \A i \in DOMAIN chain' : chain'[i] = IF i <= Len(chain) THEN chain[i] ELSE reorgs
        BY <1>1 DEF L1!Submit, L1Type
    <2>2. UNCHANGED <<prunedTo, submits, patchedId, L1!patcher, reorgs, faults>>
        BY <1>1 DEF L1!Submit
    <2>3. \A i : Lost(i) => Lost(i)'
        BY <1>a, <2>1, <2>2 DEF Lost
    <2>4. ForksInOrder'
        BY <1>a, <2>1, <2>2 DEF ForksInOrder, L1Type
    <2>5. L1Type'
        BY <2>1, <2>2 DEF L1Type, L1!patcher
    <2>6. RowsKnown' /\ BatchKnown' /\ PassedDone'
        BY <1>a, <2>1, <2>2, <2>3 DEF RowsKnown, BatchKnown, PassedDone, DoneWith,
                                      L1!patcher
    <2> QED BY <2>4, <2>5, <2>6
  <1>2. ASSUME NEW n \in 0..(Len(chain) - 1), L1!Reorg(n) PROVE L1Inv'
    <2>1. /\ chain' \in Seq(Nat) /\ Len(chain') = n
          /\ DOMAIN chain' = 1..n
          /\ \A i \in DOMAIN chain' : chain'[i] = chain[i]
      <3>1. n \in Nat /\ n <= Len(chain) /\ chain \in Seq(Nat)
          BY <1>a DEF L1Type
      <3>2. chain' = SubSeq(chain, 1, n)
          BY <1>2 DEF L1!Reorg
      <3> QED
          BY <3>1, <3>2
    <2>2. /\ UNCHANGED <<prunedTo, submits, patchedId, L1!patcher, faults>>
          /\ reorgs' = reorgs + 1
          /\ reorgs' \in Nat /\ reorgs' > 0
        BY <1>2 DEF L1!Reorg, L1Type
    <2>3. \A i : Lost(i) => Lost(i)'
        BY <1>a, <2>1, <2>2 DEF Lost
    <2>4. ForksInOrder'
        BY <1>a, <2>1, <2>2 DEF ForksInOrder
    <2>5. L1Type'
        BY <2>1, <2>2 DEF L1Type, L1!patcher
    <2>6. RowsKnown' /\ BatchKnown' /\ PassedDone'
        BY <2>2, <2>3 DEF RowsKnown, BatchKnown, PassedDone, DoneWith, L1!patcher
    <2> QED BY <2>4, <2>5, <2>6
  <1>3. CASE L1!PruneTx
    <2>1. /\ prunedTo' = prunedTo + 1
          /\ UNCHANGED <<chain, submits, patchedId, L1!patcher, reorgs>>
        BY <1>3 DEF L1!PruneTx
    <2> QED
        BY <2>1 DEF L1Type, ForksInOrder, RowsKnown, BatchKnown, PassedDone, DoneWith, Lost,
                    L1!patcher
  <1>4. CASE L1!Push
    <2>1. /\ submits' = Append(submits, L1!Row(chain[Len(submits) + 1]))
          /\ Len(submits) < Len(chain)
          /\ UNCHANGED <<chain, prunedTo, patchedId, L1!patcher, reorgs>>
        BY <1>4 DEF L1!Push
    <2> DEFINE new == Len(submits) + 1
    <2>2. /\ new \in DOMAIN chain /\ L1!Row(chain[new]) \in SubmitRows
          /\ L1!Row(chain[new]).fork = chain[new]
        BY <1>a, <2>1 DEF L1Type, L1!Row, SubmitRows
    <2>3. /\ submits' \in Seq(SubmitRows) /\ DOMAIN submits' = 1..new
          /\ \A i \in 1..Len(submits) : submits'[i] = submits[i]
          /\ submits'[new] = L1!Row(chain[new])
        BY <2>1, <2>2 DEF L1Type
    <2>4. RowsKnown'
        BY <1>a, <2>1, <2>2, <2>3 DEF RowsKnown, Lost, ForksInOrder
    <2>5. L1Type' /\ ForksInOrder'
        BY <2>1, <2>3 DEF L1Type, L1!patcher, ForksInOrder
    <2>6. BatchKnown' /\ PassedDone'
        BY <1>a, <2>1, <2>3 DEF BatchKnown, PassedDone, DoneWith, Lost, L1!patcher
    <2> QED BY <2>4, <2>5, <2>6
  <1>5. CASE L1!Pop
    <2>1. PICK n \in 0..(Len(submits) - 1) :
               /\ L1!OnChain(SubSeq(submits, 1, n)) /\ ~L1!OnChain(SubSeq(submits, 1, n + 1))
               /\ submits' = SubSeq(submits, 1, n)
        BY <1>5 DEF L1!Pop
    <2>2. UNCHANGED <<chain, prunedTo, patchedId, L1!patcher, reorgs>>
        BY <1>5 DEF L1!Pop
    <2>3. /\ submits' \in Seq(SubmitRows) /\ DOMAIN submits' = 1..n
          /\ \A i \in 1..n : submits'[i] = submits[i]
        BY <1>a, <2>1 DEF L1Type
    <2>4. n + 1 \in DOMAIN submits
          /\ (n + 1 \in DOMAIN chain => submits[n + 1].fork # chain[n + 1])
      <3>1. /\ DOMAIN SubSeq(submits, 1, n + 1) = 1..(n + 1)
            /\ Len(SubSeq(submits, 1, n + 1)) = n + 1
            /\ \A i \in 1..(n + 1) : SubSeq(submits, 1, n + 1)[i] = submits[i]
            /\ DOMAIN SubSeq(submits, 1, n) = 1..n /\ Len(SubSeq(submits, 1, n)) = n
            /\ \A i \in 1..n : SubSeq(submits, 1, n)[i] = submits[i]
          BY <1>a, <2>1 DEF L1Type
      <3> QED BY <1>a, <2>1, <3>1 DEF L1!OnChain
    <2>5. Lost(n + 1)
        BY <1>a, <2>4 DEF RowsKnown, Lost, ForksInOrder, L1Type, SubmitRows
    <2>6. \A i \in DOMAIN submits : i \in DOMAIN submits' \/ Lost(i)
        BY <1>a, <2>1, <2>3, <2>5 DEF Lost, ForksInOrder
    <2>7. L1Type' /\ ForksInOrder' /\ RowsKnown'
        BY <1>a, <2>2, <2>3 DEF L1Type, ForksInOrder, RowsKnown, Lost, L1!patcher
    <2>8. BatchKnown'
        BY <2>2, <2>6 DEF BatchKnown, Lost, L1!patcher
    <2>9. PassedDone'
        BY <1>a, <2>2, <2>3, <2>6 DEF PassedDone, DoneWith, Lost, L1!patcher
    <2> QED BY <2>7, <2>8, <2>9
  <1>6. CASE L1!QueryAscWithCursor
    <2>1. PICK last \in Nat :
            /\ currentSubmitId <= last /\ last <= Len(submits)
            /\ batch' = [k \in 1..(last - currentSubmitId + 1) |->
                     [id |-> currentSubmitId + k - 1, row |-> submits[currentSubmitId + k - 1]]]
      <3> DEFINE last == IF Len(submits) < currentSubmitId + L1Batch - 1
                     THEN Len(submits) ELSE currentSubmitId + L1Batch - 1
      <3>1. last \in Nat /\ currentSubmitId <= last /\ last <= Len(submits)
          BY <1>a, <1>6 DEF L1!QueryAscWithCursor, L1Type, L1!ConstantsOK
      <3>2. batch' = [k \in 1..(last - currentSubmitId + 1) |->
                     [id |-> currentSubmitId + k - 1, row |-> submits[currentSubmitId + k - 1]]]
          BY <1>6 DEF L1!QueryAscWithCursor
      <3> QED BY <3>1, <3>2
    <2>2. /\ batch = <<>>
          /\ UNCHANGED <<chain, prunedTo, submits, patchedId, currentSubmitId, phase, reorgs>>
        BY <1>6 DEF L1!QueryAscWithCursor
    <2>3. phase = "ask"
        BY <2>2 DEF L1Type
    <2> DEFINE size == last - currentSubmitId + 1
    <2>4. size \in Nat \ {0} /\ currentSubmitId \in Nat \ {0}
        BY <2>1 DEF L1Type
    <2>5. \A k \in 1..size : currentSubmitId + k - 1 \in DOMAIN submits
        BY <1>a, <2>1, <2>4
    <2>6. batch' \in Seq(BatchRows)
      <3>1. \A k \in 1..size : batch'[k] \in BatchRows
          BY <1>a, <2>1, <2>4, <2>5 DEF L1Type, BatchRows
      <3>2. size \in Nat /\ batch' = [k \in 1..size |-> batch'[k]]
          BY <2>1, <2>4
      <3> HIDE DEF size
      <3> QED BY <3>1, <3>2
    <2>7. DOMAIN batch' = 1..size /\ batch' # <<>>
          /\ \A k \in 1..size : batch'[k] = [id |-> currentSubmitId + k - 1,
                                          row |-> submits[currentSubmitId + k - 1]]
        BY <2>1, <2>4
    <2>8. batch'[1].id = currentSubmitId
        BY <2>4, <2>7
    <2>9. L1Type' /\ ForksInOrder' /\ RowsKnown'
        BY <2>2, <2>3, <2>6 DEF L1Type, ForksInOrder, RowsKnown, Lost
    <2>10. BatchKnown'
        BY <2>2, <2>4, <2>5, <2>7, <2>8 DEF BatchKnown, RowsKnown, Lost
    <2>11. PassedDone'
        BY <2>2, <2>3, <2>8 DEF PassedDone, DoneWith, Lost
    <2> QED BY <2>9, <2>10, <2>11
  <1>7. ASSUME batch # <<>>, DoneWith(Head(batch).id), L1!Advance,
               UNCHANGED <<chain, prunedTo, submits, reorgs>>,
               patchedId' = patchedId \/ patchedId' = Head(batch).id
        PROVE  L1Inv'
    <2>1. /\ Len(batch) \in Nat \ {0} /\ Head(batch) = batch[1] /\ batch[1].id \in Nat \ {0}
        BY <1>b, <1>7
    <2>2. /\ batch' = Tail(batch) /\ batch' \in Seq(BatchRows)
          /\ DOMAIN batch' = 1..(Len(batch) - 1)
          /\ \A k \in 1..(Len(batch) - 1) : batch'[k] = batch[k + 1]
          /\ batch' # <<>> => Len(batch) # 1
        BY <1>7, <1>b DEF L1!Advance
    <2>3. /\ phase' = "ask"
          /\ currentSubmitId' = currentSubmitId \/ currentSubmitId' = batch[1].id + 1
        BY <1>7, <2>1 DEF L1!Advance
    <2>4. batch' # <<>> => batch'[1].id = batch[1].id + 1
      <3> SUFFICES ASSUME batch' # <<>> PROVE batch'[1].id = batch[1].id + 1
          OBVIOUS
      <3>1. 1 \in 1..(Len(batch) - 1) /\ 2 \in DOMAIN batch
          BY <1>a, <2>1, <2>2
      <3>2. batch'[1] = batch[1 + 1] BY <2>2, <3>1
      <3>3. batch[2].id = batch[1].id + 2 - 1 BY <3>1 DEF BatchKnown
      <3> QED BY <2>1, <3>2, <3>3
    <2>5. L1Type' /\ ForksInOrder' /\ RowsKnown'
        BY <1>7, <2>1, <2>2, <2>3 DEF L1Type, ForksInOrder, RowsKnown, Lost
    <2>6. BatchKnown'
      <3> SUFFICES ASSUME NEW k \in 1..(Len(batch) - 1)
                   PROVE  /\ batch'[k].id = batch'[1].id + k - 1
                          /\ batch'[k].row.fork # 0 => Lost(batch'[k].id)
                          /\ batch'[k].id \in DOMAIN submits \/ Lost(batch'[k].id)
          BY <1>7, <2>2 DEF BatchKnown, Lost
      <3>1. k + 1 \in DOMAIN batch /\ batch'[k] = batch[k + 1]
          BY <1>a, <2>1, <2>2
      <3>2. /\ batch[k + 1].id = batch[1].id + (k + 1) - 1
            /\ batch[k + 1].row.fork # 0 => Lost(batch[k + 1].id)
            /\ batch[k + 1].id \in DOMAIN submits \/ Lost(batch[k + 1].id)
          BY <3>1 DEF BatchKnown
      <3>3. batch'[1].id = batch[1].id + 1
        <4>1. batch' # <<>>
          <5>1. k \in DOMAIN batch' BY <2>2
          <5>2. DOMAIN <<>> = {} OBVIOUS
          <5> QED BY <5>1, <5>2
        <4> QED BY <2>4, <4>1
      <3> QED BY <2>1, <3>1, <3>2, <3>3
    <2>7. PassedDone'
      <3> SUFFICES ASSUME NEW i \in Nat \ {0},
                          \/ i <= patchedId' \/ i < currentSubmitId'
                          \/ batch' # <<>> /\ i < batch'[1].id
                   PROVE  DoneWith(i)'
          BY <2>3 DEF PassedDone
      <3>1. i <= patchedId \/ i < currentSubmitId \/ i < batch[1].id \/ i = batch[1].id
          BY <1>7, <2>1, <2>3, <2>4 DEF L1Type
      <3>2. DoneWith(i)
          BY <1>7, <2>1, <3>1 DEF PassedDone
      <3> QED BY <1>7, <3>2 DEF DoneWith, Lost
    <2> QED BY <2>5, <2>6, <2>7
  <1>8. CASE L1!GetTransaction
    <2>1. /\ batch # <<>> /\ phase = "ask"
          /\ UNCHANGED <<chain, prunedTo, submits, patchedId, reorgs>>
        BY <1>8 DEF L1!GetTransaction
    <2>2. CASE /\ L1!Known(Head(batch)) /\ phase' = "update"
               /\ UNCHANGED <<batch, currentSubmitId>>
        BY <2>1, <2>2 DEF L1Type, ForksInOrder, RowsKnown, BatchKnown, PassedDone, DoneWith,
                          Lost
    <2>3. CASE ~L1!Known(Head(batch)) /\ L1!Advance
      <3>1. /\ Head(batch) = batch[1] /\ 1 \in DOMAIN batch
            /\ batch[1].id \in Nat \ {0} /\ batch[1].row.fork \in Nat
          BY <1>b, <2>1
      <3>2. batch[1].id > Len(chain) => Lost(batch[1].id)
          BY <1>a, <3>1 DEF Lost, BatchKnown, RowsKnown
      <3>3. batch[1].id \in DOMAIN chain /\ batch[1].row.fork # chain[batch[1].id]
                => Lost(batch[1].id)
          BY <3>1 DEF Lost, BatchKnown, ForksInOrder
      <3>4. DoneWith(batch[1].id)
          BY <1>a, <2>3, <3>1, <3>2, <3>3 DEF L1!Known, DoneWith, L1Type
      <3> QED BY <1>7, <2>1, <2>3, <3>1, <3>4
    <2> QED BY <1>8, <2>2, <2>3 DEF L1!GetTransaction
  <1>9. CASE L1!UpdateExtra
    <2>1. /\ phase = "update" /\ batch # <<>> /\ phase' = "cursor"
          /\ UNCHANGED <<chain, prunedTo, patchedId, batch, currentSubmitId, reorgs>>
        BY <1>9 DEF L1!UpdateExtra, L1Type
    <2>2. /\ Head(batch) = batch[1] /\ 1 \in DOMAIN batch
          /\ batch[1].id \in Nat \ {0} /\ batch[1].row.fork \in Nat
        BY <1>b, <2>1
    <2>3. /\ submits' \in Seq(SubmitRows) /\ DOMAIN submits' = DOMAIN submits
          /\ \A i \in DOMAIN submits : /\ submits'[i].fork = submits[i].fork
                                       /\ submits[i].gas => submits'[i].gas
                                       /\ i = batch[1].id => submits'[i].gas
      <3>1. submits' = [i \in DOMAIN submits |->
                           IF i = batch[1].id
                           THEN [submits[i] EXCEPT !.extra = batch[1].row.fork, !.gas = TRUE]
                           ELSE submits[i]]
          BY <1>9, <2>2 DEF L1!UpdateExtra
      <3>2. \A i \in DOMAIN submits : submits[i] \in SubmitRows
          BY DEF L1Type
      <3>3. \A i \in DOMAIN submits :
               /\ submits'[i] \in SubmitRows /\ submits'[i].fork = submits[i].fork
               /\ submits[i].gas => submits'[i].gas
               /\ i = batch[1].id => submits'[i].gas
          BY <2>2, <3>1, <3>2 DEF SubmitRows
      <3>4. DOMAIN submits' = DOMAIN submits BY <3>1
      <3>5. submits' \in Seq(SubmitRows)
        <4>1. submits' = [i \in 1..Len(submits) |-> submits'[i]] BY <1>a, <3>1
        <4>2. \A i \in 1..Len(submits) : submits'[i] \in SubmitRows BY <1>a, <3>3
        <4> QED BY <1>a, <4>1, <4>2
      <3> QED BY <3>3, <3>4, <3>5
    <2>4. \A i : DoneWith(i) => DoneWith(i)'
        BY <2>1, <2>3 DEF DoneWith, Lost
    <2>5. DoneWith(batch[1].id)'
        BY <2>1, <2>2, <2>3 DEF BatchKnown, DoneWith, Lost
    <2>6. PassedDone'
        BY <2>1, <2>4, <2>5 DEF PassedDone
    <2> QED BY <2>1, <2>3, <2>6 DEF L1Type, ForksInOrder, RowsKnown, BatchKnown, Lost
  <1>10. CASE L1!UpsertCursor
    <2>1. /\ phase = "cursor" /\ batch # <<>> /\ patchedId' = Head(batch).id /\ L1!Advance
          /\ UNCHANGED <<chain, prunedTo, submits, reorgs>>
        BY <1>10 DEF L1!UpsertCursor, L1Type
    <2>2. Head(batch) = batch[1] /\ batch[1].id \in Nat \ {0}
        BY <1>b, <2>1
    <2> QED BY <1>7, <2>1, <2>2 DEF PassedDone
  <1>11. CASE L1!CallFails \/ L1!Restart
    <2>1. /\ batch' = <<>> /\ phase' = "ask"
          /\ UNCHANGED <<chain, prunedTo, submits, patchedId, reorgs>>
          /\ currentSubmitId' = currentSubmitId \/ currentSubmitId' = patchedId + 1
        BY <1>11 DEF L1!CallFails, L1!Restart
    <2> QED
        BY <2>1 DEF L1Type, ForksInOrder, RowsKnown, BatchKnown, PassedDone, DoneWith, Lost
  <1>12. CASE UNCHANGED L1!vars
      BY <1>12 DEF L1!vars, L1!patcher, L1Type, ForksInOrder, RowsKnown, BatchKnown,
                   PassedDone, DoneWith, Lost
  <1> QED
      BY <1>1, <1>2, <1>3, <1>4, <1>5, <1>6, <1>8, <1>9, <1>10, <1>11, <1>12 DEF L1!Next,
                                                                                 L1!Follow,
                                                                                 L1!Worker

LEMMA StepOfL1 == [Next]_vars => [L1!Next]_(L1!vars) \/ UNCHANGED l1Vars
  <1> SUFFICES ASSUME [Next]_vars PROVE [L1!Next]_(L1!vars) \/ UNCHANGED l1Vars  OBVIOUS
  <1>1. CASE L1Run(L1!Next)  BY <1>1 DEF L1Run
  <1>2. CASE NodesRun(Nodes!Next)  BY <1>2 DEF NodesRun
  <1>3. CASE ClassRun(Class!Next)  BY <1>3 DEF ClassRun
  <1>4. CASE MiningRun(Mining!Next)  BY <1>4 DEF MiningRun
  <1>5. CASE HeightsRun(Heights!Next)  BY <1>5 DEF HeightsRun
  <1>6. CASE UNCHANGED vars  BY <1>6 DEF vars
  <1> QED  BY <1>1, <1>2, <1>3, <1>4, <1>5, <1>6 DEF Next

LEMMA OthersKeepL1 == L1Inv /\ UNCHANGED l1Vars => L1Inv'
  BY DEF l1Vars, L1Inv, L1Type, ForksInOrder, RowsKnown, BatchKnown, PassedDone, DoneWith, Lost

\* The invariant of L1Txs holds in every state.
THEOREM L1Invariance == Spec => []L1Inv
  <1>1. Init => L1Inv
      BY L1InitInv DEF Init
  <1>2. L1Inv /\ [Next]_vars => L1Inv'
      BY SyncWorkersAssumption, StepOfL1, L1NextInv, OthersKeepL1 DEF SyncWorkersAssumption
  <1> QED  BY <1>1, <1>2, PTL DEF Spec

\* L1Txs never leaves behind for good a row the chain still has as it was, neither
\* with the cursor in memory nor with the one it stores row by row, whatever the
\* sync process does to the rows meanwhile.
THEOREM PassedPatched == Spec => []PassedArePatched
  BY L1InvPassed, L1Invariance, PTL DEF PassedArePatched

-----------------------------------------------------------------------------
(* The types of nodes.  A cycle pages with the shared cursor, so that their *)
(* invariant too is claimed for the behaviours that run them.               *)

\* What a source has reported throughout is still reported, and the cycle knows of
\* it: from the answer of the indexer, from the pages read so far, from all pages.
HeldKnown ==
    /\ regularNodes \subseteq Hosts /\ isRegular \subseteq Hosts /\ isHot \subseteq Hosts
    /\ present \subseteq Hosts /\ fetched \subseteq Providers /\ active \subseteq Providers
    /\ heldHot \subseteq active
    /\ step = "clearRegular" => heldRegular \subseteq present
    /\ step = "page" => cursor \in Nat /\ \A p \in heldHot : p <= cursor => p \in fetched
    /\ step \in {"hot", "clearHot"} => Nodes!HostsOf(heldHot) \subseteq present

NodesInv == worker = "nodes" => HeldKnown

LEMMA NodesInitInv == Init => NodesInv
  BY DEF Init, Nodes!Init, NodesInv, HeldKnown

\* A page has every active provider up to its end, the last page all of them.
LEMMA PageKnown ==
    ASSUME Nodes!ConstantsOK, HeldKnown, Nodes!FetchHotProviders PROVE HeldKnown'
  <1> USE DEF HeldKnown
  <1>1. PICK page \in Nodes!ListProviders :
            /\ fetched' = fetched \cup (page \cap active)
            /\ IF Nodes!Cardinality(page) = PageLimit
               THEN /\ cursor' \in page /\ \A p \in page : p <= cursor'
                    /\ UNCHANGED <<step, present>>
               ELSE /\ step' = "hot" /\ present' = Nodes!HostsOf(fetched')
                    /\ UNCHANGED cursor
      BY DEF Nodes!FetchHotProviders
  <1>2. /\ step = "page" /\ cursor \in Nat
        /\ \A p \in heldHot : p <= cursor => p \in fetched
        /\ UNCHANGED <<regularNodes, active, isRegular, isHot, heldRegular, heldHot>>
      BY DEF Nodes!FetchHotProviders, Nodes!sources, Nodes!rows, Nodes!held
  <1>3. /\ page \subseteq Nodes!Above(cursor)
        /\ \A p \in page, q \in Nodes!Above(cursor) \ page : p < q
        /\ Nodes!Cardinality(page) = PageLimit \/ page = Nodes!Above(cursor)
      BY DEF Nodes!ListProviders
  <1>4. \A p \in heldHot : p \in Providers /\ p \in Nat
      BY DEF Nodes!ConstantsOK
  <1>5. \A p \in heldHot : p <= cursor \/ p \in Nodes!Above(cursor)
      BY <1>2, <1>4 DEF Nodes!Above
  <1>6. fetched' \subseteq Providers
      BY <1>1
  <1>7. CASE Nodes!Cardinality(page) = PageLimit
    <2>1. cursor' \in page /\ cursor' \in Nat
        BY <1>1, <1>3, <1>7 DEF Nodes!Above, Nodes!ConstantsOK
    <2>2. ASSUME NEW p \in heldHot, p <= cursor' PROVE p \in fetched'
      <3>1. CASE p <= cursor
          BY <1>1, <1>2, <3>1
      <3>2. CASE p \in page
          BY <1>1, <1>2, <3>2
      <3>3. CASE p \in Nodes!Above(cursor) \ page
          BY <1>3, <1>4, <2>1, <2>2, <3>3
      <3> QED
          BY <1>5, <3>1, <3>2, <3>3
    <2> QED
        BY <1>1, <1>2, <1>6, <1>7, <2>1, <2>2
  <1>8. CASE Nodes!Cardinality(page) # PageLimit
    <2>1. heldHot \subseteq fetched'
        BY <1>1, <1>2, <1>3, <1>5, <1>8
    <2>2. Nodes!HostsOf(heldHot) \subseteq Nodes!HostsOf(fetched')
        BY <2>1 DEF Nodes!HostsOf
    <2>3. Nodes!HostsOf(fetched') \subseteq Hosts
        BY <1>6 DEF Nodes!HostsOf, Nodes!ConstantsOK
    <2> QED
        BY <1>1, <1>2, <1>6, <1>8, <2>2, <2>3 DEF Nodes!HostsOf
  <1> QED
      BY <1>7, <1>8

\* Each cycle begins to ask the router for what it has at that moment.
LEMMA AskedKnown ==
    ASSUME Nodes!ConstantsOK, HeldKnown, Nodes!BeginHot, isRegular' \subseteq Hosts,
           UNCHANGED <<regularNodes, active, isHot, heldRegular>>
    PROVE  HeldKnown'
  <1>1. /\ step' = "page" /\ cursor' = 0 /\ heldHot' = active
        /\ present' = {} /\ fetched' = {}
      BY DEF Nodes!BeginHot
  <1>2. \A p \in active : p \in Nat /\ p # 0
      BY DEF HeldKnown, Nodes!ConstantsOK
  <1> QED
      BY <1>1, <1>2 DEF HeldKnown

LEMMA NodesNextInv ==
    ASSUME Nodes!ConstantsOK, HeldKnown, [Nodes!Next]_(Nodes!vars) PROVE HeldKnown'
  <1> USE DEF Nodes!sources, Nodes!rows, Nodes!cycle, Nodes!held
  <1>1. CASE Nodes!NodesChange
      BY <1>1 DEF Nodes!NodesChange, HeldKnown, Nodes!HostsOf
  <1>2. CASE Nodes!ProvidersChange
      BY <1>2 DEF Nodes!ProvidersChange, HeldKnown, Nodes!HostsOf
  <1>3. CASE Nodes!SourceChange
      BY <1>3 DEF Nodes!SourceChange, HeldKnown, Nodes!HostsOf
  <1>4. CASE Nodes!RegularFails
      BY <1>4, AskedKnown DEF Nodes!RegularFails, HeldKnown
  <1>5. CASE Nodes!UpsertRegular
    <2>1. /\ present' = regularNodes /\ heldRegular' = regularNodes
          /\ isRegular' = isRegular \cup regularNodes /\ step' = "clearRegular"
          /\ UNCHANGED <<regularNodes, active, isHot, fetched, cursor, heldHot>>
        BY <1>5 DEF Nodes!UpsertRegular, Nodes!GetShardedNodes, Nodes!MarkRegular
    <2> QED
        BY <2>1 DEF HeldKnown
  <1>6. CASE Nodes!ClearRegular
    <2>1. isRegular' \subseteq Hosts
        BY <1>6 DEF Nodes!ClearRegular, Nodes!UnmarkRegular, HeldKnown
    <2> QED
        BY <1>6, <2>1, AskedKnown DEF Nodes!ClearRegular, Nodes!UnmarkRegular
  <1>7. CASE Nodes!HotFails
      BY <1>7 DEF Nodes!HotFails, Nodes!EndCycle, HeldKnown
  <1>8. CASE Nodes!FetchHotProviders
      BY <1>8, PageKnown
  <1>9. CASE Nodes!UpsertHot
      BY <1>9 DEF Nodes!UpsertHot, Nodes!MarkHot, HeldKnown, Nodes!HostsOf
  <1>10. CASE Nodes!ClearHot
      BY <1>10 DEF Nodes!ClearHot, Nodes!UnmarkHot, Nodes!EndCycle, HeldKnown
  <1>11. CASE Nodes!StatementFails
    <2>1. CASE Nodes!BeginHot
        BY <1>11, <2>1, AskedKnown DEF Nodes!StatementFails, HeldKnown
    <2>2. CASE Nodes!EndCycle /\ UNCHANGED heldHot
        BY <1>11, <2>2 DEF Nodes!StatementFails, Nodes!EndCycle, HeldKnown
    <2> QED
        BY <1>11, <2>1, <2>2 DEF Nodes!StatementFails
  <1>12. CASE UNCHANGED Nodes!vars
      BY <1>12 DEF Nodes!vars, HeldKnown, Nodes!HostsOf
  <1> QED
      BY <1>1, <1>2, <1>3, <1>4, <1>5, <1>6, <1>7, <1>8, <1>9, <1>10, <1>11, <1>12
         DEF Nodes!Next, Nodes!Worker

\* A flag is only cleared for hosts the cycle has not seen.
SparesReported ==
    /\ isRegular \ isRegular' \subseteq Hosts \ heldRegular
    /\ isHot \ isHot' \subseteq Hosts \ Nodes!HostsOf(heldHot)

LEMMA NodesStepSpares == HeldKnown /\ Nodes!Next => SparesReported
  <1> SUFFICES ASSUME HeldKnown, Nodes!Next PROVE SparesReported
      OBVIOUS
  <1> USE DEF Nodes!rows, SparesReported, HeldKnown
  <1>1. CASE Nodes!UpsertRegular
      BY <1>1 DEF Nodes!UpsertRegular, Nodes!MarkRegular
  <1>2. CASE Nodes!ClearRegular
      BY <1>2 DEF Nodes!ClearRegular, Nodes!UnmarkRegular, Nodes!RegularHosts
  <1>3. CASE Nodes!UpsertHot
      BY <1>3 DEF Nodes!UpsertHot, Nodes!MarkHot
  <1>4. CASE Nodes!ClearHot
      BY <1>4 DEF Nodes!ClearHot, Nodes!UnmarkHot, Nodes!HotHosts
  <1>5. CASE UNCHANGED Nodes!rows
      BY <1>5
  <1> QED
      BY <1>1, <1>2, <1>3, <1>4, <1>5
         DEF Nodes!Next, Nodes!Worker, Nodes!NodesChange, Nodes!ProvidersChange,
             Nodes!SourceChange, Nodes!RegularFails, Nodes!HotFails, Nodes!FetchHotProviders,
             Nodes!StatementFails

LEMMA StepOfNodes ==
    [Next]_vars =>
        /\ worker' = worker
        /\ worker = "nodes" => Nodes!Next \/ UNCHANGED Nodes!vars
        /\ worker # "nodes" => UNCHANGED nodesVars
  <1> SUFFICES ASSUME [Next]_vars
               PROVE  /\ worker' = worker
                      /\ worker = "nodes" => Nodes!Next \/ UNCHANGED Nodes!vars
                      /\ worker # "nodes" => UNCHANGED nodesVars
      OBVIOUS
  <1>1. CASE NodesRun(Nodes!Next)  BY <1>1 DEF NodesRun
  <1>2. CASE ClassRun(Class!Next)  BY <1>2 DEF ClassRun
  <1>3. CASE L1Run(L1!Next)  BY <1>3 DEF L1Run
  <1>4. CASE MiningRun(Mining!Next)  BY <1>4 DEF MiningRun
  <1>5. CASE HeightsRun(Heights!Next)  BY <1>5 DEF HeightsRun
  <1>6. CASE UNCHANGED vars
      BY <1>6 DEF vars, nodesVars, Nodes!vars, Nodes!sources, Nodes!rows, Nodes!cycle, Nodes!held
  <1> QED  BY <1>1, <1>2, <1>3, <1>4, <1>5, <1>6 DEF Next

\* The invariant of the types of nodes holds in every state of its behaviours.
THEOREM NodesInvariance == Spec => []NodesInv
  <1>1. NodesInv /\ [Next]_vars => NodesInv'
      BY SyncWorkersAssumption, StepOfNodes, NodesNextInv DEF NodesInv, SyncWorkersAssumption
  <1> QED  BY <1>1, NodesInitInv, PTL DEF Spec

\* RefreshNodeTypes clears no flag of a host that its source has reported ever since
\* the cycle began to ask it, page by page and through failures of either source.
THEOREM ReportedSpared == Spec => ReportedAreSpared
  <1>1. NodesInv /\ [Next]_vars => [SparesReported]_(Nodes!vars)
    <2> SUFFICES ASSUME NodesInv, [Next]_vars PROVE [SparesReported]_(Nodes!vars)
        OBVIOUS
    <2>1. CASE worker = "nodes"
        BY <2>1, StepOfNodes, NodesStepSpares DEF NodesInv
    <2>2. CASE worker # "nodes"
        BY <2>2, StepOfNodes DEF nodesVars, SparesReported
    <2> QED  BY <2>1, <2>2
  <1>2. NodesInv /\ [Next]_vars =>
            [/\ isRegular \ isRegular' \subseteq Hosts \ heldRegular
             /\ isHot \ isHot' \subseteq Hosts \ Nodes!HostsOf(heldHot)]_(Nodes!vars)
      BY <1>1 DEF SparesReported
  <1> QED
      BY <1>2, NodesInvariance, PTL DEF Spec, ReportedAreSpared, Nodes!ReportedAreSpared
=============================================================================
