----------------------- MODULE WorkTransactionProofs -----------------------
(***************************************************************************)
(* Proofs about the work-transaction ledger, for every capacity, hash      *)
(* function, set of identities and width of the epoch counter.             *)
(***************************************************************************)
EXTENDS WorkTransaction, FiniteSetTheorems, WellFoundedInduction,
        TLAPS

(***************************************************************************)
(* A non-empty set of naturals has a least element.                        *)
(***************************************************************************)
LEMMA LeastNatural ==
  ASSUME NEW T \in SUBSET Nat, T # {}
  PROVE  \E k \in T : \A m \in T : k <= m
<1> DEFINE R == OpToRel(<, Nat)
<1>1. IsWellFoundedOn(R, Nat)
  BY Zenon, NatLessThanWellFounded
<1>2. \A x, y \in Nat : x < y => <<x, y>> \in R
  BY DEF OpToRel
<1> HIDE DEF R
<1>3. PICK k \in T : \A m \in T : <<m, k>> \notin R
  BY Zenon, <1>1, WFMin
<1>4. \A m \in T : k <= m
  <2> SUFFICES ASSUME NEW m \in T PROVE ~(m < k)
    OBVIOUS
  <2>1. m \in Nat /\ k \in Nat
    OBVIOUS
  <2> QED
    BY Zenon, <1>2, <1>3, <2>1
<1> QED
  BY <1>4

(***************************************************************************)
(* The probe path of an identity visits every slot of the table, once.     *)
(***************************************************************************)
LEMMA ProbeInSlots ==
  ASSUME NEW id \in Identities, NEW k \in Nat
  PROVE  Probe(id, k) \in Slots
  BY CapacityAssumption, IdentityAssumption DEF Probe, Slots

LEMMA ModuloInWindow ==
  ASSUME NEW x \in Nat, x < Capacity + Capacity
  PROVE  x % Capacity = IF x < Capacity THEN x ELSE x - Capacity
  BY CapacityAssumption

LEMMA ProbeInjective ==
  ASSUME NEW id \in Identities, NEW j \in Slots, NEW k \in Slots,
         Probe(id, j) = Probe(id, k)
  PROVE  j = k
<1>1. /\ Start[id] + j \in Nat /\ Start[id] + j < Capacity + Capacity
      /\ Start[id] + k \in Nat /\ Start[id] + k < Capacity + Capacity
  BY CapacityAssumption, IdentityAssumption DEF Slots
<1> QED
  BY <1>1, ModuloInWindow, CapacityAssumption, IdentityAssumption
  DEF Probe, Slots

LEMMA ProbeSurjective ==
  ASSUME NEW id \in Identities, NEW s \in Slots
  PROVE  \E k \in Slots : Probe(id, k) = s
<1> DEFINE k == IF s >= Start[id] THEN s - Start[id]
                                  ELSE s - Start[id] + Capacity
<1>1. /\ k \in Slots
      /\ Start[id] + k \in Nat /\ Start[id] + k < Capacity + Capacity
      /\ Start[id] + k = s \/ Start[id] + k = s + Capacity
  BY CapacityAssumption, IdentityAssumption DEF Slots
<1>2. Probe(id, k) = s
  BY <1>1, ModuloInWindow, CapacityAssumption, IdentityAssumption
  DEF Probe, Slots
<1> QED
  BY <1>1, <1>2

-----------------------------------------------------------------------------
(***************************************************************************)
(* What is stored is found: Observe's probe never misses an entry.         *)
(***************************************************************************)
LEMMA StoredIsFound ==
  ASSUME OneEntryPerIdentity, ProbeReachable,
         NEW id \in Identities, NEW s \in Slots, Holds(s, id)
  PROVE  FoundAt(id, s)
<1>1. PICK k \in Slots : s = Probe(id, k) /\ Reaches(id, k)
  BY DEF ProbeReachable, Holds
<1>2. ASSUME NEW j \in 0 .. k - 1, Holds(Probe(id, j), id)
      PROVE  FALSE
  <2>1. j \in Slots /\ Probe(id, j) \in Slots /\ j # k
    BY ProbeInSlots, CapacityAssumption DEF Slots
  <2>2. Probe(id, j) = s
    BY Zenon, <1>2, <2>1 DEF OneEntryPerIdentity, Holds
  <2> QED
    BY <1>1, <2>1, <2>2, ProbeInjective
<1> QED
  BY <1>1, <1>2 DEF FoundAt

LEMMA NotFoundIsAbsent ==
  ASSUME OneEntryPerIdentity, ProbeReachable,
         NEW id \in Identities, NotFound(id), NEW s \in Slots
  PROVE  ~Holds(s, id)
  BY StoredIsFound DEF NotFound

(***************************************************************************)
(* When SelectInsertionEntry fails, every entry of the table is stored.    *)
(***************************************************************************)
LEMMA NoInsertionIsFull ==
  ASSUME TypeOK, NEW id \in Identities, NoInsertion(id), NEW s \in Slots
  PROVE  entries[s].state \in Stored
<1> DEFINE Free == {k \in Slots : IsEmpty(Probe(id, k)) \/ IsTombstone(Probe(id, k))}
<1>1. ASSUME Free # {}
      PROVE  FALSE
  <2>1. Free \in SUBSET Nat
    BY CapacityAssumption DEF Slots
  <2> HIDE DEF Free
  <2>2. PICK k \in Free : \A m \in Free : k <= m
    BY <1>1, <2>1, LeastNatural
  <2>3. k \in Slots /\ (IsEmpty(Probe(id, k)) \/ IsTombstone(Probe(id, k)))
    BY <2>2 DEF Free
  <2>4. \A j \in 0 .. k - 1 : j \in Slots /\ j \notin Free
    BY <2>2, <2>3, CapacityAssumption DEF Slots
  <2>5. \A j \in 0 .. k - 1 : ~IsEmpty(Probe(id, j)) /\ ~IsTombstone(Probe(id, j))
    BY <2>4 DEF Free
  <2>6. Probe(id, k) \in Slots
    BY <2>3, ProbeInSlots, CapacityAssumption DEF Slots
  <2>7. InsertAt(id, Probe(id, k))
    BY <2>3, <2>5 DEF InsertAt, Reaches
  <2> QED
    BY <2>6, <2>7 DEF NoInsertion
<1>2. PICK k \in Slots : Probe(id, k) = s
  BY ProbeSurjective
<1>3. ~IsEmpty(s) /\ ~IsTombstone(s)
  BY <1>1, <1>2
<1> QED
  BY <1>3 DEF TypeOK, Entry, States, IsEmpty, IsTombstone

-----------------------------------------------------------------------------
(***************************************************************************)
(* The inductive invariant.  Uniqueness is inductive only with probe       *)
(* reachability, which makes NotFound mean absent; the reset guard reads   *)
(* the active counter, so the counters must agree with the table; and a    *)
(* reset may drop the table only because it belongs to one generation.     *)
(***************************************************************************)
Structure == OneEntryPerIdentity /\ ProbeReachable /\ OneGeneration
LedgerInv == TypeOK /\ Structure /\ CountersAgree

LEMMA NextEpochType ==
  ASSUME TypeOK
  PROVE  NextEpoch \in 0 .. EpochMax
  BY EpochAssumption DEF TypeOK, NextEpoch

LEMMA NewEntryType ==
  ASSUME NEW id \in Identities, NEW fp \in Fingerprints,
         NEW stamp \in 0 .. EpochMax
  PROVE  /\ NewEntry(id, fp, stamp) \in Entry
         /\ NewEntry(id, fp, stamp).state = "PREPARED"
         /\ NewEntry(id, fp, stamp).identity = id
  BY DEF NewEntry, Entry, States, Stored, Active, EntryStatuses

LEMMA ClearedType ==
  /\ Cleared("EMPTY") \in Entry
  /\ Cleared("EMPTY").state = "EMPTY"
  BY EpochAssumption DEF Cleared, Entry, States, EntryStatuses

(***************************************************************************)
(* A step that changes neither which entries are stored or EMPTY nor their *)
(* identities keeps the structure (ObserveFound, ObserveFull, Transition). *)
(***************************************************************************)
LEMMA RestampKeepsStructure ==
  ASSUME Structure, generation' = generation,
         \A s \in Slots :
           /\ entries'[s].identity = entries[s].identity
           /\ entries'[s].state \in Stored <=> entries[s].state \in Stored
           /\ entries'[s].state = "EMPTY" <=> entries[s].state = "EMPTY"
  PROVE  Structure'
<1>1. OneEntryPerIdentity'
  BY DEF Structure, OneEntryPerIdentity
<1>2. OneGeneration'
  BY DEF Structure, OneGeneration
<1>3. ProbeReachable'
  <2> SUFFICES ASSUME NEW s \in Slots, entries'[s].state \in Stored
               PROVE  \E k \in Slots :
                        /\ s = Probe(entries'[s].identity, k)
                        /\ \A j \in 0 .. k - 1 :
                             entries'[Probe(entries'[s].identity, j)].state # "EMPTY"
    BY DEF ProbeReachable, Reaches, IsEmpty, Probe
  <2> DEFINE id == entries[s].identity
  <2>1. id \in Identities
    BY DEF Structure, OneGeneration
  <2>2. PICK k \in Slots : s = Probe(id, k) /\ Reaches(id, k)
    BY DEF Structure, ProbeReachable
  <2>3. \A j \in 0 .. k - 1 : Probe(id, j) \in Slots
    BY <2>1, ProbeInSlots, CapacityAssumption DEF Slots
  <2>4. \A j \in 0 .. k - 1 : entries'[Probe(id, j)].state # "EMPTY"
    BY <2>2, <2>3 DEF Reaches, IsEmpty
  <2> QED
    BY SMTT(60), <2>2, <2>4
<1> QED
  BY <1>1, <1>2, <1>3 DEF Structure

(***************************************************************************)
(* A new entry for an absent identity, at a slot its probe reaches, keeps  *)
(* the structure (ObserveNew, ObserveRecycle).                             *)
(***************************************************************************)
LEMMA InsertKeepsStructure ==
  ASSUME TypeOK, Structure, generation' = generation,
         NEW id \in Identities, SameGeneration(id), NotFound(id),
         NEW fp, NEW stamp, NEW s \in Slots,
         entries' = [entries EXCEPT ![s] = NewEntry(id, fp, stamp)],
         \E k \in Slots : s = Probe(id, k) /\ Reaches(id, k)
  PROVE  Structure'
<1>1. /\ entries'[s].state = "PREPARED"
      /\ entries'[s].identity = id
      /\ \A t \in Slots : t # s => entries'[t] = entries[t]
  BY DEF TypeOK, NewEntry
<1>2. \A t \in Slots : entries[t].state \in Stored => entries[t].identity # id
  BY NotFoundIsAbsent DEF Structure, Holds
<1>3. OneEntryPerIdentity'
  BY <1>1, <1>2 DEF Structure, OneEntryPerIdentity
<1>4. OneGeneration'
  BY <1>1 DEF Structure, OneGeneration, SameGeneration
<1>5. ASSUME NEW i \in Identities, NEW k \in Slots, Reaches(i, k)
      PROVE  \A j \in 0 .. k - 1 : entries'[Probe(i, j)].state # "EMPTY"
  <2>1. \A j \in 0 .. k - 1 : Probe(i, j) \in Slots
    BY ProbeInSlots, CapacityAssumption DEF Slots
  <2> QED
    BY <1>1, <1>5, <2>1 DEF Reaches, IsEmpty
<1>6. ProbeReachable'
  <2> SUFFICES ASSUME NEW t \in Slots, entries'[t].state \in Stored
               PROVE  \E k \in Slots :
                        /\ t = Probe(entries'[t].identity, k)
                        /\ \A j \in 0 .. k - 1 :
                             entries'[Probe(entries'[t].identity, j)].state # "EMPTY"
    BY Zenon DEF ProbeReachable, Reaches, IsEmpty, Probe
  <2>1. CASE t = s
    BY <1>1, <1>5, <2>1
  <2>2. CASE t # s
    <3>1. entries[t].identity \in Identities
      BY <1>1, <2>2 DEF Structure, OneGeneration
    <3>2. PICK k \in Slots : /\ t = Probe(entries[t].identity, k)
                            /\ Reaches(entries[t].identity, k)
      BY <1>1, <2>2 DEF Structure, ProbeReachable
    <3> QED
      BY <1>1, <1>5, <2>2, <3>1, <3>2
  <2> QED
    BY SMTT(60), <2>1, <2>2
<1> QED
  BY <1>3, <1>4, <1>6 DEF Structure

-----------------------------------------------------------------------------
(***************************************************************************)
(* Counting.                                                               *)
(***************************************************************************)
LEMMA SubsetCount ==
  ASSUME NEW T \in SUBSET Slots
  PROVE  IsFiniteSet(T) /\ Cardinality(T) \in Nat
<1>1. IsFiniteSet(Slots)
  BY FS_Interval, CapacityAssumption DEF Slots
<1> QED
  BY <1>1, FS_Subset, FS_CardinalityType

LEMMA SlotsInFinite ==
  ASSUME NEW set
  PROVE  IsFiniteSet(SlotsIn(set)) /\ Cardinality(SlotsIn(set)) \in Nat
  BY SubsetCount DEF SlotsIn

(***************************************************************************)
(* One entry changes state: what becomes of the count of a set of states.  *)
(***************************************************************************)
LEMMA CountOneChange ==
  ASSUME NEW set, NEW s \in Slots,
         \A t \in Slots : t # s => entries'[t].state = entries[t].state
  PROVE  Cardinality(SlotsIn(set)') =
           IF entries'[s].state \in set
             THEN IF entries[s].state \in set
                    THEN Cardinality(SlotsIn(set))
                    ELSE Cardinality(SlotsIn(set)) + 1
             ELSE IF entries[s].state \in set
                    THEN Cardinality(SlotsIn(set)) - 1
                    ELSE Cardinality(SlotsIn(set))
<1>1. CASE entries'[s].state \in set
  <2>1. SlotsIn(set)' = SlotsIn(set) \cup {s}
    BY <1>1 DEF SlotsIn
  <2>2. s \in SlotsIn(set) <=> entries[s].state \in set
    BY DEF SlotsIn
  <2> QED
    BY Zenon, <1>1, <2>1, <2>2, SlotsInFinite, FS_AddElement
<1>2. CASE entries'[s].state \notin set
  <2>1. SlotsIn(set)' = SlotsIn(set) \ {s}
    BY <1>2 DEF SlotsIn
  <2>2. s \in SlotsIn(set) <=> entries[s].state \in set
    BY DEF SlotsIn
  <2> QED
    BY ZenonT(60), <1>2, <2>1, <2>2, SlotsInFinite, FS_RemoveElement
<1> QED
  BY <1>1, <1>2

LEMMA CountNoChange ==
  ASSUME NEW set, \A t \in Slots : entries'[t].state = entries[t].state
  PROVE  Cardinality(SlotsIn(set)') = Cardinality(SlotsIn(set))
<1>1. SlotsIn(set)' = SlotsIn(set)
  BY DEF SlotsIn
<1> QED
  BY <1>1

(***************************************************************************)
(* The counters follow one entry that takes the state `to`.                *)
(***************************************************************************)
Step(set, from, to) ==
  IF to \in set THEN IF from \in set THEN 0 ELSE 1
                ELSE IF from \in set THEN -1 ELSE 0

LEMMA CountersFollow ==
  ASSUME CountersAgree, NEW s \in Slots,
         \A t \in Slots : t # s => entries'[t].state = entries[t].state,
         entry_count' = entry_count
           + Step(Stored, entries[s].state, entries'[s].state),
         active_entry_count' = active_entry_count
           + Step(Active, entries[s].state, entries'[s].state),
         terminal_entry_count' = terminal_entry_count
           + Step(Terminal, entries[s].state, entries'[s].state),
         tombstone_entry_count' = tombstone_entry_count
           + Step({"TOMBSTONE"}, entries[s].state, entries'[s].state)
  PROVE  CountersAgree'
<1>1. ASSUME NEW set
      PROVE  Cardinality(SlotsIn(set)') = Cardinality(SlotsIn(set))
               + Step(set, entries[s].state, entries'[s].state)
  BY CountOneChange, SlotsInFinite DEF Step
<1>2. /\ Cardinality(SlotsIn(Stored)') = entry_count'
      /\ Cardinality(SlotsIn(Active)') = active_entry_count'
      /\ Cardinality(SlotsIn(Terminal)') = terminal_entry_count'
      /\ Cardinality(SlotsIn({"TOMBSTONE"})') = tombstone_entry_count'
  BY <1>1 DEF CountersAgree
<1>3. /\ Stored' = Stored /\ Active' = Active /\ Terminal' = Terminal
  BY DEF Stored, Active, Terminal
<1> QED
  BY <1>2, <1>3 DEF CountersAgree, SlotsIn

(***************************************************************************)
(* Counters that agree with the table are naturals.                        *)
(***************************************************************************)
LEMMA CountersAreNaturals ==
  CountersAgree' => /\ entry_count' \in Nat
                    /\ active_entry_count' \in Nat
                    /\ terminal_entry_count' \in Nat
                    /\ tombstone_entry_count' \in Nat
<1>1. ASSUME NEW set
      PROVE  Cardinality({s \in Slots : entries'[s].state \in set}) \in Nat
  BY SubsetCount
<1> QED
  BY Zenon, <1>1 DEF CountersAgree, SlotsIn

-----------------------------------------------------------------------------
(***************************************************************************)
(* The invariant holds initially and is kept by every step.                *)
(***************************************************************************)
LEMMA InitInv == Init => LedgerInv
<1> SUFFICES ASSUME Init PROVE LedgerInv
  OBVIOUS
<1>1. \A s \in Slots : entries[s] \in Entry /\ entries[s].state = "EMPTY"
  BY ClearedType DEF Init
<1>2. TypeOK
  BY <1>1, EpochAssumption DEF Init, TypeOK
<1>3. Structure
  BY <1>1 DEF Structure, OneEntryPerIdentity, ProbeReachable, OneGeneration,
              Stored, Active, Terminal
<1>4. ASSUME NEW set, "EMPTY" \notin set
      PROVE  Cardinality(SlotsIn(set)) = 0
  <2>1. SlotsIn(set) = {}
    BY <1>1, <1>4 DEF SlotsIn
  <2> QED
    BY <2>1, FS_EmptySet
<1>5. CountersAgree
  <2>1. /\ "EMPTY" \notin Stored /\ "EMPTY" \notin Active
        /\ "EMPTY" \notin Terminal /\ "EMPTY" \notin {"TOMBSTONE"}
    BY DEF Stored, Active, Terminal
  <2> QED
    BY <1>4, <2>1 DEF Init, CountersAgree
<1> QED
  BY <1>2, <1>3, <1>5 DEF LedgerInv

LEMMA ResetInv ==
  ASSUME LedgerInv, NEW id \in Identities, NEW fp \in Fingerprints,
         ObserveReset(id, fp)
  PROVE  LedgerInv'
<1> DEFINE h == Probe(id, 0)
<1>1. h \in Slots /\ 0 \in Slots
  BY ProbeInSlots, CapacityAssumption DEF Slots
<1>2. NewEntry(id, fp, 1) \in Entry
  BY NewEntryType, EpochAssumption
<1>3. /\ entries' \in [Slots -> Entry]
      /\ entries'[h].state = "PREPARED" /\ entries'[h].identity = id
      /\ \A s \in Slots : s # h => entries'[s].state = "EMPTY"
  BY <1>1, <1>2, ClearedType DEF ObserveReset, NewEntry
<1>4. Structure'
  <2>1. \A s \in Slots : entries'[s].state \in Stored => s = h
    BY <1>3 DEF Stored, Active, Terminal
  <2>2. OneEntryPerIdentity' /\ OneGeneration'
    BY <1>3, <2>1 DEF OneEntryPerIdentity, OneGeneration, ObserveReset
  <2>3. ProbeReachable'
    <3>1. \A j \in 0 .. 0 - 1 : entries'[Probe(id, j)].state # "EMPTY"
      OBVIOUS
    <3> QED
      BY <1>1, <1>3, <2>1, <3>1 DEF ProbeReachable, Reaches, IsEmpty, Probe
  <2> QED
    BY <2>2, <2>3 DEF Structure
<1>5. CountersAgree'
  <2>1. ASSUME NEW set, "EMPTY" \notin set, "PREPARED" \in set
        PROVE  Cardinality(SlotsIn(set)') = 1
    <3>1. SlotsIn(set)' = {h}
      BY <1>1, <1>3, <2>1 DEF SlotsIn
    <3> QED
      BY <3>1, FS_Singleton
  <2>2. ASSUME NEW set, "EMPTY" \notin set, "PREPARED" \notin set
        PROVE  Cardinality(SlotsIn(set)') = 0
    <3>1. SlotsIn(set)' = {}
      BY <1>3, <2>2 DEF SlotsIn
    <3> QED
      BY <3>1, FS_EmptySet
  <2>3. /\ "EMPTY" \notin Stored /\ "PREPARED" \in Stored
        /\ "EMPTY" \notin Active /\ "PREPARED" \in Active
        /\ "EMPTY" \notin Terminal /\ "PREPARED" \notin Terminal
        /\ "EMPTY" \notin {"TOMBSTONE"} /\ "PREPARED" \notin {"TOMBSTONE"}
    BY DEF Stored, Active, Terminal
  <2>4. /\ Cardinality(SlotsIn(Stored)') = 1
        /\ Cardinality(SlotsIn(Active)') = 1
        /\ Cardinality(SlotsIn(Terminal)') = 0
        /\ Cardinality(SlotsIn({"TOMBSTONE"})') = 0
    BY <2>1, <2>2, <2>3
  <2> QED
    BY <2>4 DEF CountersAgree, ObserveReset, SlotsIn, Stored, Active, Terminal
<1>6. TypeOK'
  BY <1>3, EpochAssumption, IdentityAssumption DEF TypeOK, ObserveReset
<1> QED
  BY <1>4, <1>5, <1>6 DEF LedgerInv

LEMMA FoundInv ==
  ASSUME LedgerInv, NEW id \in Identities, NEW s \in Slots,
         ObserveFound(id, s)
  PROVE  LedgerInv'
<1>1. NextEpoch \in 0 .. EpochMax
  BY NextEpochType DEF LedgerInv
<1>2. /\ entries' \in [Slots -> Entry]
      /\ \A t \in Slots : /\ entries'[t].state = entries[t].state
                          /\ entries'[t].identity = entries[t].identity
  BY <1>1 DEF LedgerInv, TypeOK, Entry, ObserveFound
<1>3. Structure'
  BY <1>2, RestampKeepsStructure DEF LedgerInv, ObserveFound
<1>4. CountersAgree'
  <2>1. /\ Cardinality(SlotsIn(Stored)') = entry_count'
        /\ Cardinality(SlotsIn(Active)') = active_entry_count'
        /\ Cardinality(SlotsIn(Terminal)') = terminal_entry_count'
        /\ Cardinality(SlotsIn({"TOMBSTONE"})') = tombstone_entry_count'
    BY <1>2, CountNoChange DEF LedgerInv, CountersAgree, ObserveFound, counts
  <2> QED
    BY <2>1 DEF CountersAgree, SlotsIn, Stored, Active, Terminal
<1>5. TypeOK'
  BY <1>1, <1>2 DEF LedgerInv, TypeOK, ObserveFound, counts
<1> QED
  BY <1>3, <1>4, <1>5 DEF LedgerInv

(***************************************************************************)
(* The part ObserveNew and ObserveRecycle share: only the slot s changes,  *)
(* and it takes a new entry.                                               *)
(***************************************************************************)
LEMMA InsertShape ==
  ASSUME TypeOK, NEW id \in Identities, NEW fp \in Fingerprints,
         NEW s \in Slots,
         entries' = [entries EXCEPT ![s] = NewEntry(id, fp, NextEpoch)]
  PROVE  /\ entries' \in [Slots -> Entry]
         /\ entries'[s].state = "PREPARED"
         /\ \A t \in Slots : t # s => entries'[t].state = entries[t].state
<1>1. NextEpoch \in 0 .. EpochMax
  BY NextEpochType
<1>2. NewEntry(id, fp, NextEpoch) \in Entry
  BY <1>1, NewEntryType
<1> QED
  BY <1>2 DEF TypeOK, NewEntry

LEMMA NewInv ==
  ASSUME LedgerInv, NEW id \in Identities, NEW fp \in Fingerprints,
         NEW s \in Slots, ObserveNew(id, fp, s)
  PROVE  LedgerInv'
<1> USE DEF LedgerInv
<1>1. /\ entries' \in [Slots -> Entry]
      /\ entries'[s].state = "PREPARED"
      /\ \A t \in Slots : t # s => entries'[t].state = entries[t].state
  BY Zenon, InsertShape DEF ObserveNew
<1>2. entries[s].state \in {"EMPTY", "TOMBSTONE"}
  BY DEF ObserveNew, InsertAt, IsEmpty, IsTombstone
<1>3. Structure'
  BY Zenon, InsertKeepsStructure DEF ObserveNew, InsertAt
<1>4. CountersAgree'
  <2>1. /\ entry_count' = entry_count
             + Step(Stored, entries[s].state, entries'[s].state)
        /\ active_entry_count' = active_entry_count
             + Step(Active, entries[s].state, entries'[s].state)
        /\ terminal_entry_count' = terminal_entry_count
             + Step(Terminal, entries[s].state, entries'[s].state)
        /\ tombstone_entry_count' = tombstone_entry_count
             + Step({"TOMBSTONE"}, entries[s].state, entries'[s].state)
    BY <1>1, <1>2 DEF ObserveNew, TypeOK, IsTombstone, Step, Stored, Active,
                      Terminal
  <2> QED
    BY <1>1, <2>1, CountersFollow
<1>5. TypeOK'
  BY SMTT(60), <1>1, <1>4, NextEpochType, CountersAreNaturals DEF ObserveNew, TypeOK
<1> QED
  BY <1>3, <1>4, <1>5

LEMMA RecycleInv ==
  ASSUME LedgerInv, NEW id \in Identities, NEW fp \in Fingerprints,
         NEW s \in Slots, ObserveRecycle(id, fp, s)
  PROVE  LedgerInv'
<1> USE DEF LedgerInv
<1>1. /\ entries' \in [Slots -> Entry]
      /\ entries'[s].state = "PREPARED"
      /\ \A t \in Slots : t # s => entries'[t].state = entries[t].state
  BY Zenon, InsertShape DEF ObserveRecycle
<1>2. entries[s].state \in Terminal
  BY DEF ObserveRecycle, OldestTerminal, Recyclable
<1>3. \E k \in Slots : s = Probe(id, k) /\ Reaches(id, k)
  <2>1. PICK k \in Slots : s = Probe(id, k)
    BY ProbeSurjective
  <2>2. \A j \in 0 .. k - 1 : Probe(id, j) \in Slots
    BY ProbeInSlots, CapacityAssumption DEF Slots
  <2>3. \A t \in Slots : entries[t].state \in Stored
    BY NoInsertionIsFull DEF ObserveRecycle
  <2>4. Reaches(id, k)
    BY <2>2, <2>3 DEF Reaches, IsEmpty, Stored, Active, Terminal
  <2> QED
    BY <2>1, <2>4
<1>4. Structure'
  BY Zenon, <1>3, InsertKeepsStructure DEF ObserveRecycle
<1>5. CountersAgree'
  <2>1. /\ entry_count' = entry_count
             + Step(Stored, entries[s].state, entries'[s].state)
        /\ active_entry_count' = active_entry_count
             + Step(Active, entries[s].state, entries'[s].state)
        /\ terminal_entry_count' = terminal_entry_count
             + Step(Terminal, entries[s].state, entries'[s].state)
        /\ tombstone_entry_count' = tombstone_entry_count
             + Step({"TOMBSTONE"}, entries[s].state, entries'[s].state)
    BY <1>1, <1>2 DEF ObserveRecycle, TypeOK, Step, Stored, Active, Terminal
  <2> QED
    BY <1>1, <2>1, CountersFollow
<1>6. TypeOK'
  BY <1>1, <1>5, NextEpochType, CountersAreNaturals DEF ObserveRecycle, TypeOK
<1> QED
  BY <1>4, <1>5, <1>6

LEMMA FullInv ==
  ASSUME LedgerInv, NEW id \in Identities, ObserveFull(id)
  PROVE  LedgerInv'
<1>1. Structure'
  BY RestampKeepsStructure DEF LedgerInv, ObserveFull
<1>2. CountersAgree'
  BY DEF LedgerInv, CountersAgree, ObserveFull, counts, SlotsIn
<1>3. TypeOK'
  BY NextEpochType DEF LedgerInv, TypeOK, ObserveFull, counts
<1> QED
  BY <1>1, <1>2, <1>3 DEF LedgerInv

LEMMA TransitionInv ==
  ASSUME LedgerInv, NEW id \in Identities, NEW s \in Slots,
         NEW target \in Stored, NEW st \in Statuses,
         Transition(id, s, target, st)
  PROVE  LedgerInv'
<1> USE DEF LedgerInv
<1>1. NextEpoch \in 0 .. EpochMax
  BY NextEpochType
<1>2. /\ entries' \in [Slots -> Entry]
      /\ entries'[s].state = target
      /\ \A t \in Slots : /\ t # s => entries'[t].state = entries[t].state
                          /\ entries'[t].identity = entries[t].identity
  <2> DEFINE status == IF target \in Terminal THEN st ELSE "PENDING"
             moved == [entries[s] EXCEPT !.state = target,
                                         !.last_observed_epoch = NextEpoch,
                                         !.terminal_status = status]
  <2>1. status \in EntryStatuses /\ target \in States
    BY DEF EntryStatuses, States
  <2>2. entries[s] \in Entry
    BY DEF TypeOK
  <2> HIDE DEF status
  <2>3. /\ moved \in Entry
        /\ moved.state = target
        /\ moved.identity = entries[s].identity
    BY Zenon, <1>1, <2>1, <2>2 DEF Entry
  <2>4. entries' = [entries EXCEPT ![s] = moved]
    BY DEF Transition, status
  <2> HIDE DEF moved
  <2> QED
    BY <2>3, <2>4 DEF TypeOK
<1>3. entries[s].state \in Active
  BY DEF Transition
<1>4. Structure'
  BY <1>2, <1>3, RestampKeepsStructure
  DEF Transition, Stored, Active, Terminal
<1>5. CountersAgree'
  <2>1. /\ entry_count' = entry_count
             + Step(Stored, entries[s].state, entries'[s].state)
        /\ active_entry_count' = active_entry_count
             + Step(Active, entries[s].state, entries'[s].state)
        /\ terminal_entry_count' = terminal_entry_count
             + Step(Terminal, entries[s].state, entries'[s].state)
        /\ tombstone_entry_count' = tombstone_entry_count
             + Step({"TOMBSTONE"}, entries[s].state, entries'[s].state)
    BY <1>2, <1>3 DEF Transition, TypeOK, Step, Stored, Active, Terminal
  <2> QED
    BY <1>2, <2>1, CountersFollow
<1>6. TypeOK'
  BY <1>1, <1>2, <1>5, CountersAreNaturals DEF Transition, TypeOK
<1> QED
  BY <1>4, <1>5, <1>6

LEMMA StutterInv ==
  ASSUME LedgerInv, UNCHANGED vars
  PROVE  LedgerInv'
<1>1. Structure'
  BY RestampKeepsStructure DEF LedgerInv, vars
<1>2. CountersAgree'
  BY DEF LedgerInv, CountersAgree, vars, counts, SlotsIn
<1>3. TypeOK'
  BY DEF LedgerInv, TypeOK, vars, counts
<1> QED
  BY <1>1, <1>2, <1>3 DEF LedgerInv

(***************************************************************************)
(* The invariant of the ledger: an identity is stored at most once and can *)
(* always be found, the counters count the table, and the table belongs to *)
(* one control generation.                                                 *)
(***************************************************************************)
THEOREM LedgerInvariant == Spec => []LedgerInv
<1>1. Init => LedgerInv
  BY InitInv
<1>2. LedgerInv /\ [Next]_vars => LedgerInv'
  <2> SUFFICES ASSUME LedgerInv, [Next]_vars
               PROVE  LedgerInv'
    OBVIOUS
  <2>1. ASSUME NEW id \in Identities, NEW fp \in Fingerprints,
               Observe(id, fp)
        PROVE  LedgerInv'
    BY <2>1, ResetInv, FoundInv, NewInv, RecycleInv, FullInv, StutterInv
    DEF Observe, ObserveRefused
  <2>2. ASSUME NEW id \in Identities, NEW s \in Slots,
               NEW target \in Stored, NEW st \in Statuses,
               Transition(id, s, target, st)
        PROVE  LedgerInv'
    BY <2>2, TransitionInv
  <2>3. CASE UNCHANGED vars
    BY <2>3, StutterInv
  <2> QED
    BY <2>1, <2>2, <2>3 DEF Next
<1> QED
  BY <1>1, <1>2, PTL DEF Spec

(* Every variable of the ledger keeps its type; no counter underflows.     *)
THEOREM TypeCorrect == Spec => []TypeOK
<1>1. LedgerInv => TypeOK
  BY DEF LedgerInv
<1> QED
  BY <1>1, LedgerInvariant, PTL

(* No identity is ever stored twice, so a replay meets the one entry that  *)
(* records its transaction.                                                *)
THEOREM Uniqueness == Spec => []OneEntryPerIdentity
<1>1. LedgerInv => OneEntryPerIdentity
  BY DEF LedgerInv, Structure
<1> QED
  BY <1>1, LedgerInvariant, PTL

(* The counters always agree with the table: the reset guard can trust     *)
(* active_entry_count.                                                     *)
THEOREM Counting == Spec => []CountersAgree
<1>1. LedgerInv => CountersAgree
  BY DEF LedgerInv
<1> QED
  BY <1>1, LedgerInvariant, PTL

-----------------------------------------------------------------------------
(***************************************************************************)
(* What a step may never do.                                               *)
(***************************************************************************)
LEMMA NoActiveAtReset ==
  ASSUME LedgerInv, NEW id \in Identities, StartsGeneration(id),
         NEW s \in Slots
  PROVE  entries[s].state \notin Active
<1>1. CASE generation = 0
  BY <1>1, IdentityAssumption
  DEF LedgerInv, Structure, OneGeneration, Stored
<1>2. CASE active_entry_count = 0
  <2>1. SlotsIn(Active) = {}
    BY Zenon, <1>2, SlotsInFinite, FS_EmptySet DEF LedgerInv, CountersAgree
  <2> QED
    BY <2>1 DEF SlotsIn
<1> QED
  BY <1>1, <1>2 DEF StartsGeneration

(***************************************************************************)
(* The entry of a slot that a step leaves alone.                           *)
(***************************************************************************)
LEMMA OtherSlots ==
  ASSUME TypeOK, NEW u \in Slots, NEW x,
         entries' = [entries EXCEPT ![u] = x]
  PROVE  /\ entries'[u] = x
         /\ \A t \in Slots : t # u => entries'[t] = entries[t]
  BY DEF TypeOK

(* A transaction under way is never forgotten by recycling, insertion or a *)
(* change of control generation, whatever the capacity and the hash.       *)
THEOREM NoActiveLoss == Spec => ActiveNeverLost
<1> DEFINE Kept(s) == /\ entries'[s].identity = entries[s].identity
                      /\ entries'[s].fingerprint = entries[s].fingerprint
                      /\ entries'[s].state \in Stored
                      /\ Legal(entries[s].state, entries'[s].state)
<1>1. ASSUME LedgerInv, [Next]_vars, NEW s \in Slots,
             entries[s].state \in Active
      PROVE  Kept(s)
  <2> USE <1>1
  <2>0. entries[s] \in Entry
    BY DEF LedgerInv, TypeOK
  <2>1. ASSUME NEW id \in Identities, NEW fp \in Fingerprints,
               ObserveReset(id, fp)
        PROVE  Kept(s)
    BY <2>1, NoActiveAtReset DEF ObserveReset
  <2>2. ASSUME entries'[s] = entries[s]
        PROVE  Kept(s)
    BY <2>2 DEF Legal, Stored
  <2>3. ASSUME NEW id \in Identities, NEW u \in Slots, ObserveFound(id, u)
        PROVE  Kept(s)
    <3>1. CASE s = u
      BY <2>0, <2>3, <3>1 DEF ObserveFound, LedgerInv, TypeOK, Entry, Legal,
                              Stored
    <3>2. CASE s # u
      BY <2>2, <2>3, <3>2 DEF ObserveFound, LedgerInv, TypeOK
    <3> QED
      BY <3>1, <3>2
  <2>4. ASSUME NEW id \in Identities, NEW fp \in Fingerprints,
               NEW u \in Slots, ObserveNew(id, fp, u)
        PROVE  Kept(s)
    <3>1. s # u
      BY <2>4 DEF ObserveNew, InsertAt, IsEmpty, IsTombstone, Active
    <3> QED
      BY <2>2, <2>4, <3>1, OtherSlots DEF ObserveNew, LedgerInv
  <2>5. ASSUME NEW id \in Identities, NEW fp \in Fingerprints,
               NEW u \in Slots, ObserveRecycle(id, fp, u)
        PROVE  Kept(s)
    <3>1. s # u
      BY <2>5 DEF ObserveRecycle, OldestTerminal, Recyclable, Active, Terminal
    <3> QED
      BY <2>2, <2>5, <3>1, OtherSlots DEF ObserveRecycle, LedgerInv
  <2>6. ASSUME NEW id \in Identities, NEW u \in Slots,
               NEW target \in Stored, NEW st \in Statuses,
               Transition(id, u, target, st)
        PROVE  Kept(s)
    <3>1. CASE s = u
      <4> DEFINE status == IF target \in Terminal THEN st ELSE "PENDING"
      <4>1. entries'[s] = [entries[s] EXCEPT !.state = target,
                                             !.last_observed_epoch = NextEpoch,
                                             !.terminal_status = status]
        BY Zenon, <2>6, <3>1, OtherSlots DEF Transition, LedgerInv
      <4> HIDE DEF status
      <4>2. /\ entries'[s].identity = entries[s].identity
            /\ entries'[s].fingerprint = entries[s].fingerprint
            /\ entries'[s].state = target
        BY <2>0, <4>1 DEF Entry
      <4> QED
        BY <2>6, <3>1, <4>2 DEF Transition
    <3>2. CASE s # u
      BY <2>2, <2>6, <3>2, OtherSlots DEF Transition, LedgerInv
    <3> QED
      BY <3>1, <3>2
  <2>7. ASSUME NEW id \in Identities, ObserveFull(id)
        PROVE  Kept(s)
    BY <2>2, <2>7 DEF ObserveFull
  <2>8. CASE UNCHANGED vars
    BY <2>2, <2>8 DEF vars
  <2> HIDE DEF Kept
  <2> QED
    BY <2>1, <2>3, <2>4, <2>5, <2>6, <2>7, <2>8
    DEF Next, Observe, ObserveRefused
<1>2. LedgerInv /\ [Next]_vars =>
        [\A s \in Slots : entries[s].state \in Active => Kept(s)]_vars
  BY <1>1
<1> QED
  BY <1>2, LedgerInvariant, PTL DEF Spec, ActiveNeverLost

(* The recorded outcome of a transaction never changes while the ledger    *)
(* remembers it: a late transition, a replay with another payload or the   *)
(* reuse of its slot cannot rewrite it.                                    *)
THEOREM FinalOutcomes == Spec => OutcomeIsFinal
<1> DEFINE Same(s, t) ==
      /\ entries'[t].state = entries[s].state
      /\ entries'[t].terminal_status = entries[s].terminal_status
      /\ entries'[t].fingerprint = entries[s].fingerprint
<1>1. ASSUME LedgerInv, [Next]_vars, NEW s \in Slots, NEW t \in Slots,
             entries[s].state \in Terminal,
             entries'[t].state \in Stored,
             entries'[t].identity = entries[s].identity
      PROVE  Same(s, t)
  <2> USE <1>1
  <2>0. /\ entries[s].state \in Stored
        /\ entries[s].identity \in Identities
        /\ Generation[entries[s].identity] = generation
    BY DEF LedgerInv, Structure, OneGeneration, Stored
  <2>1. ASSUME entries[t].state \in Stored,
               entries'[t].identity = entries[t].identity
        PROVE  t = s
    BY Zenon, <2>0, <2>1 DEF LedgerInv, Structure, OneEntryPerIdentity
  <2>2. ASSUME entries'[t] = entries[t]
        PROVE  Same(s, t)
    BY <2>1, <2>2
  <2>3. ASSUME NEW id \in Identities, NEW fp \in Fingerprints,
               ObserveReset(id, fp)
        PROVE  Same(s, t)
    <3>1. entries[s].identity = id
      BY <2>3 DEF ObserveReset, Cleared, NewEntry, Stored, Active, Terminal
    <3> QED
      BY <2>0, <2>3, <3>1, IdentityAssumption
      DEF ObserveReset, StartsGeneration, LedgerInv, TypeOK
  <2>4. ASSUME NEW id \in Identities, NEW u \in Slots, ObserveFound(id, u)
        PROVE  Same(s, t)
    <3>1. /\ entries'[t].state = entries[t].state
          /\ entries'[t].identity = entries[t].identity
          /\ entries'[t].terminal_status = entries[t].terminal_status
          /\ entries'[t].fingerprint = entries[t].fingerprint
      BY <2>4 DEF ObserveFound, LedgerInv, TypeOK, Entry
    <3> QED
      BY <2>1, <3>1
  <2>5. ASSUME NEW id \in Identities, NEW u \in Slots, NEW fp,
               NotFound(id),
               entries' = [entries EXCEPT ![u] = NewEntry(id, fp, NextEpoch)]
        PROVE  Same(s, t)
    <3>1. entries'[u].identity = id
      <4>1. NewEntry(id, fp, NextEpoch).identity = id
        BY DEF NewEntry
      <4>2. entries'[u] = NewEntry(id, fp, NextEpoch)
        BY Zenon, <2>5, OtherSlots DEF LedgerInv
      <4> QED
        BY <4>1, <4>2
    <3>2. entries[s].identity # id
      BY <2>0, <2>5, NotFoundIsAbsent DEF LedgerInv, Structure, Holds
    <3>3. t # u
      BY <3>1, <3>2
    <3> QED
      BY <2>2, <2>5, <3>3, OtherSlots DEF LedgerInv
  <2>6. ASSUME NEW id \in Identities, NEW u \in Slots,
               NEW target \in Stored, NEW st \in Statuses,
               Transition(id, u, target, st)
        PROVE  Same(s, t)
    <3>1. CASE t = u
      <4>1. entries[t].state \in Active
        BY <2>6, <3>1 DEF Transition
      <4>2. entries'[t].identity = entries[t].identity
        BY <2>6, <3>1, OtherSlots DEF Transition, LedgerInv, TypeOK, Entry
      <4> QED
        BY <2>1, <4>1, <4>2 DEF Stored, Active, Terminal
    <3>2. CASE t # u
      BY <2>2, <2>6, <3>2, OtherSlots DEF Transition, LedgerInv
    <3> QED
      BY <3>1, <3>2
  <2>7. ASSUME NEW id \in Identities, ObserveFull(id)
        PROVE  Same(s, t)
    BY <2>2, <2>7 DEF ObserveFull
  <2>8. CASE UNCHANGED vars
    BY <2>2, <2>8 DEF vars
  <2> HIDE DEF Same
  <2> QED
    BY SMTT(60), <2>3, <2>4, <2>5, <2>6, <2>7, <2>8
    DEF Next, Observe, ObserveRefused, ObserveNew, ObserveRecycle
<1>2. LedgerInv /\ [Next]_vars =>
        [\A s, t \in Slots :
           /\ entries[s].state \in Terminal
           /\ entries'[t].state \in Stored
           /\ entries'[t].identity = entries[s].identity
           => Same(s, t)]_vars
  BY <1>1
<1> QED
  BY <1>2, LedgerInvariant, PTL DEF Spec, OutcomeIsFinal
=============================================================================
