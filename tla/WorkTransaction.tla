-------------------------- MODULE WorkTransaction --------------------------
(***************************************************************************)
(* The work-transaction ledger of runtime/work_transaction.c: a fixed-size *)
(* open-addressing table that remembers, for every transaction identity of *)
(* the current control generation, how far its transaction has come, so    *)
(* that a replayed request is recognised instead of being executed again.  *)
(*                                                                         *)
(* An entry is EMPTY, a TOMBSTONE, active (PREPARED, ACCEPTED, EXECUTING)  *)
(* or terminal (COMMITTED, CANCELLED, FAILED).  Terminal entries are       *)
(* recycled, least recently observed first, when the table is full.        *)
(*                                                                         *)
(* EpochMax stands for UINT64_MAX: the epoch counter wraps from it to 1,   *)
(* and a small value lets the model checker go round the wrap.             *)
(***************************************************************************)
EXTENDS Integers, FiniteSets

CONSTANTS
  Identities,     \* transaction identities
  NoIdentity,     \* the all-zero identity of a cleared entry
  Generation,     \* control_generation, part of every identity
  Start,          \* hash of the identity modulo the capacity
  Capacity,       \* entry_capacity
  Fingerprints,   \* payload fingerprints (never 0)
  Statuses,       \* what a terminal transition may record
  EpochMax        \* the width of the epoch counter

Slots == 0 .. Capacity - 1

ASSUME CapacityAssumption == Capacity \in Nat \ {0}
ASSUME EpochAssumption == EpochMax \in Nat \ {0}
ASSUME IdentityAssumption ==
  /\ NoIdentity \notin Identities
  /\ Generation \in [Identities -> Nat \ {0}]
  /\ Start \in [Identities -> Slots]
ASSUME FingerprintAssumption == Fingerprints \subseteq Nat \ {0}

Active == {"PREPARED", "ACCEPTED", "EXECUTING"}
Terminal == {"COMMITTED", "CANCELLED", "FAILED"}
Stored == Active \cup Terminal
States == Stored \cup {"EMPTY", "TOMBSTONE"}

(***************************************************************************)
(* The status of an entry: PENDING while it is active, OK (zero) in a      *)
(* cleared entry, what the caller recorded in a terminal one.              *)
(***************************************************************************)
EntryStatuses == Statuses \cup {"PENDING", "OK"}

Entry == [state : States,
          identity : Identities \cup {NoIdentity},
          fingerprint : Fingerprints \cup {0},
          last_observed_epoch : 0 .. EpochMax,
          terminal_status : EntryStatuses]

VARIABLES
  entries,        \* the table
  entry_count, active_entry_count, terminal_entry_count, tombstone_entry_count,
  epoch,          \* stamps observations and transitions
  generation      \* active_control_generation, 0 before the first observation

counts == <<entry_count, active_entry_count, terminal_entry_count,
            tombstone_entry_count>>
vars == <<entries, counts, epoch, generation>>

Cleared(state) ==
  [state |-> state, identity |-> NoIdentity, fingerprint |-> 0,
   last_observed_epoch |-> 0, terminal_status |-> "OK"]

-----------------------------------------------------------------------------
(***************************************************************************)
(* Probing.                                                                *)
(***************************************************************************)
Probe(id, k) == (Start[id] + k) % Capacity

IsEmpty(s) == entries[s].state = "EMPTY"
IsTombstone(s) == entries[s].state = "TOMBSTONE"
Holds(s, id) == entries[s].state \in Stored /\ entries[s].identity = id

(***************************************************************************)
(* The probe of id gets as far as its k-th slot.                           *)
(***************************************************************************)
Reaches(id, k) == \A j \in 0 .. k - 1 : ~IsEmpty(Probe(id, j))

(* Mutation: the probe loop ends one slot early.                           *)
FoundAtShort(id, s) ==
  \E k \in 0 .. Capacity - 2 : /\ s = Probe(id, k)
                               /\ Reaches(id, k)
                               /\ Holds(s, id)

FoundAt(id, s) ==
  \E k \in Slots : /\ s = Probe(id, k)
                   /\ Reaches(id, k)
                   /\ Holds(s, id)
                   /\ \A j \in 0 .. k - 1 : ~Holds(Probe(id, j), id)

NotFound(id) == \A s \in Slots : ~FoundAt(id, s)

(* Mutation: any free slot is taken, not the first on the probe path.      *)

(***************************************************************************)
(* SelectInsertionEntry: the first tombstone met before the first EMPTY    *)
(* slot, else that EMPTY slot.                                             *)
(***************************************************************************)
InsertAt(id, s) ==
  \E k \in Slots :
    /\ s = Probe(id, k)
    /\ Reaches(id, k)
    /\ \A j \in 0 .. k - 1 : ~IsTombstone(Probe(id, j))
    /\ IsTombstone(s) \/ IsEmpty(s)

NoInsertion(id) == \A s \in Slots : ~InsertAt(id, s)

(* Mutation: the recycler takes the oldest entry, terminal or not.         *)
RecyclableAny(s) == entries[s].last_observed_epoch < EpochMax

(***************************************************************************)
(* RecycleOldestTerminalEntry keeps the first terminal entry whose epoch   *)
(* is below the least one so far, starting from UINT64_MAX: an entry       *)
(* stamped with the very last epoch is never chosen.                       *)
(***************************************************************************)
Recyclable(s) == /\ entries[s].state \in Terminal
                 /\ entries[s].last_observed_epoch < EpochMax

OldestTerminal(s) ==
  /\ Recyclable(s)
  /\ \A t \in Slots : Recyclable(t) =>
       \/ entries[s].last_observed_epoch < entries[t].last_observed_epoch
       \/ /\ entries[s].last_observed_epoch = entries[t].last_observed_epoch
          /\ s <= t

NothingRecyclable == \A s \in Slots : ~Recyclable(s)

NextEpoch == IF epoch = EpochMax THEN 1 ELSE epoch + 1

NewEntry(id, fp, stamp) ==
  [state |-> "PREPARED", identity |-> id, fingerprint |-> fp,
   last_observed_epoch |-> stamp, terminal_status |-> "PENDING"]

-----------------------------------------------------------------------------
Init ==
  /\ entries = [s \in Slots |-> Cleared("EMPTY")]
  /\ entry_count = 0
  /\ active_entry_count = 0
  /\ terminal_entry_count = 0
  /\ tombstone_entry_count = 0
  /\ epoch = 0
  /\ generation = 0

(***************************************************************************)
(* PrepareControlGeneration: what the generation of an observed identity   *)
(* asks of the ledger.                                                     *)
SameGeneration(id) == generation # 0 /\ Generation[id] = generation

StartsGeneration(id) ==
  \/ generation = 0
  \/ Generation[id] > generation /\ active_entry_count = 0

RefusedGeneration(id) ==
  /\ generation # 0
  /\ \/ Generation[id] < generation
     \/ Generation[id] > generation /\ active_entry_count # 0

(***************************************************************************)
(* Observe, one action per outcome.                                        *)
(***************************************************************************)

(* The ledger is reset for the new generation; the entry takes the first   *)
(* slot of its probe path in the now empty table.                          *)
ObserveReset(id, fp) ==
  /\ StartsGeneration(id)
  /\ entries' = [s \in Slots |-> IF s = Probe(id, 0)
                                   THEN NewEntry(id, fp, 1)
                                   ELSE Cleared("EMPTY")]
  /\ entry_count' = 1
  /\ active_entry_count' = 1
  /\ terminal_entry_count' = 0
  /\ tombstone_entry_count' = 0
  /\ epoch' = 1
  /\ generation' = Generation[id]

(* A known identity is stamped, whatever its payload: the caller is told   *)
(* CONFLICT, REPLAY_TERMINAL or REPLAY_ACTIVE.                             *)
ObserveFound(id, s) ==
  /\ SameGeneration(id)
  /\ FoundAt(id, s)
  /\ epoch' = NextEpoch
  /\ entries' = [entries EXCEPT ![s].last_observed_epoch = NextEpoch]
  /\ UNCHANGED <<counts, generation>>

ObserveNew(id, fp, s) ==
  /\ SameGeneration(id)
  /\ NotFound(id)
  /\ InsertAt(id, s)
  /\ epoch' = NextEpoch
  /\ entries' = [entries EXCEPT ![s] = NewEntry(id, fp, NextEpoch)]
  /\ tombstone_entry_count' =
       IF IsTombstone(s) THEN tombstone_entry_count - 1
                         ELSE tombstone_entry_count
  /\ entry_count' = entry_count + 1
  /\ active_entry_count' = active_entry_count + 1
  /\ UNCHANGED <<terminal_entry_count, generation>>

(* Mutation: recycling forgets that a terminal entry is gone.              *)
ObserveRecycleUncounted(id, fp, s) ==
  /\ SameGeneration(id)
  /\ NotFound(id)
  /\ NoInsertion(id)
  /\ OldestTerminal(s)
  /\ epoch' = NextEpoch
  /\ entries' = [entries EXCEPT ![s] = NewEntry(id, fp, NextEpoch)]
  /\ active_entry_count' = active_entry_count + 1
  /\ UNCHANGED <<entry_count, terminal_entry_count, tombstone_entry_count,
                 generation>>

(* No free slot: the oldest terminal entry becomes a tombstone, the only   *)
(* one in the table, which the retried insertion then takes.               *)
ObserveRecycle(id, fp, s) ==
  /\ SameGeneration(id)
  /\ NotFound(id)
  /\ NoInsertion(id)
  /\ OldestTerminal(s)
  /\ epoch' = NextEpoch
  /\ entries' = [entries EXCEPT ![s] = NewEntry(id, fp, NextEpoch)]
  /\ terminal_entry_count' = terminal_entry_count - 1
  /\ active_entry_count' = active_entry_count + 1
  /\ UNCHANGED <<entry_count, tombstone_entry_count, generation>>

(* CAPACITY_EXCEEDED: only the epoch has moved.                            *)
ObserveFull(id) ==
  /\ SameGeneration(id)
  /\ NotFound(id)
  /\ NoInsertion(id)
  /\ NothingRecyclable
  /\ epoch' = NextEpoch
  /\ UNCHANGED <<entries, counts, generation>>

ObserveRefused(id) ==
  /\ RefusedGeneration(id)
  /\ UNCHANGED vars

(***************************************************************************)
(* TransitionIsLegal and Transition.  A transition of an unknown or a      *)
(* terminal entry, or an illegal one, changes nothing.                     *)
(***************************************************************************)
Legal(from, to) ==
  \/ from = to
  \/ from = "PREPARED" /\ to \in {"ACCEPTED", "CANCELLED", "FAILED"}
  \/ from = "ACCEPTED" /\ to \in {"EXECUTING", "CANCELLED", "FAILED"}
  \/ from = "EXECUTING" /\ to \in Terminal

(* Mutation: a transition overwrites whatever it finds.                    *)
TransitionOverwrites(id, s, target, status) ==
  /\ FoundAt(id, s)
  /\ epoch' = NextEpoch
  /\ entries' = [entries EXCEPT ![s].state = target,
                                ![s].terminal_status = status]
  /\ UNCHANGED <<counts, generation>>

Transition(id, s, target, status) ==
  /\ FoundAt(id, s)
  /\ entries[s].state \in Active
  /\ Legal(entries[s].state, target)
  /\ epoch' = NextEpoch
  /\ entries' = [entries EXCEPT ![s] =
       [@ EXCEPT !.state = target,
                 !.last_observed_epoch = NextEpoch,
                 !.terminal_status = IF target \in Terminal THEN status
                                                            ELSE "PENDING"]]
  /\ active_entry_count' =
       IF target \in Terminal THEN active_entry_count - 1
                              ELSE active_entry_count
  /\ terminal_entry_count' =
       IF target \in Terminal THEN terminal_entry_count + 1
                              ELSE terminal_entry_count
  /\ UNCHANGED <<entry_count, tombstone_entry_count, generation>>

Observe(id, fp) ==
  \/ ObserveReset(id, fp)
  \/ \E s \in Slots : ObserveFound(id, s)
  \/ \E s \in Slots : ObserveNew(id, fp, s)
  \/ \E s \in Slots : ObserveRecycle(id, fp, s)
  \/ ObserveFull(id)
  \/ ObserveRefused(id)

Next ==
  \/ \E id \in Identities, fp \in Fingerprints : Observe(id, fp)
  \/ \E id \in Identities, s \in Slots, target \in Stored, st \in Statuses :
       Transition(id, s, target, st)

Spec == Init /\ [][Next]_vars

-----------------------------------------------------------------------------
(***************************************************************************)
(* Properties.                                                             *)
(***************************************************************************)

(* Every variable of the ledger has its type; the counters are naturals.   *)
TypeOK ==
  /\ entries \in [Slots -> Entry]
  /\ entry_count \in Nat
  /\ active_entry_count \in Nat
  /\ terminal_entry_count \in Nat
  /\ tombstone_entry_count \in Nat
  /\ epoch \in 0 .. EpochMax
  /\ generation \in Nat

(* No identity is stored twice, however entries are recycled and           *)
(* tombstones reused: the probe in Observe never misses an entry.          *)
OneEntryPerIdentity ==
  \A s, t \in Slots :
    /\ entries[s].state \in Stored
    /\ entries[t].state \in Stored
    /\ entries[s].identity = entries[t].identity
    => s = t

(* Every stored entry lies on the probe path of its identity with no EMPTY *)
(* slot before it, so FindInternal, which stops at EMPTY, reaches it.      *)
ProbeReachable ==
  \A s \in Slots : entries[s].state \in Stored =>
    \E k \in Slots : /\ s = Probe(entries[s].identity, k)
                     /\ Reaches(entries[s].identity, k)

SlotsIn(set) == {s \in Slots : entries[s].state \in set}

(* The four counters, updated incrementally by Observe, the recycler and   *)
(* Transition, count the entries in the table: the reset guard             *)
(* (HasActiveEntries) reads a counter, not the table.                      *)
CountersAgree ==
  /\ entry_count = Cardinality(SlotsIn(Stored))
  /\ active_entry_count = Cardinality(SlotsIn(Active))
  /\ terminal_entry_count = Cardinality(SlotsIn(Terminal))
  /\ tombstone_entry_count = Cardinality(SlotsIn({"TOMBSTONE"}))

(* The ledger never mixes control generations: whatever is stored belongs  *)
(* to the active one.                                                      *)
OneGeneration ==
  \A s \in Slots : entries[s].state \in Stored =>
    /\ entries[s].identity \in Identities
    /\ Generation[entries[s].identity] = generation

(* A transaction that has not reached a terminal state is never forgotten: *)
(* no recycling, insertion or generation reset touches its entry, which    *)
(* only moves along TransitionIsLegal and keeps its payload fingerprint.   *)
ActiveNeverLost ==
  [][\A s \in Slots : entries[s].state \in Active =>
       /\ entries'[s].identity = entries[s].identity
       /\ entries'[s].fingerprint = entries[s].fingerprint
       /\ entries'[s].state \in Stored
       /\ Legal(entries[s].state, entries'[s].state)]_vars

(* The recorded outcome of a transaction is final: as long as its identity *)
(* is in the table, in this slot or another, no replay, late transition or *)
(* recycling changes its state, its status or its payload fingerprint.     *)
OutcomeIsFinal ==
  [][\A s, t \in Slots :
       /\ entries[s].state \in Terminal
       /\ entries'[t].state \in Stored
       /\ entries'[t].identity = entries[s].identity
       => /\ entries'[t].state = entries[s].state
          /\ entries'[t].terminal_status = entries[s].terminal_status
          /\ entries'[t].fingerprint = entries[s].fingerprint]_vars
=============================================================================
