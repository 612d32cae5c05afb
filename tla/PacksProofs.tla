---------------------------- MODULE PacksProofs ----------------------------
(***************************************************************************)
(* What is proved of the chat layer's context packs, for any versions,     *)
(* sessions and length of a day: every version that a state lists is       *)
(* stored, the version being warmed is kept, and a session keeps the       *)
(* version it was given.                                                   *)
(***************************************************************************)
EXTENDS ContextPacks, TLAPS

-----------------------------------------------------------------------------
(* Context packs.                                                          *)

\* A state as Workspace.save writes it.
IsState(state) ==
  /\ state = [current |-> state.current, versions |-> state.versions,
              pins |-> state.pins]
  /\ state.current \in Version \cup {NoVersion}
  /\ DOMAIN state.versions \subseteq Version
  /\ state.versions \in [DOMAIN state.versions -> [built : Int, used : Int]]
  /\ state.pins \in [DOMAIN state.pins -> [version : Version, used : Int]]

IsRefresh(r) ==
  /\ r = [again |-> r.again, at |-> r.at, definition |-> r.definition,
          commit |-> r.commit]
  /\ r.at \in {"START", "BUILD", "BUILT", "WARM"}
  /\ r.at # "START" => r.definition \in Definitions

PackTypes ==
  /\ hour \in Int
  /\ definition \in Definitions \cup {NoDefinition}
  /\ states = NoState \/ IsState(states)
  /\ disk = NoState \/ IsState(disk)
  /\ refresh = NoRefresh \/ IsRefresh(refresh)

ServedTypes ==
  /\ served \in [Sittings -> {NotServed} \cup [version : Version, at : Int]]
  /\ \A s \in Sittings : served[s] # NotServed => served[s].at <= hour

\* A pack that is being built or warmed is defined: forget cancels the task.
BuildingDefined == refresh.at \in {"BUILD", "BUILT", "WARM"} => definition # NoDefinition

\* The state holds a session's version, used since the session was given it.
Holds(state, s) ==
  /\ s \in DOMAIN state.pins
  /\ state.pins[s].version = served[s].version
  /\ state.pins[s].used >= served[s].at
  /\ served[s].version \in DOMAIN state.versions
  /\ state.versions[served[s].version].used >= served[s].at

\* What a session was given less than a day ago is still held, in memory.
SessionsHeld ==
  ~Allowed("RESTART") =>
    \A s \in Sittings : served[s] # NotServed =>
      /\ states # NoState
      /\ hour - served[s].at < DayLength => Holds(states, s)

PackInv ==
  /\ PackTypes /\ ServedTypes /\ ServedIsStored /\ WarmingKept /\ BuildingDefined
  /\ SessionsHeld

-----------------------------------------------------------------------------
\* What one state says: its versions have their ids on disk.
Stocked(state, stock) ==
  /\ DOMAIN state.versions \subseteq stock
  /\ state.current # NoVersion => state.current \in DOMAIN state.versions

LEMMA StockedBoth ==
  ServedIsStored <=> Stocked(State, files) /\ (disk # NoState => Stocked(disk, files))
BY DEF ServedIsStored, Stocked

LEMMA StateApart ==
  ASSUME NEW state, IsState(state)
  PROVE  state # NoState
<1> DEFINE whole == [current |-> state.current, versions |-> state.versions,
                     pins |-> state.pins]
<1>1. "current" \in DOMAIN whole
  OBVIOUS
<1>2. DOMAIN NoState = {"versions"}
  BY DEF NoState
<1>3. state = whole
  BY SMTT(60) DEF IsState
<1> HIDE DEF whole
<1> QED
  BY SMTT(60), <1>1, <1>2, <1>3

LEMMA EmptyIsState == IsState(EmptyState) /\ Stocked(EmptyState, {})
BY Zenon DEF IsState, EmptyState, Stocked

LEMMA StateIsState ==
  ASSUME PackTypes
  PROVE  IsState(State)
BY EmptyIsState DEF PackTypes, State

\* Workspace.store keeps a state's versions, marks the new one as used now and
\* leaves the rest.
LEMMA StoredKeeps ==
  ASSUME NEW state, IsState(state), NEW v \in Version, hour \in Int
  PROVE  LET new == Stored(state, v)
         IN  /\ IsState(new)
             /\ DOMAIN new.versions = DOMAIN state.versions \cup {v}
             /\ new.current = state.current /\ new.pins = state.pins
             /\ \A w \in DOMAIN state.versions :
                  w # v => new.versions[w] = state.versions[w]
             /\ new.versions[v].used = hour
<1> DEFINE built == IF v \in DOMAIN state.versions THEN state.versions[v].built ELSE hour
           versions == [w \in DOMAIN state.versions \cup {v} |->
                          IF w # v THEN state.versions[w]
                          ELSE [built |-> built, used |-> hour]]
           new == Stored(state, v)
<1>1. built \in Int
  BY DEF IsState
<1> HIDE DEF built
<1>2. versions \in [DOMAIN state.versions \cup {v} -> [built : Int, used : Int]]
  BY <1>1 DEF IsState
<1>3. versions[v].used = hour
  OBVIOUS
<1>4. \A w \in DOMAIN state.versions : w # v => versions[w] = state.versions[w]
  OBVIOUS
<1>5. new = [state EXCEPT !.versions = versions]
  BY DEF Stored, built
<1> HIDE DEF versions, new
<1>6. new = [current |-> state.current, versions |-> versions, pins |-> state.pins]
  BY <1>5 DEF IsState
<1>7. IsState(new)
  BY <1>2, <1>6 DEF IsState
<1> QED
  BY <1>2, <1>3, <1>4, <1>6, <1>7 DEF new

\* mark_warm makes the version current; drop_unused keeps it and every version
\* used within a day, and the sessions' pins to them.
LEMMA KeptKeeps ==
  ASSUME NEW state, IsState(state), NEW v \in DOMAIN state.versions, hour \in Int
  PROVE  LET marked == [state EXCEPT !.current = v]
             new == Kept(marked)
         IN  /\ IsState(new)
             /\ new.current = v
             /\ DOMAIN new.versions = DOMAIN state.versions \ Unused(marked)
             /\ v \in DOMAIN new.versions
             /\ \A w \in DOMAIN state.versions :
                  w = v \/ hour - state.versions[w].used < DayLength =>
                    w \in DOMAIN new.versions /\ new.versions[w] = state.versions[w]
             /\ \A s \in DOMAIN state.pins :
                  /\ state.pins[s].version \in DOMAIN new.versions
                  /\ hour - state.pins[s].used < DayLength
                  => s \in DOMAIN new.pins /\ new.pins[s] = state.pins[s]
<1> DEFINE marked == [state EXCEPT !.current = v]
           new == Kept(marked)
           left == DOMAIN state.versions \ Unused(marked)
           held == {s \in DOMAIN state.pins :
                      /\ state.pins[s].version \in left
                      /\ hour - state.pins[s].used < DayLength}
           versions == [w \in left |-> state.versions[w]]
           pins == [s \in held |-> state.pins[s]]
<1>1. marked = [current |-> v, versions |-> state.versions, pins |-> state.pins]
  BY DEF IsState
<1>2. Unused(marked) = {w \in DOMAIN state.versions \ {v} :
                          hour - state.versions[w].used >= DayLength}
  BY <1>1 DEF Unused
<1>3. new = [marked EXCEPT !.versions = versions, !.pins = pins]
  BY <1>1, ZenonT(60) DEF Kept
<1>4. \A w \in DOMAIN state.versions : state.versions[w].used \in Int
  BY DEF IsState
<1>5. \A w \in DOMAIN state.versions :
        w = v \/ hour - state.versions[w].used < DayLength => w \in left
  BY <1>2, <1>4, PackAssumption
<1>6. versions \in [left -> [built : Int, used : Int]] /\ left \subseteq Version
  BY DEF IsState
<1>7. pins \in [held -> [version : Version, used : Int]]
  BY DEF IsState
<1>8. /\ \A w \in left : versions[w] = state.versions[w]
      /\ \A s \in held : pins[s] = state.pins[s]
  OBVIOUS
<1>9. \A s \in DOMAIN state.pins :
        /\ state.pins[s].version \in left
        /\ hour - state.pins[s].used < DayLength
        => s \in held
  OBVIOUS
<1> HIDE DEF marked, new, versions, pins, left, held
<1>10. new = [current |-> v, versions |-> versions, pins |-> pins]
  BY Zenon, <1>1, <1>3
<1>11. IsState(new)
  <2>1. v \in Version
    BY DEF IsState
  <2> QED
    BY <1>6, <1>7, <1>10, <2>1 DEF IsState
<1>12. DOMAIN new.versions = left /\ DOMAIN new.pins = held
  BY <1>6, <1>7, <1>10
<1> QED
  BY <1>5, <1>8, <1>9, <1>10, <1>11, <1>12 DEF marked, new, left

\* pin gives the session its version and marks both as used now.
LEMMA PinnedKeeps ==
  ASSUME NEW state, IsState(state), NEW v \in DOMAIN state.versions, NEW s,
         hour \in Int, NEW new, new = Pinned(state, s, v)
  PROVE  /\ IsState(new)
         /\ new.current = state.current
         /\ DOMAIN new.versions = DOMAIN state.versions
         /\ new.versions[v].used = hour
         /\ \A w \in DOMAIN state.versions : w # v => new.versions[w] = state.versions[w]
         /\ DOMAIN new.pins = DOMAIN state.pins \cup {s}
         /\ new.pins[s] = [version |-> v, used |-> hour]
         /\ \A q \in DOMAIN state.pins : q # s => new.pins[q] = state.pins[q]
<1> DEFINE versions == [state.versions EXCEPT ![v].used = hour]
           pins == [q \in DOMAIN state.pins \cup {s} |->
                      IF q = s THEN [version |-> v, used |-> hour] ELSE state.pins[q]]
<1>1. v \in Version
  BY DEF IsState
<1>2. /\ versions \in [DOMAIN state.versions -> [built : Int, used : Int]]
      /\ versions[v].used = hour
      /\ \A w \in DOMAIN state.versions : w # v => versions[w] = state.versions[w]
  BY DEF IsState
<1>3. pins \in [DOMAIN state.pins \cup {s} -> [version : Version, used : Int]]
  BY <1>1 DEF IsState
<1>4. /\ pins[s] = [version |-> v, used |-> hour]
      /\ \A q \in DOMAIN state.pins : q # s => pins[q] = state.pins[q]
  OBVIOUS
<1>5. new = [state EXCEPT !.versions = versions, !.pins = pins]
  BY DEF Pinned, IsState
<1> HIDE DEF versions, pins
<1>6. new = [current |-> state.current, versions |-> versions, pins |-> pins]
  BY Zenon, <1>5 DEF IsState
<1>7. IsState(new)
  BY <1>2, <1>3, <1>6 DEF IsState
<1> QED
  BY <1>2, <1>3, <1>4, <1>6, <1>7

-----------------------------------------------------------------------------
LEMMA PacksInitially == PackInit => PackInv
<1> SUFFICES ASSUME PackInit PROVE PackInv
  OBVIOUS
<1>1. PackTypes /\ ServedTypes
  BY DEF PackInit, PackTypes, ServedTypes
<1>2. State = EmptyState /\ files = {} /\ disk = NoState
  BY DEF PackInit, State
<1>3. ServedIsStored
  BY <1>2, EmptyIsState, StockedBoth
<1>4. refresh.at = "NONE"
  BY DEF PackInit, NoRefresh
<1>5. WarmingKept /\ BuildingDefined
  BY <1>4 DEF WarmingKept, BuildingDefined, PackAt
<1>6. SessionsHeld
  BY DEF PackInit, SessionsHeld
<1> QED
  BY <1>1, <1>3, <1>5, <1>6 DEF PackInv

\* A step that leaves both states, the versions on disk and the sessions alone.
LEMMA StatesAlone ==
  ASSUME PackInv, UNCHANGED <<disk, states, files, served, packPlay>>,
         hour' = hour \/ hour' = hour + 1
  PROVE  /\ hour' \in Int
         /\ states' = NoState \/ IsState(states')
         /\ disk' = NoState \/ IsState(disk')
         /\ ServedTypes' /\ ServedIsStored' /\ SessionsHeld'
<1>1. hour \in Int /\ hour' \in Int /\ hour <= hour'
  BY DEF PackInv, PackTypes
<1>2. ServedTypes'
  BY <1>1 DEF PackInv, ServedTypes
<1>3. ServedIsStored'
  BY SMTT(60) DEF PackInv, ServedIsStored, State
<1>4. SessionsHeld'
  <2> SUFFICES ASSUME ~Allowed("RESTART")', NEW s \in Sittings, served'[s] # NotServed
               PROVE  /\ states' # NoState
                      /\ hour' - served'[s].at < DayLength => Holds(states, s)'
    BY DEF SessionsHeld
  <2>1. /\ states # NoState
        /\ hour - served[s].at < DayLength => Holds(states, s)
    BY DEF PackInv, SessionsHeld, Allowed
  <2>2. served[s].at \in Int
    BY <1>1 DEF PackInv, ServedTypes
  <2>3. hour' - served'[s].at < DayLength => hour - served[s].at < DayLength
    BY <1>1, <2>2, PackAssumption
  <2> QED
    BY SMTT(60), <2>1, <2>3 DEF Holds
<1> QED
  BY <1>1, <1>2, <1>3, <1>4 DEF PackInv, PackTypes

\* A step that leaves the pack's task where it is, or asks it for one more round.
LEMMA TaskAgain ==
  ASSUME PackInv, State' = State, files' = files,
         definition' = definition \/ definition' \in Definitions,
         refresh' = refresh \/ refresh' = RefreshScheduled
  PROVE  /\ refresh' = NoRefresh \/ IsRefresh(refresh')
         /\ WarmingKept' /\ BuildingDefined'
<1>1. /\ refresh' = NoRefresh \/ IsRefresh(refresh')
      /\ refresh'.at \in {refresh.at, "START"}
      /\ refresh'.at # "START" => /\ refresh'.definition = refresh.definition
                                  /\ refresh'.commit = refresh.commit
  <2>1. CASE refresh = NoRefresh /\ refresh' # refresh
    <3>1. refresh' = NewRefresh
      BY <2>1 DEF RefreshScheduled
    <3> QED
      BY <3>1 DEF NewRefresh, IsRefresh
  <2>2. CASE refresh # NoRefresh /\ refresh' # refresh
    <3>1. refresh' = [refresh EXCEPT !.again = TRUE]
      BY <2>2 DEF RefreshScheduled
    <3>2. IsRefresh(refresh)
      BY <2>2 DEF PackInv, PackTypes
    <3>3. refresh' = [again |-> TRUE, at |-> refresh.at,
                      definition |-> refresh.definition, commit |-> refresh.commit]
      BY Zenon, <3>1, <3>2 DEF IsRefresh
    <3> QED
      BY <3>2, <3>3 DEF IsRefresh
  <2>3. CASE refresh' = refresh
    BY <2>3 DEF PackInv, PackTypes
  <2> QED
    BY <2>1, <2>2, <2>3
<1>2. definition # NoDefinition => definition' # NoDefinition
  BY PackAssumption
<1>3. BuildingDefined'
  BY SMTT(60), <1>1, <1>2 DEF PackInv, BuildingDefined
<1>4. WarmingKept'
  BY <1>1, <1>2 DEF PackInv, WarmingKept, PackAt, Building
<1> QED
  BY <1>1, <1>3, <1>4

LEMMA TaskAlone ==
  ASSUME PackInv, UNCHANGED <<disk, states, files>>,
         definition' = definition \/ definition' \in Definitions,
         refresh' = refresh \/ refresh' = RefreshScheduled
  PROVE  /\ refresh' = NoRefresh \/ IsRefresh(refresh')
         /\ WarmingKept' /\ BuildingDefined'
<1>1. State' = State
  BY DEF State
<1> QED
  BY <1>1, TaskAgain

\* A new state in memory, saved or not, whose versions have their ids.
LEMMA NewState ==
  ASSUME PackInv, NEW new, IsState(new), states' = new, Stocked(new, files'),
         disk' = new \/ (disk' = disk /\ files \subseteq files')
  PROVE  /\ IsState(states') /\ State' = new
         /\ disk' = NoState \/ IsState(disk')
         /\ ServedIsStored'
<1>1. new # NoState
  BY StateApart
<1>2. State' = new
  BY <1>1 DEF State
<1>3. disk' = NoState \/ IsState(disk')
  BY SMTT(60) DEF PackInv, PackTypes
<1>4. disk' # NoState => Stocked(disk', files')
  BY StockedBoth DEF PackInv, Stocked
<1>5. ServedIsStored'
  BY <1>2, <1>4 DEF ServedIsStored, Stocked
<1> QED
  BY <1>2, <1>3, <1>5

\* A step that gives no session anything and holds on to what was held.
LEMMA SessionsStay ==
  ASSUME PackInv, NEW new, IsState(new), states' = new,
         UNCHANGED <<served, hour, packPlay>>,
         \A s \in Sittings :
           /\ served[s] # NotServed /\ hour - served[s].at < DayLength
           /\ Holds(State, s)
           => Holds(new, s)
  PROVE  SessionsHeld' /\ ServedTypes'
<1>1. new # NoState
  BY SMTT(60), StateApart
<1>2. ASSUME ~Allowed("RESTART"), NEW s \in Sittings, served[s] # NotServed,
             hour - served[s].at < DayLength
      PROVE  Holds(new, s)
  BY SMTT(60), <1>2 DEF PackInv, SessionsHeld, State
<1>3. SessionsHeld'
  BY <1>1, <1>2 DEF SessionsHeld, Allowed, Holds
<1> QED
  BY <1>3 DEF PackInv, ServedTypes

\* The state is read, and saved as it is.
LEMMA StateSaved ==
  ASSUME PackInv, Save(State), UNCHANGED <<files, served, hour, packPlay>>
  PROVE  /\ IsState(states') /\ State' = State
         /\ disk' = NoState \/ IsState(disk')
         /\ ServedIsStored' /\ SessionsHeld' /\ ServedTypes'
<1>1. IsState(State) /\ Stocked(State, files)
  BY StateIsState, StockedBoth DEF PackInv
<1>2. states' = State /\ (disk' = State \/ disk' = disk)
  BY SMTT(60) DEF Save
<1> DEFINE new == State
<1> HIDE DEF new
<1>3. SessionsHeld' /\ ServedTypes'
  <2>1. IsState(new) /\ states' = new
    BY <1>1, <1>2 DEF new
  <2>2. \A s \in Sittings : Holds(State, s) => Holds(new, s)
    BY DEF new
  <2> QED
    BY <2>1, <2>2, SessionsStay
<1>4. /\ IsState(states') /\ State' = new
      /\ disk' = NoState \/ IsState(disk')
      /\ ServedIsStored'
  <2>1. /\ IsState(new) /\ states' = new /\ Stocked(new, files')
        /\ disk' = new \/ (disk' = disk /\ files \subseteq files')
    BY <1>1, <1>2 DEF new
  <2> QED
    BY <2>1, NewState
<1> QED
  BY <1>3, <1>4 DEF new

LEMMA RoundEnds ==
  ASSUME IsRefresh(refresh)
  PROVE  /\ Round = NoRefresh \/ IsRefresh(Round)
         /\ Round.at \in {"NONE", "START"}
<1>1. CASE refresh.again
  <2>1. Round = [refresh EXCEPT !.at = "START"]
    BY <1>1 DEF Round
  <2>2. Round = [again |-> refresh.again, at |-> "START",
                 definition |-> refresh.definition, commit |-> refresh.commit]
    BY <2>1 DEF IsRefresh
  <2> QED
    BY <2>2 DEF IsRefresh
<1>2. CASE ~refresh.again
  BY <1>2 DEF Round, NoRefresh
<1> QED
  BY <1>1, <1>2

\* A task that is over or at its start needs nothing of the pack.
LEMMA TaskOver ==
  ASSUME refresh'.at \in {"NONE", "START"}
  PROVE  WarmingKept' /\ BuildingDefined'
BY DEF WarmingKept, BuildingDefined, PackAt

LEMMA TaskRuns ==
  ASSUME PackInv, NEW where \in {"START", "BUILD", "BUILT", "WARM"}, PackAt(where)
  PROVE  IsRefresh(refresh)
BY DEF PackInv, PackTypes, PackAt, NoRefresh

LEMMA RefreshStartsKeeps ==
  ASSUME PackInv, RefreshStarts
  PROVE  PackInv'
<1>1. IsRefresh(refresh) /\ refresh.at = "START"
  BY TaskRuns DEF RefreshStarts, PackAt
<1>2. UNCHANGED <<repository, definition, files, hour, served, packPlay>>
  BY DEF RefreshStarts
<1>3. NoRefresh.at = "NONE"
  BY DEF NoRefresh
<1>4. CASE refresh' = NoRefresh /\ UNCHANGED <<disk, states>>
  BY SMTT(60), <1>2, <1>3, <1>4, StatesAlone, TaskOver DEF PackInv, PackTypes
<1>5. CASE refresh' = NoRefresh /\ Save(State)
  BY <1>2, <1>3, <1>5, StateSaved, TaskOver DEF PackInv, PackTypes
<1>6. CASE /\ definition # NoDefinition
           /\ refresh' = [refresh EXCEPT !.again = FALSE, !.at = "BUILD",
                                         !.definition = definition]
           /\ UNCHANGED <<disk, states>>
  <2>1. refresh' = [again |-> FALSE, at |-> "BUILD", definition |-> definition,
                    commit |-> refresh.commit]
    BY Zenon, <1>1, <1>6 DEF IsRefresh
  <2>2. IsRefresh(refresh') /\ refresh'.at = "BUILD"
    BY Zenon, <1>6, <2>1 DEF IsRefresh, PackInv, PackTypes
  <2>3. WarmingKept' /\ BuildingDefined'
    BY <1>2, <1>6, <2>2 DEF WarmingKept, BuildingDefined, PackAt
  <2> QED
    BY <1>2, <1>6, <2>2, <2>3, StatesAlone DEF PackInv, PackTypes
<1> QED
  BY <1>4, <1>5, <1>6 DEF RefreshStarts

LEMMA BuildReadsKeeps ==
  ASSUME PackInv, BuildReads
  PROVE  PackInv'
<1>1. IsRefresh(refresh) /\ refresh.at = "BUILD"
  BY TaskRuns DEF BuildReads, PackAt
<1>2. /\ refresh' = [refresh EXCEPT !.at = "BUILT", !.commit = repository]
      /\ UNCHANGED <<definition, disk, states, files, hour, served, packPlay>>
  BY DEF BuildReads
<1>3. refresh' = [again |-> refresh.again, at |-> "BUILT",
                  definition |-> refresh.definition, commit |-> repository]
  BY Zenon, <1>1, <1>2 DEF IsRefresh
<1>4. IsRefresh(refresh') /\ refresh'.at = "BUILT"
  BY <1>1, <1>3 DEF IsRefresh
<1>5. WarmingKept' /\ BuildingDefined'
  BY <1>1, <1>2, <1>4 DEF PackInv, WarmingKept, BuildingDefined, PackAt
<1> QED
  BY <1>2, <1>4, <1>5, StatesAlone DEF PackInv, PackTypes

LEMMA RefreshStoresKeeps ==
  ASSUME PackInv, RefreshStores
  PROVE  PackInv'
<1>1. IsRefresh(refresh) /\ refresh.at = "BUILT" /\ refresh.commit \in Commits
  BY TaskRuns DEF RefreshStores, PackAt
<1>2. UNCHANGED <<definition, hour, served, packPlay>>
  BY DEF RefreshStores
<1>3. definition # NoDefinition
  BY <1>1 DEF PackInv, BuildingDefined
<1>4. CASE Building = State.current
  <2>1. Save(State) /\ refresh' = Round /\ UNCHANGED files
    BY <1>4 DEF RefreshStores
  <2>2. /\ refresh' = NoRefresh \/ IsRefresh(refresh')
        /\ WarmingKept' /\ BuildingDefined'
    BY <1>1, <2>1, RoundEnds, TaskOver
  <2> QED
    BY <1>2, <2>1, <2>2, StateSaved DEF PackInv, PackTypes
<1>5. CASE Building # State.current
  <2> DEFINE v == Building
             old == State
             new == Stored(old, v)
  <2>1. /\ Save(new) /\ files' = files \cup {v}
        /\ refresh' = [refresh EXCEPT !.at = "WARM"]
    BY <1>5 DEF RefreshStores
  <2>2. v \in Version
    BY <1>1 DEF Building, Version, IsRefresh
  <2>3. IsState(old) /\ Stocked(old, files) /\ hour \in Int
    BY StateIsState, StockedBoth DEF PackInv, PackTypes
  <2>4. states' = new /\ disk' = new
    BY <1>3, <2>1 DEF Save
  <2>5. /\ refresh' = [again |-> refresh.again, at |-> "WARM",
                       definition |-> refresh.definition, commit |-> refresh.commit]
    BY <1>1, <2>1 DEF IsRefresh
  <2>6. IsRefresh(refresh') /\ refresh'.at = "WARM" /\ Building' = v
    BY SMTT(60), <1>1, <2>5 DEF IsRefresh, Building
  <2> HIDE DEF v, old
  <2>7. /\ IsState(new)
        /\ DOMAIN new.versions = DOMAIN old.versions \cup {v}
        /\ new.current = old.current /\ new.pins = old.pins
        /\ \A w \in DOMAIN old.versions : w # v => new.versions[w] = old.versions[w]
        /\ new.versions[v].used = hour
    BY <2>2, <2>3, StoredKeeps
  <2> HIDE DEF new
  <2>8. Stocked(new, files')
    BY SMTT(60), <2>1, <2>3, <2>7 DEF Stocked
  <2>9. /\ IsState(states') /\ State' = new
        /\ disk' = NoState \/ IsState(disk')
        /\ ServedIsStored'
    BY <2>4, <2>7, <2>8, NewState
  <2>10. WarmingKept' /\ BuildingDefined'
    <3>1. v \in DOMAIN new.versions \cap files'
      BY SMTT(60), <2>1, <2>7
    <3> QED
      BY <1>2, <1>3, <2>6, <2>9, <3>1 DEF WarmingKept, BuildingDefined
  <2>11. ASSUME NEW s \in Sittings, served[s] # NotServed, Holds(old, s)
         PROVE  Holds(new, s)
    <3>1. served[s].at <= hour /\ served[s].at \in Int /\ hour \in Int
      BY SMTT(60), <2>3, <2>11 DEF PackInv, ServedTypes
    <3>2. /\ served[s].version \in DOMAIN new.versions
          /\ new.versions[served[s].version].used >= served[s].at
      BY SMTT(60), <2>7, <2>11, <3>1 DEF Holds
    <3> QED
      BY <2>7, <2>11, <3>2 DEF Holds
  <2>12. SessionsHeld' /\ ServedTypes'
    BY SMTT(60), <1>2, <2>4, <2>7, <2>11, SessionsStay DEF old
  <2> QED
    BY <1>2, <2>3, <2>6, <2>9, <2>10, <2>12 DEF PackInv, PackTypes
<1> QED
  BY <1>4, <1>5

LEMMA RefreshWarmsKeeps ==
  ASSUME PackInv, RefreshWarms
  PROVE  PackInv'
<1> DEFINE v == Building
           old == State
           marked == [old EXCEPT !.current = v]
           new == Kept(marked)
<1>1. IsRefresh(refresh) /\ refresh.at = "WARM" /\ PackAt("WARM")
  BY TaskRuns DEF RefreshWarms, PackAt
<1>2. definition # NoDefinition /\ v \in DOMAIN old.versions
  BY <1>1 DEF PackInv, WarmingKept
<1>3. /\ files' = files \ Unused(marked) /\ refresh' = Round
      /\ UNCHANGED <<definition, hour, served, packPlay>>
  BY DEF RefreshWarms
<1>4. states' = new /\ disk' = new
  BY <1>2 DEF RefreshWarms, MarkWarm, Save
<1>5. IsState(old) /\ Stocked(old, files) /\ hour \in Int
  BY StateIsState, StockedBoth DEF PackInv, PackTypes
<1>6. /\ refresh' = NoRefresh \/ IsRefresh(refresh')
      /\ WarmingKept' /\ BuildingDefined'
  BY <1>1, <1>3, RoundEnds, TaskOver
<1> HIDE DEF v, old
<1>7. /\ IsState(new)
      /\ new.current = v
      /\ DOMAIN new.versions = DOMAIN old.versions \ Unused(marked)
      /\ v \in DOMAIN new.versions
      /\ \A w \in DOMAIN old.versions :
           w = v \/ hour - old.versions[w].used < DayLength =>
             w \in DOMAIN new.versions /\ new.versions[w] = old.versions[w]
      /\ \A s \in DOMAIN old.pins :
           /\ old.pins[s].version \in DOMAIN new.versions
           /\ hour - old.pins[s].used < DayLength
           => s \in DOMAIN new.pins /\ new.pins[s] = old.pins[s]
  BY <1>2, <1>5, KeptKeeps, ZenonT(60)
<1> HIDE DEF marked, new
<1>8. Stocked(new, files')
  BY <1>3, <1>5, <1>7 DEF Stocked
<1>9. /\ IsState(states')
      /\ disk' = NoState \/ IsState(disk')
      /\ ServedIsStored'
  BY SMTT(60), <1>4, <1>7, <1>8, NewState
<1>10. ASSUME NEW s \in Sittings, served[s] # NotServed,
              hour - served[s].at < DayLength, Holds(old, s)
       PROVE  Holds(new, s)
  <2>1. served[s].at \in Int
    BY SMTT(60), <1>10 DEF PackInv, ServedTypes
  <2>2. /\ s \in DOMAIN old.pins /\ old.pins[s].used \in Int
        /\ served[s].version \in DOMAIN old.versions
        /\ old.versions[served[s].version].used \in Int
    BY SMTT(60), <1>5, <1>10 DEF Holds, IsState
  <2>3. /\ hour - old.pins[s].used < DayLength
        /\ hour - old.versions[served[s].version].used < DayLength
    BY SMTT(60), <1>5, <1>10, <2>1, <2>2, PackAssumption DEF Holds
  <2>4. /\ served[s].version \in DOMAIN new.versions
        /\ new.versions[served[s].version] = old.versions[served[s].version]
    BY SMTT(60), <1>7, <2>2, <2>3
  <2>5. s \in DOMAIN new.pins /\ new.pins[s] = old.pins[s]
    BY SMTT(60), <1>7, <1>10, <2>2, <2>3, <2>4 DEF Holds
  <2> QED
    BY <1>10, <2>4, <2>5 DEF Holds
<1>11. SessionsHeld' /\ ServedTypes'
  BY <1>3, <1>4, <1>7, <1>10, SessionsStay DEF old
<1> QED
  BY <1>3, <1>5, <1>6, <1>9, <1>11 DEF PackInv, PackTypes

LEMMA RefreshFailsKeeps ==
  ASSUME PackInv, RefreshFails
  PROVE  PackInv'
<1>1. /\ refresh' = NoRefresh
      /\ UNCHANGED <<definition, files, hour, served, packPlay>>
      /\ Save(State) \/ UNCHANGED <<disk, states>>
  BY DEF RefreshFails
<1>2. refresh'.at \in {"NONE", "START"}
  BY <1>1 DEF NoRefresh
<1>3. WarmingKept' /\ BuildingDefined'
  BY SMTT(60), <1>2, TaskOver
<1>4. CASE Save(State)
  BY SMTT(60), <1>1, <1>3, <1>4, StateSaved DEF PackInv, PackTypes
<1>5. CASE UNCHANGED <<disk, states>>
  BY SMTT(60), <1>1, <1>3, <1>5, StatesAlone DEF PackInv, PackTypes
<1> QED
  BY <1>1, <1>4, <1>5

\* The handlers that touch neither state, and the clock.
LEMMA HandlersKeep ==
  ASSUME PackInv,
         \/ PushReceived \/ PushEnds \/ CreatePack \/ RefreshNow \/ CreateRepository
         \/ HourPasses \/ \E s \in Sittings : AskArrives(s)
  PROVE  PackInv'
<1>1. /\ UNCHANGED <<disk, states, files, served, packPlay>>
      /\ hour' = hour \/ hour' = hour + 1
      /\ definition' = definition \/ definition' \in Definitions
      /\ refresh' = refresh \/ refresh' = RefreshScheduled
  BY DEF PushReceived, PushEnds, CreatePack, RefreshNow, CreateRepository, HourPasses,
         AskArrives
<1>2. definition' \in Definitions \cup {NoDefinition}
  BY SMTT(60), <1>1 DEF PackInv, PackTypes
<1> QED
  BY <1>1, <1>2, StatesAlone, TaskAlone DEF PackInv, PackTypes

\* A version that pin may give is one the state lists, and the pinned one if
\* the session has one.
LEMMA VersionsListed ==
  ASSUME NEW state, IsState(state), NEW stock, Stocked(state, stock), NEW s,
         NEW v \in VersionsFor(state, s)
  PROVE  /\ v \in DOMAIN state.versions
         /\ IsPinned(state, s) => v = state.pins[s].version
BY SMTT(60) DEF VersionsFor, IsPinned, Newest, Stocked

LEMMA ChoosePackKeeps ==
  ASSUME PackInv, NEW s \in Sittings, ChoosePack(s)
  PROVE  PackInv'
<1> DEFINE old == State
<1>1. UNCHANGED <<definition, files, hour, packPlay>>
  BY DEF ChoosePack
<1>2. IsState(old) /\ Stocked(old, files) /\ hour \in Int
  BY SMTT(60), StateIsState, StockedBoth DEF PackInv, PackTypes
<1>3. CASE states' = State /\ refresh' = RefreshScheduled /\ UNCHANGED <<disk, served>>
  <2> HIDE DEF old
  <2>1. \A q \in Sittings : Holds(State, q) => Holds(old, q)
    BY SMTT(60) DEF old
  <2>2. SessionsHeld' /\ ServedTypes'
    BY <1>1, <1>2, <1>3, <2>1, SessionsStay DEF old
  <2>3. IsState(old) /\ states' = old /\ Stocked(old, files')
    BY SMTT(60), <1>1, <1>2, <1>3 DEF old
  <2>4. /\ IsState(states') /\ State' = old
        /\ disk' = NoState \/ IsState(disk')
        /\ ServedIsStored'
    BY SMTT(60), <1>1, <1>3, <2>3, NewState
  <2>5. /\ refresh' = NoRefresh \/ IsRefresh(refresh')
        /\ WarmingKept' /\ BuildingDefined'
    BY SMTT(60), <1>1, <1>3, <2>4, TaskAgain DEF old
  <2> QED
    BY <1>1, <1>2, <2>2, <2>4, <2>5 DEF PackInv, PackTypes
<1>4. CASE \E v \in VersionsFor(State, s), profiled \in BOOLEAN :
             /\ IF ~IsPinned(State, s) \/ profiled
                THEN Save(Pinned(State, s, v))
                ELSE states' = Pinned(State, s, v) /\ UNCHANGED disk
             /\ Serves(s, v)
             /\ UNCHANGED refresh
  <2>1. PICK v \in VersionsFor(old, s) :
          /\ states' = Pinned(old, s, v)
          /\ disk' = Pinned(old, s, v) \/ disk' = disk
          /\ Serves(s, v)
          /\ UNCHANGED refresh
    BY SMTT(60), <1>4 DEF Save
  <2> PICK new : new = Pinned(old, s, v)
    BY ZenonT(60)
  <2> HIDE DEF old
  <2>2. v \in DOMAIN old.versions
    BY SMTT(60), <1>2, VersionsListed
  <2>3. /\ IsState(new)
        /\ new.current = old.current
        /\ DOMAIN new.versions = DOMAIN old.versions
        /\ new.versions[v].used = hour
        /\ \A w \in DOMAIN old.versions : w # v => new.versions[w] = old.versions[w]
        /\ DOMAIN new.pins = DOMAIN old.pins \cup {s}
        /\ new.pins[s] = [version |-> v, used |-> hour]
        /\ \A q \in DOMAIN old.pins : q # s => new.pins[q] = old.pins[q]
    BY <1>2, <2>2, PinnedKeeps
  <2>4. states' = new /\ (disk' = new \/ disk' = disk)
    BY <2>1
  <2>5. Stocked(new, files')
    BY <1>1, <1>2, <2>3 DEF Stocked
  <2>6. /\ IsState(states') /\ State' = new
        /\ disk' = NoState \/ IsState(disk')
        /\ ServedIsStored'
    BY Zenon, <1>1, <2>3, <2>4, <2>5, NewState
  <2>7. WarmingKept' /\ BuildingDefined'
    BY Zenon, <1>1, <2>1, <2>3, <2>6 DEF PackInv, WarmingKept, BuildingDefined, PackAt, Building,
                                  old
  <2>8. v \in Version
    BY SMTT(60), <1>2, <2>2 DEF IsState
  <2>9. /\ served' = [served EXCEPT ![s] = [version |-> v, at |-> hour]]
        /\ served'[s] = [version |-> v, at |-> hour]
        /\ \A q \in Sittings : q # s => served'[q] = served[q]
    BY SMTT(60), <2>1 DEF Serves, PackInv, ServedTypes
  <2>10. ServedTypes'
    BY SMTT(60), <1>1, <1>2, <2>8, <2>9 DEF PackInv, ServedTypes
  <2>11. SessionsHeld'
    <3> SUFFICES ASSUME ~Allowed("RESTART"), NEW q \in Sittings, served'[q] # NotServed,
                        hour - served'[q].at < DayLength
                 PROVE  Holds(states, q)'
      BY ZenonT(60), <1>1, <2>3, <2>4, StateApart DEF SessionsHeld, Allowed
    <3>1. CASE q = s
      <4>1. served'[q].version = v /\ served'[q].at = hour
        BY SMTT(60), <2>9, <3>1
      <4>2. /\ q \in DOMAIN new.pins /\ new.pins[q].version = v /\ new.pins[q].used = hour
            /\ v \in DOMAIN new.versions /\ new.versions[v].used = hour
        BY SMTT(60), <2>2, <2>3, <3>1
      <4>3. hour >= hour
        BY SMTT(60), <1>2
      <4> QED
        BY <2>4, <4>1, <4>2, <4>3, ZenonT(60) DEF Holds
    <3>2. CASE q # s
      <4>1. served[q] = served'[q] /\ served[q].at <= hour /\ served[q].at \in Int
        BY ZenonT(60), <2>9, <3>2 DEF PackInv, ServedTypes
      <4>2. Holds(old, q)
        BY SMTT(60), <4>1 DEF PackInv, SessionsHeld, State, old
      <4>3. /\ q \in DOMAIN new.pins /\ new.pins[q] = old.pins[q]
            /\ served[q].version \in DOMAIN new.versions
        BY SMTT(60), <2>3, <3>2, <4>2 DEF Holds
      <4>4. new.versions[served[q].version].used >= served[q].at
        BY ZenonT(60), <1>2, <2>3, <4>1, <4>2 DEF Holds
      <4> QED
        BY <2>4, <4>1, <4>2, <4>3, <4>4 DEF Holds
    <3> QED
      BY SMTT(60), <3>1, <3>2
  <2> QED
    BY SMTT(60), <1>1, <1>2, <2>1, <2>6, <2>7, <2>10, <2>11 DEF PackInv, PackTypes
<1> QED
  BY <1>3, <1>4 DEF ChoosePack

LEMMA DeletionsKeep ==
  ASSUME PackInv, DeletePack \/ DeleteArea
  PROVE  PackInv'
<1>1. /\ definition' = NoDefinition /\ disk' = NoState /\ files' = {}
      /\ served' = [s \in Sittings |-> NotServed]
      /\ states' = NoState /\ refresh' = NoRefresh
      /\ UNCHANGED <<hour, packPlay>>
  BY DEF DeletePack, DeleteArea, FolderGone, Forget
<1>2. State' = EmptyState
  BY SMTT(60), <1>1 DEF State
<1>3. ServedIsStored'
  BY SMTT(60), <1>1, <1>2, EmptyIsState DEF ServedIsStored, Stocked
<1>4. WarmingKept' /\ BuildingDefined'
  BY <1>1, TaskOver DEF NoRefresh
<1>5. ServedTypes' /\ SessionsHeld'
  BY SMTT(60), <1>1 DEF ServedTypes, SessionsHeld
<1> QED
  BY SMTT(60), <1>1, <1>3, <1>4, <1>5 DEF PackInv, PackTypes

LEMMA PackRestartKeeps ==
  ASSUME PackInv, PackRestart
  PROVE  PackInv'
<1>1. /\ Allowed("RESTART") /\ states' = NoState /\ refresh' = NoRefresh
      /\ UNCHANGED <<definition, disk, files, hour, served, packPlay>>
  BY DEF PackRestart
<1>2. State' = IF disk # NoState THEN disk ELSE EmptyState
  BY SMTT(60), <1>1 DEF State
<1>3. ServedIsStored'
  BY SMTT(60), <1>1, <1>2, EmptyIsState, StockedBoth DEF PackInv, ServedIsStored, Stocked
<1>4. WarmingKept' /\ BuildingDefined'
  BY SMTT(60), <1>1, TaskOver DEF NoRefresh
<1>5. ServedTypes' /\ SessionsHeld'
  BY Zenon, <1>1 DEF PackInv, ServedTypes, SessionsHeld, Allowed
<1> QED
  BY SMTT(60), <1>1, <1>3, <1>4, <1>5 DEF PackInv, PackTypes

LEMMA PacksStep ==
  ASSUME PackInv, [PackNext]_packVars
  PROVE  PackInv'
<1>1. CASE UNCHANGED packVars
  <2>1. UNCHANGED <<definition, disk, states, files, refresh, hour, served, packPlay>>
    BY <1>1 DEF packVars
  <2> QED
    BY SMTT(60), <2>1, StatesAlone, TaskAlone DEF PackInv, PackTypes
<1>2. CASE RefreshStep
  BY <1>2, RefreshStartsKeeps, BuildReadsKeeps, RefreshStoresKeeps, RefreshWarmsKeeps,
     RefreshFailsKeeps DEF RefreshStep
<1>3. CASE HandlerCall
  BY <1>3, HandlersKeep, ChoosePackKeeps, DeletionsKeep DEF HandlerCall
<1>4. CASE PackRestart \/ HourPasses
  BY <1>4, PackRestartKeeps, HandlersKeep
<1> QED
  BY SMTT(60), <1>1, <1>2, <1>3, <1>4 DEF PackNext

\* Between any two steps of the handlers and the refresh task, across a restart,
\* the states, the stored ids and the sessions fit together as PackInv says.
THEOREM PacksInvariant == PackSpec => []PackInv
BY PacksInitially, PacksStep, PTL DEF PackSpec

\* For any commits, definitions, sessions and length of the day: a version
\* that a request may be given has its token ids on disk, now and after a
\* restart (store writes the ids before the state lists them, drop_unused
\* takes them off both, and a cancelled task writes nothing).
THEOREM ListedVersionsStored == PackSpec => []ServedIsStored
<1>1. PackInv => ServedIsStored
  BY DEF PackInv
<1> QED
  BY <1>1, PacksInvariant, PTL

\* The same for the version that is being warmed: mark_warm finds it.
THEOREM WarmedVersionKept == PackSpec => []WarmingKept
<1>1. PackInv => WarmingKept
  BY DEF PackInv
<1> QED
  BY <1>1, PacksInvariant, PTL

\* For any commits, definitions and sessions: as long as the service is not
\* restarted, a session that used the pack within a day is given the same
\* version again (pin marks the version and the pin as used, and drop_unused
\* drops neither within a day of it).
THEOREM SessionsKeepVersion == PackSpec => SessionKeepsVersion
<1>1. ASSUME PackInv, [PackNext]_packVars, NEW s \in Sittings, ~Allowed("RESTART"),
             served[s] # NotServed, served'[s] \notin {served[s], NotServed},
             hour - served[s].at < DayLength
      PROVE  served'[s].version = served[s].version
  <2> USE <1>1
  <2>1. Holds(State, s) /\ IsState(State) /\ Stocked(State, files)
    BY StateIsState, StockedBoth DEF PackInv, SessionsHeld, State
  <2>2. PICK q \in Sittings : ChoosePack(q)
    <3>1. \/ \E q \in Sittings : ChoosePack(q)
          \/ served' = served
          \/ served' = [t \in Sittings |-> NotServed]
      BY SMTT(60) DEF PackNext, RefreshStep, HandlerCall, RefreshStarts, BuildReads, RefreshStores,
             RefreshWarms, RefreshFails, PushReceived, PushEnds, CreatePack, RefreshNow,
             AskArrives, DeletePack, DeleteArea, FolderGone, CreateRepository,
             PackRestart, HourPasses, packVars
    <3> QED
      BY SMTT(60), <3>1
  <2>3. PICK v \in VersionsFor(State, q) : Serves(q, v)
    BY SMTT(60), <2>2 DEF ChoosePack
  <2>4. q = s /\ served'[s].version = v
    BY SMTT(60), <2>3 DEF Serves, PackInv, ServedTypes
  <2>5. IsPinned(State, s) /\ State.pins[s].version = served[s].version
    BY SMTT(60), <2>1 DEF Holds, IsPinned
  <2> QED
    BY ZenonT(60), <2>1, <2>3, <2>4, <2>5, VersionsListed
<1>2. ASSUME PackInv, [PackNext]_packVars
      PROVE  [\A s \in Sittings :
                /\ ~Allowed("RESTART")
                /\ served[s] # NotServed /\ served'[s] \notin {served[s], NotServed}
                /\ hour - served[s].at < DayLength
                => served'[s].version = served[s].version]_packVars
  BY <1>1, <1>2
<1> QED
  BY <1>2, PacksInvariant, PTL DEF PackSpec, SessionKeepsVersion

=============================================================================
