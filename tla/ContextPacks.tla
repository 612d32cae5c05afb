---------------------------- MODULE ContextPacks ----------------------------
(***************************************************************************)
(* A context pack of the chat layer: the Workspace of                      *)
(* tools/serving/context_packs.py and the refresh task that                *)
(* tools/serving/chat_frontend.py runs for it.                             *)
(*                                                                         *)
(* A pack is defined over a repository.  A refresh builds a version of it  *)
(* from the commit at the pack's ref, stores it, warms it on the engine    *)
(* and makes it the current one; a session is pinned to the version its    *)
(* first request was given.  Pushes, new definitions, requests, deletions  *)
(* and the task take turns on one event loop; the build runs in a thread   *)
(* of its own.  What the loop does between two awaits is one step.         *)
(*                                                                         *)
(* A version is named by what it is built from.  One pack of one area is   *)
(* modelled; packs share nothing but the limit on their number.            *)
(***************************************************************************)
EXTENDS Integers, FiniteSets

CONSTANTS
  Commits,      \* what may be pushed
  Definitions,  \* what the pack may be defined as
  Sittings,     \* client sessions
  DayLength,    \* UNUSED_VERSION_SECONDS
  LastHour,     \* bound on the clock
  PackPlays     \* what happens in a behaviour: [ops, changes, asks, commit]

NoCommit == "no commit"
NoRepository == "no repository"
NoDefinition == "no definition"
NoVersion == [commit |-> NoCommit]
NoState == [versions |-> {}]
NoRefresh == [at |-> "NONE"]
NotServed == [version |-> NoVersion]

ASSUME PackAssumption ==
  /\ DayLength \in Nat \ {0}
  /\ LastHour \in Nat
  /\ {NoCommit, NoRepository} \cap Commits = {}
  /\ NoDefinition \notin Definitions

VARIABLES
  repository,   \* the commit at the pack's ref
  definition,   \* definition.json
  disk,         \* state.json
  states,       \* Workspace.states: the state in memory
  files,        \* the versions whose ids are on disk
  refresh,      \* Workspace.refreshes and where its task is
  pushing,      \* a push that git has taken and git_route has not looked at
  hour,
  asking,       \* the sessions whose request was resolved and has no version yet
  served,       \* the version each session was last given, and when
  packPlay, packSpent

packVars == <<repository, definition, disk, states, files, refresh, pushing,
              hour, asking, served, packPlay, packSpent>>

Version == [definition : Definitions, commit : Commits]

EmptyState == [current |-> NoVersion, versions |-> [v \in {} |-> 0],
               pins |-> [s \in {} |-> 0]]

\* Workspace.state
State == IF states # NoState THEN states
         ELSE IF disk # NoState THEN disk ELSE EmptyState

\* Workspace.save: the pack's folder is there as long as it is defined.
Save(state) ==
  /\ states' = state
  /\ disk' = IF definition # NoDefinition THEN state ELSE disk

Allowed(op) == op \in packPlay.ops

-----------------------------------------------------------------------------
(* The refresh task.                                                       *)

NewRefresh == [again |-> FALSE, at |-> "START", definition |-> NoDefinition,
               commit |-> NoCommit]

Building == [definition |-> refresh.definition, commit |-> refresh.commit]


\* schedule_refresh
RefreshScheduled ==
  IF refresh = NoRefresh THEN NewRefresh ELSE [refresh EXCEPT !.again = TRUE]

\* The end of one round of refresh_pack.
Round == IF refresh.again THEN [refresh EXCEPT !.at = "START"] ELSE NoRefresh

PackAt(where) == refresh.at = where

\* refresh_once up to the thread: a pack that is gone is not built, and one
\* without its repository cannot be.
RefreshStarts ==
  /\ PackAt("START")
  /\ \/ /\ definition = NoDefinition
        /\ refresh' = NoRefresh
        /\ UNCHANGED <<disk, states>>
     \/ /\ definition # NoDefinition /\ repository = NoRepository
        /\ refresh' = NoRefresh
        /\ Save(State)
     \/ /\ definition # NoDefinition /\ repository # NoRepository
        /\ refresh' = [refresh EXCEPT !.again = FALSE, !.at = "BUILD",
                                      !.definition = definition]
        /\ UNCHANGED <<disk, states>>
  /\ UNCHANGED <<repository, definition, files, pushing, hour, asking, served,
                 packPlay, packSpent>>

\* build, in its thread: the ref is resolved once and everything is read at
\* that commit.
BuildReads ==
  /\ PackAt("BUILD")
  /\ refresh' = [refresh EXCEPT !.at = "BUILT", !.commit = repository]
  /\ UNCHANGED <<repository, definition, disk, states, files, pushing, hour,
                 asking, served, packPlay, packSpent>>

\* Workspace.store
Stored(state, v) ==
  [state EXCEPT !.versions =
     [w \in DOMAIN state.versions \cup {v} |->
        IF w # v THEN state.versions[w]
        ELSE [built |-> IF v \in DOMAIN state.versions
                        THEN state.versions[v].built ELSE hour,
              used |-> hour]]]

\* refresh_once after the build: a version that is current already needs no
\* more; another is stored and its warm-ups begin.
RefreshStores ==
  /\ PackAt("BUILT")
  /\ refresh.commit \in Commits
  /\ IF Building = State.current
     THEN /\ Save(State)
          /\ refresh' = Round
          /\ UNCHANGED files
     ELSE /\ Save(Stored(State, Building))
          /\ files' = files \cup {Building}
          /\ refresh' = [refresh EXCEPT !.at = "WARM"]
  /\ UNCHANGED <<repository, definition, pushing, hour, asking, served,
                 packPlay, packSpent>>

\* The versions drop_unused drops.
Unused(state) ==
  {v \in DOMAIN state.versions \ {state.current} :
     hour - state.versions[v].used >= DayLength}

\* Mutation: an unused version that a session is pinned to stays listed.
KeptForPins(state) ==
  LET pinned == {state.pins[s].version : s \in DOMAIN state.pins}
      left == DOMAIN state.versions \ (Unused(state) \ pinned)
  IN  [state EXCEPT !.versions = [v \in left |-> state.versions[v]]]

\* drop_unused, with the pins that go.
Kept(state) ==
  LET left == DOMAIN state.versions \ Unused(state)
      held == {s \in DOMAIN state.pins :
                 /\ state.pins[s].version \in left
                 /\ hour - state.pins[s].used < DayLength}
  IN  [state EXCEPT !.versions = [v \in left |-> state.versions[v]],
                    !.pins = [s \in held |-> state.pins[s]]]

\* mark_warm
MarkWarm(state) == Kept([state EXCEPT !.current = Building])

\* The last warm-up is done.
RefreshWarms ==
  /\ PackAt("WARM")
  /\ Save(MarkWarm(State))
  /\ files' = files \ Unused([State EXCEPT !.current = Building])
  /\ refresh' = Round
  /\ UNCHANGED <<repository, definition, pushing, hour, asking, served,
                 packPlay, packSpent>>

\* The repository has no commit or is gone, git fails, or the engine refuses
\* a warm-up: refresh_pack notes it and ends.
RefreshFails ==
  /\ \/ PackAt("BUILT") /\ (refresh.commit \notin Commits \/ Allowed("FAIL"))
     \/ PackAt("WARM") /\ Allowed("FAIL")
  /\ IF definition # NoDefinition THEN Save(State) ELSE UNCHANGED <<disk, states>>
  /\ refresh' = NoRefresh
  /\ UNCHANGED <<repository, definition, files, pushing, hour, asking, served,
                 packPlay, packSpent>>

-----------------------------------------------------------------------------
(* The handlers.                                                           *)

\* git_backend has taken a push.
PushReceived ==
  /\ Allowed("PUSH") /\ packSpent.changes < packPlay.changes
  /\ repository # NoRepository /\ ~pushing
  /\ \E c \in Commits \ {repository} : repository' = c
  /\ pushing' = TRUE
  /\ packSpent' = [packSpent EXCEPT !.changes = @ + 1]
  /\ UNCHANGED <<definition, disk, states, files, refresh, hour, asking,
                 served, packPlay>>

\* git_route afterwards: every pack of the repository is refreshed.
PushEnds ==
  /\ pushing
  /\ pushing' = FALSE
  /\ refresh' = IF definition # NoDefinition /\ repository # NoRepository
                THEN RefreshScheduled ELSE refresh
  /\ UNCHANGED <<repository, definition, disk, states, files, hour, asking,
                 served, packPlay, packSpent>>

\* create_pack, of a new pack or of one that is defined already
CreatePack ==
  /\ repository # NoRepository
  /\ IF definition = NoDefinition
     THEN UNCHANGED packSpent
     ELSE /\ Allowed("REDEFINE") /\ packSpent.changes < packPlay.changes
          /\ packSpent' = [packSpent EXCEPT !.changes = @ + 1]
  /\ \E d \in Definitions \ {definition} : definition' = d
  /\ refresh' = RefreshScheduled
  /\ UNCHANGED <<repository, disk, states, files, pushing, hour, asking,
                 served, packPlay>>

\* refresh_pack_now
RefreshNow ==
  /\ Allowed("REFRESH") /\ definition # NoDefinition
  /\ refresh' = RefreshScheduled
  /\ UNCHANGED <<repository, definition, disk, states, files, pushing, hour,
                 asking, served, packPlay, packSpent>>

\* newest: the one built last; of two built in one hour either.
Newest(state) ==
  {v \in DOMAIN state.versions :
     \A w \in DOMAIN state.versions : state.versions[w].built <= state.versions[v].built}

IsPinned(state, s) ==
  s \in DOMAIN state.pins /\ state.pins[s].version \in DOMAIN state.versions

Pinned(state, s, v) ==
  [state EXCEPT !.versions[v].used = hour,
                !.pins = [q \in DOMAIN state.pins \cup {s} |->
                            IF q = s THEN [version |-> v, used |-> hour]
                                     ELSE state.pins[q]]]

Serves(s, v) == served' = [served EXCEPT ![s] = [version |-> v, at |-> hour]]

\* The versions pin may give a session.
VersionsFor(state, s) ==
  IF IsPinned(state, s) THEN {state.pins[s].version}
  ELSE IF state.current # NoVersion THEN {state.current} ELSE Newest(state)

\* resolve_model: a request names a pack that is defined.  The wait for its
\* model comes before choose_pack.
AskArrives(s) ==
  /\ Allowed("ASK") /\ packSpent.asks < packPlay.asks
  /\ definition # NoDefinition /\ s \notin asking
  /\ asking' = asking \cup {s}
  /\ packSpent' = [packSpent EXCEPT !.asks = @ + 1]
  /\ UNCHANGED <<repository, definition, disk, states, files, refresh, pushing,
                 hour, served, packPlay>>

\* choose_pack: pin, and remember_profile, which saves the state when the
\* request's tools or settings are not those of the request before it.  A
\* pin that is used again is not saved by itself.
ChoosePack(s) ==
  /\ s \in asking
  /\ asking' = asking \ {s}
  /\ \/ /\ VersionsFor(State, s) = {}
        /\ states' = State
        /\ refresh' = RefreshScheduled
        /\ UNCHANGED <<disk, served>>
     \/ \E v \in VersionsFor(State, s), profiled \in BOOLEAN :
          /\ IF ~IsPinned(State, s) \/ profiled
             THEN Save(Pinned(State, s, v))
             ELSE states' = Pinned(State, s, v) /\ UNCHANGED disk
          /\ Serves(s, v)
          /\ UNCHANGED refresh
  /\ UNCHANGED <<repository, definition, files, pushing, hour, packPlay,
                 packSpent>>

\* Workspace.forget
Forget ==
  /\ states' = NoState
  /\ refresh' = NoRefresh

FolderGone ==
  /\ definition' = NoDefinition
  /\ disk' = NoState
  /\ files' = {}
  /\ served' = [s \in Sittings |-> NotServed]
  /\ Forget
  /\ UNCHANGED <<pushing, hour, asking, packPlay, packSpent>>

\* delete_pack, and delete_packs of DELETE /v1/cache
DeletePack ==
  /\ Allowed("DELETE") /\ definition # NoDefinition
  /\ FolderGone
  /\ UNCHANGED repository

\* delete_repository with its packs, delete_area, and expire for an area
\* whose user has changed or been away for a day
DeleteArea ==
  /\ Allowed("ERASE") /\ repository # NoRepository
  /\ FolderGone
  /\ repository' = NoRepository

\* create_repository
CreateRepository ==
  /\ repository = NoRepository
  /\ repository' = NoCommit
  /\ UNCHANGED <<definition, disk, states, files, refresh, pushing, hour,
                 asking, served, packPlay, packSpent>>

\* External: the service is stopped and started again, which it may also be
\* in delete_repository, between the repository and its packs.
PackRestart ==
  /\ Allowed("RESTART")
  /\ states # NoState \/ refresh # NoRefresh \/ pushing
  /\ states' = NoState
  /\ refresh' = NoRefresh
  /\ pushing' = FALSE
  /\ asking' = {}
  /\ UNCHANGED repository \/ (Allowed("ERASE") /\ repository' = NoRepository)
  /\ UNCHANGED <<definition, disk, files, hour, served, packPlay, packSpent>>

\* External: the clock.
HourPasses ==
  /\ Allowed("HOURS") /\ hour < LastHour
  /\ hour' = hour + 1
  /\ UNCHANGED <<repository, definition, disk, states, files, refresh,
                 pushing, asking, served, packPlay, packSpent>>

-----------------------------------------------------------------------------
PackInit ==
  /\ packPlay \in PackPlays
  /\ packSpent = [changes |-> 0, asks |-> 0]
  /\ repository = packPlay.commit
  /\ definition = NoDefinition
  /\ disk = NoState
  /\ states = NoState
  /\ files = {}
  /\ refresh = NoRefresh
  /\ pushing = FALSE
  /\ hour = 0
  /\ asking = {}
  /\ served = [s \in Sittings |-> NotServed]

RefreshStep ==
  \/ RefreshStarts
  \/ BuildReads
  \/ RefreshStores
  \/ RefreshWarms
  \/ RefreshFails

HandlerCall ==
  \/ PushReceived
  \/ PushEnds
  \/ CreatePack
  \/ RefreshNow
  \/ \E s \in Sittings : AskArrives(s) \/ ChoosePack(s)
  \/ DeletePack
  \/ DeleteArea
  \/ CreateRepository

PackNext == RefreshStep \/ HandlerCall \/ PackRestart \/ HourPasses

PackSpec == PackInit /\ [][PackNext]_packVars

\* The event loop comes round to the task, its thread and a push that git has
\* taken.
PackFairness == WF_packVars(RefreshStep) /\ WF_packVars(PushEnds)

PackFairSpec == PackSpec /\ PackFairness

-----------------------------------------------------------------------------
(* Properties.                                                             *)

\* Whatever version a request may be given, now or after a restart, has its
\* token ids on disk, through refreshes, deletions and new definitions
\* (store, drop_unused and pin).
ServedIsStored ==
  \A state \in {State} \cup ({disk} \ {NoState}) :
    /\ DOMAIN state.versions \subseteq files
    /\ state.current # NoVersion => state.current \in DOMAIN state.versions

\* While a version is being warmed its pack is defined and the version is
\* still stored: the task never writes into a deleted pack and mark_warm finds
\* what it marks (forget cancels the task).
WarmingKept ==
  PackAt("WARM") => /\ definition # NoDefinition
                    /\ Building \in DOMAIN State.versions \cap files

\* As long as the service is not restarted, a session that has used the pack
\* within a day is given the same version again, whatever was refreshed,
\* defined anew or dropped since (pin, drop_unused).
SessionKeepsVersion ==
  [][\A s \in Sittings :
       /\ ~Allowed("RESTART")
       /\ served[s] # NotServed /\ served'[s] \notin {served[s], NotServed}
       /\ hour - served[s].at < DayLength
       => served'[s].version = served[s].version]_packVars

UpToDate == State.current = [definition |-> definition, commit |-> repository]


=============================================================================
