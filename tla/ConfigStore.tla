----------------------------- MODULE ConfigStore -----------------------------
(***************************************************************************)
(* The live configuration (internal/config/config.go, Store; and           *)
(* cmd/server/main.go, watchConfig and doReload): edits of the YAML file   *)
(* raise events, events arm a debounce timer, and each firing of the timer *)
(* runs doReload in a goroutine of its own: load, swap the pointer, set    *)
(* the log level, source the env file.                                     *)
(*                                                                         *)
(* A file's content is what the code tells apart: whether it decodes, the  *)
(* access key, the log level, the number of legs of the longest alias      *)
(* chain, the first-output budget of one leg (0 when unset or 0), the time *)
(* the clients wait for headers, and whether the bind address, the         *)
(* timeouts' signs and the aliases' spelling pass.                         *)
(***************************************************************************)
EXTENDS Integers, FiniteSets

CONSTANTS
    Contents,       \* what the file may hold
    EnvFiles,       \* the access key an env file or shell may set, NoKey for none
    NoKey,          \* no access key
    Reloaders,      \* bound: the goroutines doReload may run in at once
    MaxEdits        \* bound: edits of either file

Keys == EnvFiles \cup {NoKey} \cup {c.key : c \in Contents}

Levels == {"debug", "info"}

ContentType ==
    [decodes : BOOLEAN, key : Keys, level : Levels \cup {"invalid"},
     legs : Nat, budget : Nat, limit : Nat, spelt : BOOLEAN]

ASSUME ConfigAssumption ==
    /\ Contents \subseteq ContentType
    /\ MaxEdits \in Nat
    /\ IsFiniteSet(Reloaders)

VARIABLES
    file,     \* the YAML file: its content and which edit wrote it
    envFile,  \* the key the env file sets
    env,      \* the key in the process environment
    live,     \* the Store's pointer
    level,    \* the logger's level
    watching, \* watchConfig has added the directory to the watcher
    events,   \* events the watcher has not taken yet
    timer,    \* the debounce timer is armed
    reload,   \* each reloader: its step and what it has in hand
    edits,    \* edits so far
    unseen,   \* the last edit of the file raised no event (history)
    overlapped  \* some reload has started while another ran (history)

fileVars  == <<file, envFile, edits, unseen>>
watchVars == <<watching, events, timer>>
storeVars == <<file, envFile, env, live, level, watching, events, timer, reload,
               edits, unseen, overlapped>>

Snapshots == [content : ContentType, gen : 0..MaxEdits]

\* What doReload has in hand: nothing, the snapshot it has loaded, and once that
\* is swapped in the level of the one swapped out.
ReloadStates ==
    [at : {"idle", "load", "env"}]
        \cup [at : {"swap"}, new : Snapshots]
        \cup [at : {"level"}, new : Snapshots, oldLevel : Levels]

\* Mutant: the budget of one leg is compared, not of the chain.
Fits_OneLeg(c) == c.budget <= c.limit

\* Every alias must fit: the first-output budgets of all its legs together.
Fits(c) == c.budget = 0 \/ c.budget * c.legs <= c.limit

Validate(c) ==
    /\ c.key # NoKey
    /\ c.level \in Levels
    /\ Fits(c)
    /\ c.spelt

\* applyEnvOverrides, in an environment that sets this key.
WithOverrides(c, k) == [c EXCEPT !.key = IF k # NoKey THEN k ELSE @]

Loads(c) == c.decodes /\ Validate(WithOverrides(c, env))

Idle(w) == reload[w].at = "idle"

\* run: the file loaded under the environment the process inherits, then the
\* env file sourced, which overwrites nothing, then the level set; the watcher
\* is started beside the server.
Init ==
    \E c \in Contents, inherited, sourced \in EnvFiles :
        /\ c.decodes /\ Validate(WithOverrides(c, inherited))
        /\ file = [content |-> c, gen |-> 0]
        /\ envFile = sourced
        /\ env = IF inherited # NoKey THEN inherited ELSE sourced
        /\ live = [content |-> WithOverrides(c, inherited), gen |-> 0]
        /\ level = c.level
        /\ watching = FALSE
        /\ events = 0
        /\ timer = FALSE
        /\ reload = [w \in Reloaders |-> [at |-> "idle"]]
        /\ edits = 0
        /\ unseen = FALSE
        /\ overlapped = FALSE

-----------------------------------------------------------------------------
(* The operator.                                                           *)

\* An edit, or one write of an editor's burst.
Edit ==
    /\ edits < MaxEdits
    /\ edits' = edits + 1
    /\ \E c \in Contents : file' = [content |-> c, gen |-> edits']
    /\ events' = IF watching THEN events + 1 ELSE events
    /\ unseen' = ~watching
    /\ UNCHANGED <<envFile, env, live, level, watching, timer, reload, overlapped>>

\* Nothing watches the env file.
EditEnvFile ==
    /\ edits < MaxEdits
    /\ edits' = edits + 1
    /\ envFile' \in EnvFiles \ {envFile}
    /\ UNCHANGED <<file, env, live, level, watchVars, reload, unseen, overlapped>>

-----------------------------------------------------------------------------
(* watchConfig.                                                            *)

Watch ==
    /\ ~watching
    /\ watching' = TRUE
    /\ UNCHANGED <<fileVars, env, live, level, events, timer, reload, overlapped>>

\* Mutant: an event during the debounce stops the timer and arms no other.
TakeEvent_StopOnly ==
    /\ events > 0
    /\ events' = events - 1
    /\ timer' = ~timer
    /\ UNCHANGED <<fileVars, env, live, level, watching, reload, overlapped>>

\* Stop the timer, if it has not fired, and arm another.
TakeEvent ==
    /\ events > 0
    /\ events' = events - 1
    /\ timer' = TRUE
    /\ UNCHANGED <<fileVars, env, live, level, watching, reload, overlapped>>

\* time.AfterFunc runs doReload in its own goroutine, whatever others are doing.
Fire(w) ==
    /\ timer
    /\ Idle(w)
    /\ timer' = FALSE
    /\ reload' = [reload EXCEPT ![w] = [at |-> "load"]]
    /\ overlapped' = (overlapped \/ \E v \in Reloaders : ~Idle(v))
    /\ UNCHANGED <<fileVars, env, live, level, watching, events>>

-----------------------------------------------------------------------------
(* doReload.                                                               *)

Loaded == [content |-> WithOverrides(file.content, env), gen |-> file.gen]

\* Mutant: the file is validated after the swap, to report errors only.
LoadFile_Unvalidated(w) ==
    /\ reload[w].at = "load"
    /\ reload' = [reload EXCEPT ![w] =
           IF file.content.decodes THEN [at |-> "swap", new |-> Loaded] ELSE [at |-> "idle"]]
    /\ UNCHANGED <<fileVars, env, live, level, watchVars, overlapped>>

\* Store.Reload, Load: a file that does not load keeps the snapshot.
LoadFile(w) ==
    /\ reload[w].at = "load"
    /\ reload' = [reload EXCEPT ![w] =
           IF Loads(file.content) THEN [at |-> "swap", new |-> Loaded] ELSE [at |-> "idle"]]
    /\ UNCHANGED <<fileVars, env, live, level, watchVars, overlapped>>

\* Store.Reload, Swap.
Swap(w) ==
    /\ reload[w].at = "swap"
    /\ live' = reload[w].new
    /\ reload' = [reload EXCEPT ![w] =
           [at |-> "level", new |-> reload[w].new, oldLevel |-> live.content.level]]
    /\ UNCHANGED <<fileVars, env, level, watchVars, overlapped>>

\* Mutant: the level is set only when it becomes more verbose.
SetLevel_OnlyDown(w) ==
    /\ reload[w].at = "level"
    /\ level' = IF reload[w].new.content.level = "debug" THEN "debug" ELSE level
    /\ reload' = [reload EXCEPT ![w] = [at |-> "env"]]
    /\ UNCHANGED <<fileVars, env, live, watchVars, overlapped>>

SetLevel(w) ==
    /\ reload[w].at = "level"
    /\ level' = IF reload[w].new.content.level # reload[w].oldLevel
                THEN reload[w].new.content.level ELSE level
    /\ reload' = [reload EXCEPT ![w] = [at |-> "env"]]
    /\ UNCHANGED <<fileVars, env, live, watchVars, overlapped>>

\* ReloadEnvFile overwrites what the env file sets and unsets nothing.
SourceEnv(w) ==
    /\ reload[w].at = "env"
    /\ env' = IF envFile # NoKey THEN envFile ELSE env
    /\ reload' = [reload EXCEPT ![w] = [at |-> "idle"]]
    /\ UNCHANGED <<fileVars, live, level, watchVars, overlapped>>

DoReload(w) == LoadFile(w) \/ Swap(w) \/ SetLevel(w) \/ SourceEnv(w)

-----------------------------------------------------------------------------

StoreNext ==
    \/ Edit \/ EditEnvFile
    \/ Watch \/ TakeEvent
    \/ \E w \in Reloaders : Fire(w) \/ DoReload(w)

Spec == Init /\ [][StoreNext]_storeVars

\* The goroutines run, the watcher delivers and the timer fires.  Nothing
\* obliges the operator.
StoreFairness ==
    /\ WF_storeVars(Watch)
    /\ WF_storeVars(TakeEvent)
    /\ WF_storeVars(\E w \in Reloaders : Fire(w))
    /\ \A w \in Reloaders : WF_storeVars(DoReload(w))

-----------------------------------------------------------------------------
(* What the store promises.                                                *)

\* Files, snapshots, watcher and reloaders stay in their ranges.
StoreTypeOK ==
    /\ file \in Snapshots
    /\ envFile \in EnvFiles
    /\ env \in EnvFiles \cup {NoKey}
    /\ live \in Snapshots
    /\ level \in Levels
    /\ watching \in BOOLEAN
    /\ events \in Nat
    /\ timer \in BOOLEAN
    /\ reload \in [Reloaders -> ReloadStates]
    /\ edits \in 0..MaxEdits
    /\ unseen \in BOOLEAN
    /\ overlapped \in BOOLEAN

\* Every snapshot a handler can read has passed Validate, whatever the file
\* held meanwhile: a half-written file, one that does not decode, or one whose
\* chains outlast the clients (Store.Reload, "On error the current snapshot is
\* retained").
LiveConfigValid == Validate(live.content)

\* Between reloads the logger's level is the one of the live configuration,
\* though doReload sets it only when the snapshot it swapped out differed; as
\* long as no two reloads have run at once.
LevelFollowsLive ==
    ~overlapped /\ (\A w \in Reloaders : Idle(w)) => level = live.content.level

\* Once the operator stops, the live configuration is the file, if the file
\* loads and its last edit raised an event: however the edits fall between
\* debounce, load and swap, none is overlooked, as long as no two reloads have
\* run at once.
EditsArePickedUp ==
    <>[](Loads(file.content) /\ ~unseen /\ ~overlapped => live.gen = file.gen)

\* The same whatever reloads do ("Just edit the YAML -- the server picks it up
\* automatically", README).
LastEditIsLive ==
    <>[](Loads(file.content) /\ ~unseen => live.gen = file.gen)
=============================================================================
