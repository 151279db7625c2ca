--------------------------- MODULE SettingsStore ---------------------------
(***************************************************************************)
(* How a change of the settings reaches the running parts (prism-core,     *)
(* manager/mod.rs): update_settings changes the settings in memory under   *)
(* the state's lock, and then, without a lock, writes them to the database *)
(* and pushes them part by part: global speed limit, engine, video         *)
(* service, video slots, the playlist queue, torrent session.  Commands of *)
(* the window run on several threads; the start of the torrent session and *)
(* the search for ffmpeg push parts of the settings too.                   *)
(***************************************************************************)
EXTENDS Naturals

CONSTANTS Callers,       \* commands that may run at the same time
          Limits,        \* speed limits a user sets
          Connections,   \* connection settings, as opaque values
          SlotChoices,   \* numbers of simultaneous videos a patch may ask for
          MaxUpdates,    \* patches, toggles, session starts and searches for ffmpeg in a run
          MaxFaults      \* failing database writes, and restarts

Unlimited == 0
NoPath == "no path"      \* no ffmpeg
Custom == "custom"       \* the ffmpeg that the settings name
Found == "found"         \* the ffmpeg that the video service found
Torrenter == "torrent"   \* the task that starts the torrent session
Finder == "finder"       \* the task that looks for ffmpeg
Tasks == Callers \cup {Torrenter, Finder}

VARIABLES settings,      \* State.settings
          saved,         \* the row "settings" of the database
          pc,            \* what each task does next
          own,           \* the settings each task holds a copy of
          config,        \* the engine configuration each task is about to push
          parts,         \* what each running part works by; a torrent session's limit if it is up
          ffmpeg,        \* CoreInner.ffmpeg_path
          session,       \* whether the torrent session is up
          updates,       \* operations so far
          faults,        \* faults so far
          stale          \* an operation failed or overlapped another, and none ran alone since

vars == <<settings, saved, pc, own, config, parts, ffmpeg, session, updates, faults, stale>>

Settings == [enabled : BOOLEAN, limit : Limits, conn : Connections, slots : 1 .. 10,
             ffmpeg : {NoPath, Custom}]
Default == [enabled |-> FALSE, limit |-> CHOOSE l \in Limits : TRUE,
            conn |-> CHOOSE c \in Connections : TRUE, slots |-> 3, ffmpeg |-> NoPath]

\* What a user patches in one go: a control of the settings window.
Patches == [enabled : BOOLEAN] \cup [limit : Limits] \cup [conn : Connections]
           \cup [slots : SlotChoices] \cup [ffmpeg : {NoPath, Custom}]

Clamp(n, low, high) == IF n < low THEN low ELSE IF n > high THEN high ELSE n

\* apply_patch merges, a key at a time; the number of videos is kept in its range.
Patched(s, patch) ==
  LET merged == [f \in DOMAIN s |-> IF f \in DOMAIN patch THEN patch[f] ELSE s[f]]
  IN  [merged EXCEPT !.slots = Clamp(@, 1, 10)]

GlobalRate(s) == IF s.enabled THEN s.limit ELSE Unlimited
EngineConfig(s, found) ==
  [conn |-> s.conn, ffmpeg |-> IF s.ffmpeg # NoPath THEN s.ffmpeg ELSE found]
NoConfig == EngineConfig(Default, NoPath)      \* of a task that holds none

\* The parts as apply_runtime_settings leaves them.
Applied(s, found, up) ==
  [rate |-> GlobalRate(s), engine |-> EngineConfig(s, found), video |-> s.ffmpeg,
   slots |-> s.slots, playlist |-> s.slots,
   torrent |-> IF up THEN GlobalRate(s) ELSE Unlimited]

Idle == [t \in Tasks |-> "idle"]
Quiet == pc = Idle

\* Core::start applies what it loaded before anything else of the program runs.
Init ==
  /\ settings = Default /\ saved = Default
  /\ pc = Idle /\ own = [t \in Tasks |-> Default] /\ config = [t \in Tasks |-> NoConfig]
  /\ parts = Applied(Default, NoPath, FALSE) /\ ffmpeg = NoPath /\ session = FALSE
  /\ updates = 0 /\ faults = 0 /\ stale = FALSE

\* One more operation begins.
Begin == updates < MaxUpdates /\ updates' = updates + 1
At(t, stage) == pc[t] = stage
Goto(t, stage) ==
  /\ pc' = [pc EXCEPT ![t] = stage]
  /\ own' = IF stage = "idle" THEN [own EXCEPT ![t] = Default] ELSE own
ReadSettings(t, stage) ==
  /\ pc' = [pc EXCEPT ![t] = stage]
  /\ own' = [own EXCEPT ![t] = settings]

------------------------------------------------------------------------------
(* update_settings                                                          *)

\* The locked part.  Alone, the update puts everything in force again.
Patch(c, patch) ==
  /\ settings' = Patched(settings, patch)
  /\ own' = [own EXCEPT ![c] = settings']
  /\ pc' = [pc EXCEPT ![c] = "save"]
  /\ stale' = \E t \in Tasks \ {c} : ~At(t, "idle")
  /\ UNCHANGED <<saved, config, parts, ffmpeg, session, faults>>

Update(c) == At(c, "idle") /\ Begin /\ \E patch \in Patches : Patch(c, patch)

\* toggle_speed_limiter reads the switch before update_settings takes the lock.
ReadSwitch(c) ==
  /\ At(c, "idle") /\ Begin
  /\ ReadSettings(c, "toggle")
  /\ stale' = (stale \/ ~Quiet)
  /\ UNCHANGED <<settings, saved, config, parts, ffmpeg, session, faults>>

Toggle(c) ==
  /\ At(c, "toggle")
  /\ Patch(c, [enabled |-> ~own[c].enabled])
  /\ UNCHANGED updates

\* If the database refuses, update_settings returns before it applies anything.
Save(c) ==
  /\ At(c, "save")
  /\ \/ saved' = own[c] /\ Goto(c, "read") /\ UNCHANGED <<faults, stale>>
     \/ /\ faults < MaxFaults /\ faults' = faults + 1
        /\ stale' = TRUE
        /\ Goto(c, "idle") /\ UNCHANGED saved
  /\ UNCHANGED <<settings, config, parts, ffmpeg, session, updates>>

------------------------------------------------------------------------------
(* apply_runtime_settings, and apply_engine_config within it                *)

Read(c) ==
  /\ At(c, "read") /\ ReadSettings(c, "rate")
  /\ UNCHANGED <<settings, saved, config, parts, ffmpeg, session, updates, faults, stale>>

\* Task t sets one part and goes on.
Push(t, stage, part, value, next) ==
  /\ At(t, stage) /\ Goto(t, next)
  /\ parts' = [parts EXCEPT ![part] = value]
  /\ UNCHANGED <<settings, saved, ffmpeg, session, updates, faults, stale>>

SetRate(c) == Push(c, "rate", "rate", GlobalRate(own[c]), "config") /\ UNCHANGED config

\* apply_engine_config reads the settings anew, and the path found if they name none.
ReadConfig(t) ==
  /\ At(t, "config") /\ Goto(t, "engine")
  /\ config' = [config EXCEPT ![t] = EngineConfig(settings, ffmpeg)]
  /\ UNCHANGED <<settings, saved, parts, ffmpeg, session, updates, faults, stale>>

SetEngine(t) ==
  /\ Push(t, "engine", "engine", config[t], IF t = Finder THEN "idle" ELSE "video")
  /\ config' = [config EXCEPT ![t] = NoConfig]

SetVideo(c) == Push(c, "video", "video", own[c].ffmpeg, "slots") /\ UNCHANGED config
SetSlots(c) == Push(c, "slots", "slots", Clamp(own[c].slots, 1, 10), "queue") /\ UNCHANGED config

\* upsert_queue, if the number differs; the update goes on if the database refuses.
SyncQueue(c) ==
  \/ Push(c, "queue", "playlist", own[c].slots, "torrent") /\ UNCHANGED config
  \/ /\ At(c, "queue") /\ Goto(c, "torrent")
     /\ parts.playlist # own[c].slots /\ faults < MaxFaults
     /\ faults' = faults + 1 /\ stale' = TRUE
     /\ UNCHANGED <<settings, saved, config, parts, ffmpeg, session, updates>>

SetTorrent(c) ==
  /\ Push(c, "torrent", "torrent", IF session THEN GlobalRate(own[c]) ELSE parts.torrent, "idle")
  /\ UNCHANGED config

------------------------------------------------------------------------------
(* The tasks that push settings of their own accord                         *)

\* torrent_engine, called for every torrent: it starts the session if none is up.
StartSession ==
  /\ At(Torrenter, "idle") /\ Begin /\ Goto(Torrenter, "session")
  /\ session' = TRUE
  /\ stale' = (stale \/ ~Quiet)
  /\ UNCHANGED <<settings, saved, config, parts, ffmpeg, faults>>

ReadLimits ==
  /\ At(Torrenter, "session") /\ ReadSettings(Torrenter, "limit")
  /\ UNCHANGED <<settings, saved, config, parts, ffmpeg, session, updates, faults, stale>>

\* Mutant: the session is not limited when it starts.
SessionRate_None(s) == Unlimited

SessionRate(s) == GlobalRate(s)
LimitSession ==
  /\ Push(Torrenter, "limit", "torrent", SessionRate(own[Torrenter]), "idle")
  /\ UNCHANGED config

\* sync_ffmpeg_path: the path that the video service uses, then apply_engine_config.
FindFfmpeg ==
  /\ At(Finder, "idle") /\ Begin /\ Goto(Finder, "config")
  /\ ffmpeg' \in {NoPath, Found}
  /\ stale' = (stale \/ ~Quiet)
  /\ UNCHANGED <<settings, saved, config, parts, session, faults>>

\* The program is restarted, perhaps in the middle of an operation.
Restart ==
  /\ faults < MaxFaults /\ faults' = faults + 1
  /\ settings' = saved
  /\ pc' = Idle /\ own' = [t \in Tasks |-> Default] /\ config' = [t \in Tasks |-> NoConfig]
  /\ parts' = Applied(saved, NoPath, FALSE) /\ ffmpeg' = NoPath /\ session' = FALSE
  /\ stale' = FALSE
  /\ UNCHANGED <<saved, updates>>

Next ==
  \/ \E c \in Callers :
       \/ Update(c) \/ ReadSwitch(c) \/ Toggle(c) \/ Save(c) \/ Read(c) \/ SetRate(c)
       \/ SetVideo(c) \/ SetSlots(c) \/ SyncQueue(c) \/ SetTorrent(c)
  \/ \E t \in Callers \cup {Finder} : ReadConfig(t) \/ SetEngine(t)
  \/ StartSession \/ ReadLimits \/ LimitSession \/ FindFfmpeg \/ Restart

\* A settled program rests.
Spec == Init /\ [][Next]_vars

------------------------------------------------------------------------------
Configs == [conn : Connections, ffmpeg : {NoPath, Custom, Found}]
Rates == Limits \cup {Unlimited}

TypeOK ==
  /\ settings \in Settings /\ saved \in Settings
  /\ pc \in [Tasks -> {"idle", "toggle", "save", "read", "rate", "config", "engine", "video",
                       "slots", "queue", "torrent", "session", "limit"}]
  /\ own \in [Tasks -> Settings] /\ config \in [Tasks -> Configs]
  /\ parts \in [rate : Rates, engine : Configs, video : {NoPath, Custom}, slots : 1 .. 10,
                playlist : 1 .. 10, torrent : Rates]
  /\ ffmpeg \in {NoPath, Found} /\ session \in BOOLEAN
  /\ updates \in 0 .. MaxUpdates /\ faults \in 0 .. MaxFaults /\ stale \in BOOLEAN

\* An update that no other operation overlaps puts every part under the settings and saves
\* them, whatever overlapped or failed before it, and neither a session started nor an ffmpeg
\* found afterwards undoes that (update_settings, apply_runtime_settings, torrent_engine).
AloneInForce ==
  Quiet /\ ~stale => saved = settings /\ parts = Applied(settings, ffmpeg, session)

\* "Engine settings from the user's settings plus the resolved ffmpeg (kept across changes)":
\* with no operation under way, the engine has the ffmpeg that was found, unless the settings
\* name one (apply_engine_config, sync_ffmpeg_path).
FfmpegKept == Quiet => parts.engine.ffmpeg = EngineConfig(settings, ffmpeg).ffmpeg

=============================================================================
