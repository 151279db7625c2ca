----------------------------- MODULE BrowserLink -----------------------------
(***************************************************************************)
(* The link from the browser to the app: the native messaging host         *)
(* (prism-native-host, host.rs and ipc.rs) answers each message on a       *)
(* thread of its own, finds the running app through ipc.json, launches it  *)
(* when it is not there, and repeats a message when the app it knew is     *)
(* gone; the app (prism-core, ipc.rs) writes and removes ipc.json.         *)
(***************************************************************************)
EXTENDS Naturals, FiniteSets

CONSTANTS
  Messages,       \* the browser's messages
  MaxInstances,   \* bound: times the app starts
  MaxDeaths,      \* bound: times it quits or is killed
  MaxTimeouts     \* bound: answers and launches that take too long

VARIABLES
  app, inst,      \* the app: "off", "starting", "bound" (serving, ipc.json not written), "up";
                  \* its instance, which stands for its port and token
  file, stamp,    \* ipc.json: the instance it names, 0 if there is none; its time and length
  cached,         \* AppClient::cached
  lock,           \* the message whose thread holds launch_lock, or ""
  at, info,       \* what a message's thread does, the instance it talks to, 0 for none
  quiet,          \* the messages with noLaunch
  failure, reread, launched, reply,   \* AppClient::send and the reply
  host,           \* "on", "eof", "exited"
  timeouts, deaths, launches, starts,
  handled,        \* history: times the app handled a message
  down            \* history: the app was not up at some moment since the message came

shared == <<file, stamp, cached, lock>>
thread == <<at, info, quiet, failure, reread, launched, reply>>
counts == <<timeouts, deaths, launches, starts>>
vars == <<app, inst, shared, thread, host, counts, handled, down>>

Working == {"load", "send", "posted", "handled", "failed", "lock", "wait"}

TypeOK ==
  /\ app \in {"off", "starting", "bound", "up"} /\ inst \in 0..MaxInstances /\ file \in 0..MaxInstances
  /\ cached.info \in 0..MaxInstances /\ lock \in Messages \union {""}
  /\ at \in [Messages -> Working \union {"none", "done"}] /\ info \in [Messages -> 0..MaxInstances]
  /\ failure \in [Messages -> {"", "not_running", "unauthorized"}]
  /\ host \in {"on", "eof", "exited"}

Init ==
  /\ app = "off" /\ inst = 0 /\ file = 0 /\ stamp = 0 /\ cached = [info |-> 0, stamp |-> 0]
  /\ lock = "" /\ at = [m \in Messages |-> "none"] /\ info = [m \in Messages |-> 0]
  /\ quiet = {} /\ failure = [m \in Messages |-> ""] /\ reread = [m \in Messages |-> FALSE]
  /\ launched = [m \in Messages |-> FALSE] /\ reply = [m \in Messages |-> ""]
  /\ host = "on" /\ timeouts = 0 /\ deaths = 0 /\ launches = 0 /\ starts = 0
  /\ handled = [m \in Messages |-> 0] /\ down = [m \in Messages |-> FALSE]

Serving == app \in {"bound", "up"}
Slow == timeouts < MaxTimeouts /\ timeouts' = timeouts + 1
NoneUp(a) == down' = [m \in Messages |-> down[m] \/ (a # "up" /\ at[m] \in Working)]

-----------------------------------------------------------------------------
(* The app                                                                 *)

UserStarts ==
  /\ app = "off" /\ inst < MaxInstances /\ app' = "starting" /\ starts' = starts + 1
  /\ UNCHANGED <<inst, shared, thread, host, timeouts, deaths, launches, handled, down>>

Bind ==
  /\ app = "starting" /\ inst < MaxInstances
  /\ app' = "bound" /\ inst' = inst + 1
  /\ UNCHANGED <<shared, thread, host, counts, handled, down>>

(* write_info: a rename replaces the file; two files written in the same   *)
(* tick of the clock have the same time and length.                        *)
WriteInfo ==
  /\ app = "bound" /\ app' = "up"
  /\ file' = inst /\ stamp' \in {stamp, stamp + 1}
  /\ UNCHANGED <<inst, cached, lock, thread, host, counts, handled, down>>

(* Dropping the server removes the file if it is still its own.            *)
Quit ==
  /\ app = "up" /\ deaths < MaxDeaths /\ deaths' = deaths + 1
  /\ app' = "off" /\ NoneUp("off")
  /\ file' = IF file = inst THEN 0 ELSE file
  /\ UNCHANGED <<inst, stamp, cached, lock, thread, host, timeouts, launches, starts, handled>>

Killed ==
  /\ app # "off" /\ deaths < MaxDeaths /\ deaths' = deaths + 1
  /\ app' = "off" /\ NoneUp("off")
  /\ UNCHANGED <<inst, shared, thread, host, timeouts, launches, starts, handled>>

Handle(m) ==
  /\ at[m] = "posted" /\ Serving /\ inst = info[m]
  /\ handled' = [handled EXCEPT ![m] = @ + 1] /\ at' = [at EXCEPT ![m] = "handled"]
  /\ UNCHANGED <<app, inst, shared, info, quiet, failure, reread, launched, reply, host, counts, down>>

-----------------------------------------------------------------------------
(* The host                                                                *)

(* A frame was read: a thread takes it, unless it is answered without the  *)
(* app (no JSON, no id or type, hostPing).                                 *)
Frame(m) ==
  /\ host = "on" /\ at[m] = "none"
  /\ \/ at' = [at EXCEPT ![m] = "load"] /\ quiet' \in {quiet, quiet \union {m}} /\ UNCHANGED reply
     \/ at' = [at EXCEPT ![m] = "done"] /\ reply' = [reply EXCEPT ![m] = "local"] /\ UNCHANGED quiet
  /\ down' = [down EXCEPT ![m] = app # "up"]
  /\ UNCHANGED <<app, inst, shared, info, failure, reread, launched, host, counts, handled>>

(* The browser closed the port, or a frame was cut off or too long.        *)
Eof ==
  /\ host = "on" /\ host' = "eof"
  /\ UNCHANGED <<app, inst, shared, thread, counts, handled, down>>

Exit ==
  /\ host = "eof" /\ \A m \in Messages : at[m] \in {"none", "done"}
  /\ host' = "exited"
  /\ UNCHANGED <<app, inst, shared, thread, counts, handled, down>>

(* watch_for_update: the executable was replaced.                          *)
Replaced ==
  /\ host # "exited" /\ host' = "exited"
  /\ at' = [m \in Messages |-> IF at[m] \in Working THEN "done" ELSE at[m]]
  /\ lock' = ""
  /\ UNCHANGED <<app, inst, file, stamp, cached, info, quiet, failure, reread, launched, reply, counts, handled, down>>

(* load_ipc: the cached file is used while its stamp is the same.          *)
Loaded(force) ==
  IF file = 0 THEN [info |-> 0, stamp |-> 0]
  ELSE IF force \/ cached.info = 0 \/ cached.stamp # stamp THEN [info |-> file, stamp |-> stamp] ELSE cached

Answered(m, with) ==
  /\ at' = [at EXCEPT ![m] = "done"] /\ reply' = [reply EXCEPT ![m] = with]

Load(m) ==
  /\ at[m] = "load"
  /\ cached' = Loaded(FALSE) /\ info' = [info EXCEPT ![m] = cached'.info]
  /\ at' = [at EXCEPT ![m] = "send"]
  /\ UNCHANGED <<app, inst, file, stamp, lock, failure, reread, launched, reply, quiet, host, counts, handled, down>>

Fails(m, why) ==
  /\ at' = [at EXCEPT ![m] = "failed"] /\ failure' = [failure EXCEPT ![m] = why]

Post(m) ==
  /\ at[m] = "send"
  /\ IF Serving /\ inst = info[m]
     THEN at' = [at EXCEPT ![m] = "posted"] /\ UNCHANGED failure
     ELSE Fails(m, "not_running")
  /\ UNCHANGED <<app, inst, shared, info, reread, launched, reply, quiet, host, counts, handled, down>>

(* Another instance has the port: it does not know the token.              *)
Unauthorized(m) ==
  /\ at[m] = "send" /\ Serving /\ info[m] # 0 /\ inst # info[m]
  /\ Fails(m, "unauthorized")
  /\ UNCHANGED <<app, inst, shared, info, reread, launched, reply, quiet, host, counts, handled, down>>

Reply(m) ==
  /\ at[m] = "handled" /\ Serving /\ inst = info[m] /\ Answered(m, "ok")
  /\ UNCHANGED <<app, inst, shared, info, failure, reread, launched, quiet, host, counts, handled, down>>

(* The app died with the message in its hands: a reset connection counts   *)
(* as an app that is not running, any other error is the reply.            *)
Broken(m) ==
  /\ at[m] \in {"posted", "handled"} /\ (~Serving \/ inst # info[m])
  /\ \/ Fails(m, "not_running") /\ UNCHANGED reply
     \/ Answered(m, "app_error") /\ UNCHANGED failure
  /\ UNCHANGED <<app, inst, shared, info, reread, launched, quiet, host, counts, handled, down>>

\* Mutant: a late answer counts as an app that is not running.
Late_NotRunning(m) == Fails(m, "not_running") /\ UNCHANGED reply
Late(m) == Answered(m, "timeout") /\ UNCHANGED failure

Timeout(m) ==
  /\ at[m] \in {"posted", "handled"} /\ Slow /\ Late(m)
  /\ UNCHANGED <<app, inst, shared, info, reread, launched, quiet, host, deaths, launches, starts, handled, down>>

\* Mutant: ipc.json is not read again.
Reread_Never(m) == cached
Reread(m) == Loaded(TRUE)

(* The failed attempt: ipc.json is read again, once; a changed file is     *)
(* tried, otherwise the app is launched, once, or the message fails.       *)
Failed(m) ==
  /\ at[m] = "failed"
  /\ IF reread[m] THEN UNCHANGED <<reread, cached, info>>
     ELSE /\ reread' = [reread EXCEPT ![m] = TRUE]
          /\ cached' = Reread(m) /\ info' = [info EXCEPT ![m] = cached'.info]
  /\ IF info'[m] # 0 /\ info'[m] # info[m]
     THEN at' = [at EXCEPT ![m] = "send"] /\ UNCHANGED <<reply, launched>>
     ELSE CASE failure[m] = "unauthorized" -> Answered(m, "unauthorized") /\ UNCHANGED launched
            [] failure[m] = "not_running" /\ m \in quiet -> Answered(m, "app_not_running") /\ UNCHANGED launched
            [] failure[m] = "not_running" /\ m \notin quiet /\ launched[m] ->
                 Answered(m, "app_unreachable") /\ UNCHANGED launched
            [] OTHER -> /\ launched' = [launched EXCEPT ![m] = TRUE]
                        /\ at' = [at EXCEPT ![m] = "lock"] /\ UNCHANGED reply
  /\ UNCHANGED <<app, inst, file, stamp, lock, failure, quiet, host, counts, handled, down>>

Healthy(i) == i # 0 /\ Serving /\ inst = i

\* Mutant: whoever gets the lock launches the app.
Found_Never(i) == FALSE
Found(i) == Healthy(i)

(* ensure_running: under the lock, an app that answers is not launched.    *)
Ensure(m) ==
  /\ at[m] = "lock" /\ lock = ""
  /\ cached' = Loaded(TRUE)
  /\ IF Found(cached'.info)
     THEN /\ info' = [info EXCEPT ![m] = cached'.info] /\ at' = [at EXCEPT ![m] = "send"]
          /\ UNCHANGED <<lock, app, launches>>
     ELSE /\ lock' = m /\ at' = [at EXCEPT ![m] = "wait"] /\ launches' = launches + 1
          /\ app' = IF app = "off" THEN "starting" ELSE app
          /\ UNCHANGED info
  /\ UNCHANGED <<inst, file, stamp, failure, reread, launched, reply, quiet, host, timeouts, deaths, starts, handled, down>>

\* Mutant: the launch lock is kept.
Unlocked_Never == UNCHANGED lock
Unlocked == lock' = ""

CameUp(m) ==
  /\ at[m] = "wait" /\ Healthy(file)
  /\ cached' = Loaded(TRUE) /\ info' = [info EXCEPT ![m] = file]
  /\ at' = [at EXCEPT ![m] = "send"] /\ Unlocked
  /\ UNCHANGED <<app, inst, file, stamp, failure, reread, launched, reply, quiet, host, counts, handled, down>>

(* LAUNCH_WAIT is over.                                                    *)
NotUp(m) ==
  /\ at[m] = "wait" /\ Answered(m, "app_unreachable") /\ Unlocked
  /\ IF app = "off" THEN UNCHANGED timeouts ELSE Slow
  /\ UNCHANGED <<app, inst, file, stamp, cached, info, failure, reread, launched, quiet, host, deaths, launches, starts, handled, down>>

(* The executable is missing or cannot be started.                         *)
LaunchFails(m) ==
  /\ at[m] = "lock" /\ lock = "" /\ ~Found(Loaded(TRUE).info)
  /\ cached' = Loaded(TRUE) /\ Answered(m, "app_unreachable")
  /\ UNCHANGED <<app, inst, file, stamp, lock, info, failure, reread, launched, quiet, host, counts, handled, down>>

Thread(m) ==
  \/ Load(m) \/ Post(m) \/ Unauthorized(m) \/ Reply(m) \/ Broken(m) \/ Timeout(m)
  \/ Failed(m) \/ Ensure(m) \/ CameUp(m) \/ NotUp(m) \/ LaunchFails(m)

Next ==
  \/ UserStarts \/ Bind \/ WriteInfo \/ Quit \/ Killed \/ Eof \/ Exit \/ Replaced
  \/ \E m \in Messages : Handle(m) \/ Frame(m) \/ Thread(m)

Spec == Init /\ [][Next]_vars

(* The threads run, the app answers and comes up, or the wait for it ends. *)
HostStep(m) ==
  \/ Load(m) \/ Post(m) \/ Unauthorized(m) \/ Reply(m) \/ Broken(m) \/ Failed(m) \/ CameUp(m)
  \/ app = "off" /\ NotUp(m)
Fairness ==
  \A m \in Messages : WF_vars(HostStep(m)) /\ SF_vars(Ensure(m)) /\ WF_vars(Handle(m))

FairSpec == Spec /\ Fairness /\ WF_vars(Bind) /\ WF_vars(WriteInfo) /\ WF_vars(Exit)

-----------------------------------------------------------------------------
(* Concurrent messages launch the app together once: another launch needs  *)
(* an app that died, one that took too long, or a user who started it in   *)
(* between (ensure_running: "Launches the app (once, even with concurrent  *)
(* callers)").                                                             *)
LaunchedOnce == launches <= 1 + deaths + timeouts + starts

(* The app handles a message once: a message is repeated only after the    *)
(* app that may have handled it died.                                      *)
HandledOnce == \A m \in Messages : handled[m] <= 1 + deaths

(* A message that must not start the app is told that the app does not run *)
(* or does not accept it only if the app was not up all the time.          *)
NoFalseAlarm ==
  \A m \in Messages : reply[m] \in {"app_not_running", "unauthorized"} => down[m]

(* The host exits after the browser closed the port: every thread answers, *)
(* none waits for the launch lock for ever (run_with joins them all).      *)
Closed == host = "eof"
Exited == host = "exited"
ClosedHostExits == Closed ~> Exited
=============================================================================
