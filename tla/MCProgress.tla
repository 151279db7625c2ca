------------------------------ MODULE MCProgress ------------------------------
(***************************************************************************)
(* Small instances of the parts in which something waits, for one run of   *)
(* TLC: a behaviour takes one of the machines and keeps to it.  The        *)
(* download manager is extended and has its own variables, at rest in the  *)
(* other machines, and is two of them: with the commands on one item, and  *)
(* with those of the queue and the download that is begun again.  The      *)
(* variables of the others are the first of x1, x2, ...  The fairness is   *)
(* each machine's own, where that machine is at work.                      *)
(***************************************************************************)
EXTENDS DownloadManager, TLC

CONSTANTS
  Nil,      \* an absent value
  w1, w2    \* workers

VARIABLES machine, x1, x2, x3, x4, x5, x6, x7, x8, x9, x10, x11, x12, x13, x14, x15, x16, x17, x18, x19,
          x20, x21, x22
allVars == <<machine, vars, x1, x2, x3, x4, x5, x6, x7, x8, x9, x10, x11, x12, x13, x14, x15, x16, x17, x18, x19,
          x20, x21, x22>>

\* A machine that uses the first k variables leaves the others alone.
Unused(k) ==
  /\ (k < 1 => x1 = Nil) /\ (k < 2 => x2 = Nil) /\ (k < 3 => x3 = Nil) /\ (k < 4 => x4 = Nil)
  /\ (k < 5 => x5 = Nil) /\ (k < 6 => x6 = Nil) /\ (k < 7 => x7 = Nil)
  /\ (k < 8 => x8 = Nil) /\ (k < 9 => x9 = Nil) /\ (k < 10 => x10 = Nil)
  /\ (k < 11 => x11 = Nil) /\ (k < 12 => x12 = Nil) /\ (k < 13 => x13 = Nil)
  /\ (k < 14 => x14 = Nil) /\ (k < 15 => x15 = Nil) /\ (k < 16 => x16 = Nil)
  /\ (k < 17 => x17 = Nil) /\ (k < 18 => x18 = Nil) /\ (k < 19 => x19 = Nil)
  /\ (k < 20 => x20 = Nil) /\ (k < 21 => x21 = Nil) /\ (k < 22 => x22 = Nil)
Kept(k) ==
  /\ (k < 1 => x1' = x1) /\ (k < 2 => x2' = x2) /\ (k < 3 => x3' = x3) /\ (k < 4 => x4' = x4)
  /\ (k < 5 => x5' = x5) /\ (k < 6 => x6' = x6) /\ (k < 7 => x7' = x7)
  /\ (k < 8 => x8' = x8) /\ (k < 9 => x9' = x9) /\ (k < 10 => x10' = x10)
  /\ (k < 11 => x11' = x11) /\ (k < 12 => x12' = x12) /\ (k < 13 => x13' = x13)
  /\ (k < 14 => x14' = x14) /\ (k < 15 => x15' = x15) /\ (k < 16 => x16' = x16)
  /\ (k < 17 => x17' = x17) /\ (k < 18 => x18' = x18) /\ (k < 19 => x19' = x19)
  /\ (k < 20 => x20' = x20) /\ (k < 21 => x21' = x21) /\ (k < 22 => x22' = x22)

Two == {w1, w2}
TwoAndOne == "a" :> 2 @@ "b" :> 1

Media == INSTANCE MediaJob WITH
  Workers <- Two, NoWorker <- Nil, Tracks <- {1, 2}, TrackOf <- <<1, 2>>, Keyed <- {1, 2}, MaxRetries <- 1,
  Policy <- "fail", Manifests <- {"p"}, MaxName <- 1, MaxRuns <- 1, MaxCrashes <- 0,
  stage <- x1, stopReason <- x2, plan <- x3, canRemux <- x4, name <- x5, done <- x6, queue <- x7,
  worker <- x8, cachedKey <- x9, keyLock <- x10, halt <- x11, track <- x12, outcome <- x13,
  saved <- x14, finished <- x15, dirs <- x16, file <- x17, fresh <- x18, target <- x19,
  extras <- x20, runs <- x21, crashes <- x22

Host == INSTANCE HostConnections WITH
  Downloads <- {"a", "b"}, Work <- TwoAndOne, Requested <- TwoAndOne, Initial <- 1,
  ConnectionsCap <- 2, ServerSlots <- 2, NoLimit <- 99, MaxUnjoined <- 1, MaxEvents <- 0,
  at <- x1, exits <- x2, active <- x3, requested <- x4, learned <- x5, ramp <- x6, target <- x7,
  hold <- x8, left <- x9, stop <- x10, pass <- x11, outcome <- x12, slots <- x13, limit <- x14,
  hostCap <- x15, events <- x16

Budget == INSTANCE WriteBudget WITH
  Downloads <- {"a", "b"}, FirstBudget <- 4, Budgets <- {3}, Sizes <- {1, 3}, WriteBuffer <- 4,
  MaxChannel <- 1, MaxUpdates <- 1, free <- x1, queue <- x2, wanted <- x3, got <- x4,
  channel <- x5, buffer <- x6, phase <- x7, total <- x8, budget <- x9, updates <- x10

VideoJobs == INSTANCE VideoJob WITH
  Videos <- {"a", "b"}, Order <- <<"video">>, Optional <- {}, Limits <- {1}, MaxStops <- 1,
  phase <- x1, stop <- x2, token <- x3, handles <- x4, stream <- x5, asked <- x6, next <- x7,
  result <- x8, report <- x9, temp <- x10, slots <- x11, limit <- x12, stops <- x13,
  asking <- x14

OneVideo == INSTANCE VideoJob WITH
  Videos <- {"a"}, Order <- <<"video", "subtitles">>, Optional <- {"subtitles"}, Limits <- {1},
  MaxStops <- 2, phase <- x1, stop <- x2, token <- x3, handles <- x4, stream <- x5, asked <- x6,
  next <- x7, result <- x8, report <- x9, temp <- x10, slots <- x11, limit <- x12, stops <- x13,
  asking <- x14

Calls == INSTANCE YtDlpRun WITH
  Kinds <- {"probe", "job"}, Sites <- {"youtube"}, MaxSwitches <- 0, kind <- x1, site <- x2,
  cookies <- x3, browser <- x4, at <- x5, page <- x6, used <- x7, first <- x8, hops <- x9,
  procs <- x10, code <- x11, file <- x12, path <- x13, message <- x14, shown <- x15,
  given <- x16, result <- x17, switches <- x18, tries <- x19, rejections <- x20

Browser == INSTANCE BrowserLink WITH
  Messages <- {"a"}, MaxInstances <- 2, MaxDeaths <- 1, MaxTimeouts <- 1, app <- x1, inst <- x2,
  file <- x3, stamp <- x4, cached <- x5, lock <- x6, at <- x7, info <- x8, quiet <- x9,
  failure <- x10, reread <- x11, launched <- x12, reply <- x13, host <- x14, timeouts <- x15,
  deaths <- x16, launches <- x17, starts <- x18, handled <- x19, down <- x20

Browsers == INSTANCE BrowserLink WITH
  Messages <- {"a", "b"}, MaxInstances <- 1, MaxDeaths <- 0, MaxTimeouts <- 0, app <- x1,
  inst <- x2, file <- x3, stamp <- x4, cached <- x5, lock <- x6, at <- x7, info <- x8,
  quiet <- x9, failure <- x10, reread <- x11, launched <- x12, reply <- x13, host <- x14,
  timeouts <- x15, deaths <- x16, launches <- x17, starts <- x18, handled <- x19, down <- x20

\* The commands of the manager's two machines.
CommandsOf == [manager |-> {"start", "pause", "delete"},
               queueing |-> {"redownload", "startQueue", "stopQueue"}]

\* The other machines, and the manager at rest.
OtherInit ==
  \/ machine = "media" /\ Media!MediaInit /\ Unused(22)
  \/ machine = "host" /\ Host!Init /\ Unused(16)
  \/ machine = "budget" /\ Budget!Init /\ Unused(10)
  \/ machine = "videos" /\ VideoJobs!Init /\ Unused(14)
  \/ machine = "video" /\ OneVideo!Init /\ Unused(14)
  \/ machine = "calls" /\ Calls!Init /\ Unused(20)
  \/ machine = "browser" /\ Browser!Init /\ Unused(20)
  \/ machine = "browsers" /\ Browsers!Init /\ Unused(20)

ProgressInit ==
  /\ Init
  /\ \/ machine \in DOMAIN CommandsOf /\ Unused(0)
     \/ OtherInit

\* Bound: with the commands of the queue, one job.
OneJob == \A j \in Jobs : j > 1 => job[j] = NoJob
ManagerNext ==
  /\ Next
  /\ \A t \in Callers : (thread[t].pc = "idle" \/ thread[t].cmd \in CommandsOf[machine])'
  /\ machine = "queueing" => OneJob'

OtherNext ==
  /\ \/ machine = "media" /\ Media!MediaNext /\ Kept(22)
     \/ machine = "host" /\ Host!Next /\ Kept(16)
     \/ machine = "budget" /\ Budget!Next /\ Kept(10)
     \/ machine = "videos" /\ VideoJobs!Next /\ Kept(14)
     \/ machine = "video" /\ OneVideo!Next /\ Kept(14)
     \/ machine = "calls" /\ Calls!Next /\ Kept(20)
     \/ machine = "browser" /\ Browser!Next /\ Kept(20)
     \/ machine = "browsers" /\ Browsers!Next /\ Kept(20)

ProgressNext ==
  /\ machine' = machine
  /\ \/ machine \in DOMAIN CommandsOf /\ ManagerNext /\ Kept(0)
     \/ OtherNext /\ UNCHANGED vars

------------------------------------------------------------------------------
(* Fairness: whatever can go on by itself does.                             *)

On(m) == machine = m

\* What waits for something that others take again and again gets it some time: a caller the
\* admission lock (parking_lot is eventually fair), a download its first slots, a thread of the
\* host the launch lock.  One formula for all machines: a behaviour has one of them.
Contended(k) ==
  /\ machine' = machine
  /\ \/ On("queueing") /\ k = "a" /\ (\E t \in Callers : Admit(t)) /\ Kept(0)
     \/ /\ \/ On("host") /\ Host!Begin(k) /\ Kept(16)
           \/ On("browser") /\ k = "a" /\ Browser!Ensure(k) /\ Kept(20)
           \/ On("browsers") /\ Browsers!Ensure(k) /\ Kept(20)
        /\ UNCHANGED vars
ContentionFairness == SF_allVars(Contended("a")) /\ SF_allVars(Contended("b"))

MediaFairness ==
  /\ \A w \in Two : WF_(Media!mediaVars)(On("media") /\ Media!LocalStep(w))
  /\ WF_(Media!mediaVars)(On("media") /\ Media!Coordinate)

HostFairness ==
  \A d \in {"a", "b"} :
    /\ WF_(Host!vars)(On("host") /\ Host!LoopTop(d))
    /\ WF_(Host!vars)(On("host") /\ Host!HoldOver(d))
    /\ WF_(Host!vars)(On("host") /\ \E k \in Host!Exits : Host!Join(d, k))
    /\ WF_(Host!vars)(On("host") /\ Host!CheckSlot(d))
    /\ WF_(Host!vars)(On("host") /\ Host!AwaitSlot(d))
    /\ WF_(Host!vars)(On("host") /\ Host!FinishUnit(d))
    /\ WF_(Host!vars)(On("host") /\ \E s \in Host!States : Host!StopWaiting(d, s) \/ Host!StopWorking(d, s))
    /\ \A s \in {"ready", "between"} : WF_(Host!vars)(On("host") /\ (Host!TakeUnit(d, s) \/ Host!Retire(d, s)))
    /\ \A s \in {"opening", "reopening"} : WF_(Host!vars)(On("host") /\ (Host!Open(d, s) \/ Host!Refuse(d, s)))

BudgetFairness ==
  \A d \in {"a", "b"} : /\ WF_(Budget!vars)(On("budget") /\ Budget!Submit(d))
                        /\ WF_(Budget!vars)(On("budget") /\ Budget!TakeChunk(d))
                        /\ WF_(Budget!vars)(On("budget") /\ Budget!FlushAll(d))

VideoFairness ==
  /\ \A v \in {"a", "b"} :
       /\ WF_(VideoJobs!vars)(On("videos") /\ VideoJobs!Run(v))
       /\ WF_(VideoJobs!vars)(On("videos") /\ VideoJobs!StreamEnds(v, "video"))
  /\ WF_(OneVideo!vars)(On("video") /\ OneVideo!Run("a"))
  /\ \A s \in {"video", "subtitles"} : WF_(OneVideo!vars)(On("video") /\ OneVideo!StreamEnds("a", s))
  /\ WF_(Calls!vars)(On("calls") /\ Calls!Service)

BrowserFairness ==
  /\ WF_(Browser!vars)(On("browser") /\ Browser!HostStep("a"))
  /\ WF_(Browser!vars)(On("browser") /\ Browser!Handle("a"))
  /\ WF_(Browser!vars)(On("browser") /\ Browser!Bind)
  /\ WF_(Browser!vars)(On("browser") /\ Browser!WriteInfo)
  /\ WF_(Browser!vars)(On("browser") /\ Browser!Exit)
  /\ \A m \in {"a", "b"} : /\ WF_(Browsers!vars)(On("browsers") /\ Browsers!HostStep(m))
                        /\ WF_(Browsers!vars)(On("browsers") /\ Browsers!Handle(m))
  /\ WF_(Browsers!vars)(On("browsers") /\ Browsers!Bind)
  /\ WF_(Browsers!vars)(On("browsers") /\ Browsers!WriteInfo)
  /\ WF_(Browsers!vars)(On("browsers") /\ Browsers!Exit)

ProgressSpec ==
  /\ ProgressInit /\ [][ProgressNext]_allVars
  /\ Fairness /\ ContentionFairness /\ MediaFairness /\ HostFairness /\ BudgetFairness
  /\ VideoFairness /\ BrowserFairness

------------------------------------------------------------------------------
(* What the run checks.                                                     *)

\* The manager (manager/mod.rs, jobs.rs, queues.rs): an item shown as active whose job has
\* ended, or was never started, does not stay so; and a command comes to its end, whatever jobs,
\* outcomes and the tick do meanwhile, and whoever else wants the admission lock.
ManagerSettles ==
  \A t \in Callers, i \in Items :
    (On("manager") /\ ShownActive(i)) \/ (On("queueing") /\ thread[t].pc # "idle") ~>
      (On("manager") => SettledItem(i)) /\ (On("queueing") => thread[t].pc = "idle")

\* HLS and DASH downloads (media/mod.rs): a job that is stopped ends, wherever its workers are:
\* waiting for a key, for the network, for a retry or for the disk.
StoppedJobEnds == (On("media") /\ Media!AskedToStop) ~> (On("media") => Media!NotRunning)

\* What the downloads share (hostlimits.rs, supervisor.rs, segmented/writer.rs): with a server
\* that serves, every download ends, no worker being left waiting for a connection slot and no
\* supervisor for a worker; and a chunk that waits for memory gets it, although the memory
\* may sit in other downloads' buffers that are not full.
SharersGetTheirTurn ==
  On("host") \/ (On("budget") /\ Budget!Waiting("a")) ~>
    (On("host") => Host!AllEnded) /\ (On("budget") => ~Budget!Waiting("a"))

Asked ==
  \/ On("videos") \/ On("video") \/ (On("calls") /\ Calls!GivenUp)
  \/ (On("browser") /\ Browser!Closed) \/ (On("browsers") /\ Browsers!Closed)
\* Video jobs (manager/jobs.rs) and the native messaging host (main.rs): a video that was started
\* reports, wherever a stop reaches it and whoever waits for its slot; a call of yt-dlp that is
\* given up ends, whatever yt-dlp does; after the browser closed the port the host exits,
\* every thread having answered.
AskedIsAnswered == Asked ~>
    /\ On("videos") => VideoJobs!AllReported
    /\ On("video") => OneVideo!AllReported
    /\ On("calls") => Calls!Ended
    /\ On("browser") => Browser!Exited
    /\ On("browsers") => Browsers!Exited

=============================================================================
