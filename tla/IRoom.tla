------------------------------- MODULE IRoom -------------------------------
(***************************************************************************)
(* The live streaming service (src/iroom): the HTTP handlers of iroom.py   *)
(* fork a start.py or a stop.py for each request; start.py watches over a  *)
(* camera2hls process for livelimit seconds, forks it again when it is     *)
(* gone and kills it in the end; stop.py kills everything of its camera.   *)
(* The scripts know each other only by what `ps' shows, and time passes    *)
(* between a `ps' and what is done about it.                               *)
(*                                                                         *)
(* Nothing waits for a script, or for the shell that redirects the output  *)
(* of a camera into its log, but the second that a handler and a start.py  *)
(* sleep (iroom.py:38, start.py:31-33); a second passes for each request   *)
(* on its own.                                                             *)
(***************************************************************************)
EXTENDS Integers, FiniteSets

CONSTANTS
    Gets, Stops,   \* requests: getlivestream, stoplivestream
    Cameras,       \* ip, port and name of a camera
    Matches(_),    \* the cameras whose processes `grep ip|grep port|grep name' finds
    LogOf(_),      \* the log of a camera: <name>.log
    Limits,        \* livelimit, in seconds
    Polls,         \* how often a handler looks into the log, 25 in the code
    Workers        \* gunicorn -w 4

Requests == Gets \cup Stops

ASSUME IRoomAssumption ==
    /\ Gets \cap Stops = {}
    /\ \A k \in Cameras : k \in Matches(k)
    /\ Limits \subseteq Nat \ {0}
    /\ Polls \in Nat \ {0} /\ Workers \in Nat \ {0}

VARIABLES
    cam,        \* the camera each request names
    limit,      \* the livelimit of each get
    http,       \* how far a request is, or its answer
    counts,     \* looks into the log left to a get
    age,        \* seconds since a get arrived, counted up to its limit
    watcher,    \* the start.py of each get
    stopper,    \* the stop.py of each stop
    running,    \* the camera2hls processes, from the fork of the shell that runs them
    opened,     \* those whose shell has opened the log
    streaming,  \* those that have printed a `time'
    log,        \* whether a log holds a `time'
    backed,     \* history: since the get arrived a process of its camera has run
                \*   that has printed a `time', before the get or after
    raced,      \* history: gets that looked into the log ahead of the shell that
                \*   empties it, or whose shell was killed before it did
    doubled     \* history: cameras two processes of which have run at once

requests == <<cam, limit, http, counts, age>>
cameras == <<running, opened, streaming>>
processes == <<watcher, stopper, cameras>>
history == <<backed, raced, doubled>>
vars == <<requests, processes, log, history>>

\* A camera process: the get whose start.py forked it, and the ttl it had then.
Process == [owner : Gets, ttl : Nat]
Victims == [cameras : SUBSET Process, starts : SUBSET Gets, stops : SUBSET Stops]
Nothing == [cameras |-> {}, starts |-> {}, stops |-> {}]

CamOf(c) == cam[c.owner]
ProcessesOf(k) == {c \in running : CamOf(c) = k}
Opening(k) == \E c \in running \ opened : CamOf(c) = k
Streams(k) == \E c \in streaming : CamOf(c) = k

Init ==
    /\ cam \in [Requests -> Cameras]
    /\ limit \in [Gets -> Limits]
    /\ http = [r \in Requests |-> "none"]
    /\ counts = [r \in Gets |-> Polls]
    /\ age = [r \in Gets |-> 0]
    /\ watcher = [r \in Gets |-> [pc |-> "none", ttl |-> limit[r], victims |-> Nothing]]
    /\ stopper = [s \in Stops |-> [pc |-> "none", victims |-> Nothing]]
    /\ running = {} /\ opened = {} /\ streaming = {}
    /\ log = [f \in {LogOf(k) : k \in Cameras} |-> FALSE]
    /\ backed = [r \in Gets |-> FALSE] /\ raced = {} /\ doubled = {}

----------------------------------------------------------------------------
(* What ps shows of camera k *)

CamerasFound(k) == {c \in running : CamOf(c) \in Matches(k)}
StopsFound(k)   == {s \in Stops : stopper[s].pc \in {"look", "kill"} /\ cam[s] \in Matches(k)}
StartsFound(k)  == {r \in Gets : watcher[r].pc \notin {"none", "gone"} /\ cam[r] \in Matches(k)}

\* stop.py: everything with its ip, port and name, itself included.
FoundAll(k) ==
    [cameras |-> CamerasFound(k), starts |-> StartsFound(k), stops |-> StopsFound(k)]

\* Mutant: a camera counts when it streams.
FoundStreaming(k) ==
    [cameras |-> CamerasFound(k) \cap streaming, starts |-> {}, stops |-> StopsFound(k)]

\* start.py: the same with `grep -v start.py'; a stop.py is found.
Found(k) == [cameras |-> CamerasFound(k), starts |-> {}, stops |-> StopsFound(k)]

\* xargs kill -9 of what ps showed.  A script whose own kill is under way does not
\* take it along: the shell that runs the kill is not among the victims.
KillCameras(victims) ==
    /\ running' = running \ victims.cameras
    /\ opened' = opened \ victims.cameras
    /\ streaming' = streaming \ victims.cameras
    /\ raced' = raced \cup {r \in Gets : /\ http[r] # "none" /\ age[r] = 0
                                       /\ \E c \in victims.cameras \cap (running \ opened) :
                                              CamOf(c) = cam[r]}
    /\ UNCHANGED <<log, backed, doubled>>
WatchersWithout(victims) ==
    [r \in Gets |-> IF r \in victims.starts /\ watcher[r].pc # "reap"
                    THEN [watcher[r] EXCEPT !.pc = "gone"] ELSE watcher[r]]
StoppersWithout(victims) ==
    [s \in Stops |-> IF s \in victims.stops /\ stopper[s].pc = "look"
                     THEN [stopper[s] EXCEPT !.pc = "gone"] ELSE stopper[s]]

----------------------------------------------------------------------------
(* iroom.py *)

\* A sync worker of gunicorn serves one request at a time.
WorkerFree == Cardinality({r \in Gets : http[r] = "polling"}) < Workers

\* getlivestreamHandler forks start.py and sleeps a second.
GetArrives(r) ==
    /\ http[r] = "none" /\ WorkerFree
    /\ http' = [http EXCEPT ![r] = "polling"]
    /\ watcher' = [watcher EXCEPT ![r].pc = "check"]
    /\ backed' = [backed EXCEPT ![r] = Streams(cam[r])]
    /\ UNCHANGED <<cam, limit, counts, age, stopper, cameras, log, raced, doubled>>

\* From one second on the handler looks into the log; NO when it never finds one.
Poll(r) ==
    /\ http[r] = "polling" /\ age[r] > 0
    /\ \/ /\ log[LogOf(cam[r])]
          /\ http' = [http EXCEPT ![r] = "YES"]
          /\ UNCHANGED counts
       \/ /\ ~log[LogOf(cam[r])]
          /\ counts' = [counts EXCEPT ![r] = @ - 1]
          /\ http' = IF counts[r] = 1 THEN [http EXCEPT ![r] = "NO"] ELSE http
    /\ UNCHANGED <<cam, limit, age, processes, log, history>>

\* stoplivestreamHandler forks stop.py and answers at once.
StopArrives(s) ==
    /\ http[s] = "none" /\ WorkerFree
    /\ http' = [http EXCEPT ![s] = "OK"]
    /\ stopper' = [stopper EXCEPT ![s].pc = "look"]
    /\ UNCHANGED <<cam, limit, counts, age, watcher, cameras, log, history>>

----------------------------------------------------------------------------
(* start.py *)

\* Nothing to do when there is a process of this camera.
Check(r) ==
    /\ watcher[r].pc = "check"
    /\ watcher' = [watcher EXCEPT ![r].pc = IF Found(cam[r]) # Nothing THEN "gone" ELSE "look"]
    /\ UNCHANGED <<requests, stopper, cameras, log, history>>

\* Mutant: one second less.
OneRoundLess(r) == watcher[r].ttl > 1

\* while ttl > 0
RoundsLeft(r) == watcher[r].ttl > 0

\* A round of the loop: ps, and on to the fork or the sleep.
Look(r) ==
    /\ watcher[r].pc = "look" /\ RoundsLeft(r)
    /\ \/ /\ Found(cam[r]) = Nothing
          /\ watcher' = [watcher EXCEPT ![r].pc = "fork"]
       \/ /\ Found(cam[r]) # Nothing
          /\ watcher' = [watcher EXCEPT ![r] = [watcher[r] EXCEPT !.pc = "sleep", !.ttl = @ - 1]]
    /\ UNCHANGED <<requests, stopper, cameras, log, history>>

\* ./camera2hls ip port user url > user.log & : Popen does not wait for the shell.
Fork(r) ==
    /\ watcher[r].pc = "fork"
    /\ running' = running \cup {[owner |-> r, ttl |-> watcher[r].ttl]}
    /\ doubled' = IF ProcessesOf(cam[r]) = {} THEN doubled ELSE doubled \cup {cam[r]}
    /\ watcher' = [watcher EXCEPT ![r].pc = "sleep", ![r].ttl = @ - 1]
    /\ UNCHANGED <<requests, stopper, opened, streaming, log, backed, raced>>

\* Mutant: only what streams is taken down.
ReapedStreaming(r) == FoundStreaming(cam[r])

\* What the last ps of start.py finds.
Reaped(r) == Found(cam[r])

\* livelimit is over: ps, awk and then kill.
ReapLook(r) ==
    /\ watcher[r].pc = "look" /\ ~RoundsLeft(r)
    /\ watcher' = [watcher EXCEPT ![r] = [pc |-> "reap", ttl |-> @.ttl,
                                                victims |-> Reaped(r)]]
    /\ UNCHANGED <<requests, stopper, cameras, log, history>>

ReapKill(r) ==
    /\ watcher[r].pc = "reap"
    /\ KillCameras(watcher[r].victims)
    /\ stopper' = StoppersWithout(watcher[r].victims)
    /\ watcher' = [watcher EXCEPT ![r] = [pc |-> "gone", ttl |-> @.ttl, victims |-> Nothing]]
    /\ UNCHANGED requests

Watch(r) == Check(r) \/ Look(r) \/ Fork(r) \/ ReapLook(r) \/ ReapKill(r)

----------------------------------------------------------------------------
(* stop.py *)

StopLook(s) ==
    /\ stopper[s].pc = "look"
    /\ stopper' = [stopper EXCEPT ![s].pc = "kill", ![s].victims = FoundAll(cam[s])]
    /\ UNCHANGED <<requests, watcher, cameras, log, history>>

StopKill(s) ==
    /\ stopper[s].pc = "kill"
    /\ KillCameras(stopper[s].victims)
    /\ watcher' = WatchersWithout(stopper[s].victims)
    /\ stopper' = [StoppersWithout(stopper[s].victims) EXCEPT ![s] =
                      [pc |-> "gone", victims |-> Nothing]]
    /\ UNCHANGED requests

----------------------------------------------------------------------------
(* camera2hls, and time *)

\* Mutant: the log is not made empty.
LogAppended(f) == log

\* The log with file f made empty.
LogTruncated(f) == [log EXCEPT ![f] = FALSE]

\* The shell opens the log and becomes the camera.
OpenLog(c) ==
    /\ c \notin opened
    /\ opened' = opened \cup {c}
    /\ log' = LogTruncated(LogOf(CamOf(c)))
    /\ UNCHANGED <<requests, watcher, stopper, running, streaming, history>>

\* A frame arrives: its `time' goes into the log.
Stream(c) ==
    /\ c \in opened
    /\ c \notin streaming \/ ~log[LogOf(CamOf(c))]
    /\ streaming' = streaming \cup {c}
    /\ log' = [log EXCEPT ![LogOf(CamOf(c))] = TRUE]
    /\ backed' = [r \in Gets |-> backed[r] \/ (http[r] # "none" /\ cam[r] = CamOf(c))]
    /\ UNCHANGED <<requests, watcher, stopper, running, opened, raced, doubled>>

\* No connection, no login, or an abort.
CameraExits(c) ==
    /\ c \in opened
    /\ running' = running \ {c} /\ opened' = opened \ {c} /\ streaming' = streaming \ {c}
    /\ UNCHANGED <<requests, watcher, stopper, log, history>>

\* What the handler of r is about to look into has not been emptied: its start.py has
\* not come to its sleep, or a shell has not opened the log.
NotReady(r) == watcher[r].pc \in {"check", "look", "fork"} \/ Opening(cam[r])

\* A second passes for a request: for its handler, and for its start.py if that sleeps.
Second(r) ==
    /\ http[r] # "none"
    /\ age' = [age EXCEPT ![r] = IF age[r] < limit[r] THEN age[r] + 1 ELSE @]
    /\ watcher' = [watcher EXCEPT ![r].pc = IF watcher[r].pc = "sleep" THEN "look" ELSE @]
    /\ raced' = IF age[r] = 0 /\ NotReady(r) THEN raced \cup {r} ELSE raced
    /\ UNCHANGED <<cam, limit, http, counts, stopper, cameras, log, backed, doubled>>

Next ==
    \/ \E r \in Gets : GetArrives(r) \/ Poll(r) \/ Watch(r) \/ Second(r)
    \/ \E s \in Stops : StopArrives(s) \/ StopLook(s) \/ StopKill(s)
    \/ \E c \in running : OpenLog(c) \/ Stream(c) \/ CameraExits(c)

(***************************************************************************)
(* The scripts run and time passes; nobody has to send a request, and a    *)
(* camera need not stream.                                                 *)
(***************************************************************************)
Fairness ==
    /\ \A r \in Gets : WF_vars(Watch(r)) /\ WF_vars(Second(r))
    /\ \A s \in Stops : WF_vars(StopLook(s) \/ StopKill(s))

Spec == Init /\ [][Next]_vars /\ Fairness

----------------------------------------------------------------------------

\* Every variable has the type of what it stands for.
TypeOK ==
    /\ cam \in [Requests -> Cameras] /\ limit \in [Gets -> Limits]
    /\ http \in [Requests -> {"none", "polling", "YES", "NO", "OK"}]
    /\ counts \in [Gets -> Nat] /\ age \in [Gets -> Nat]
    /\ running \subseteq Process /\ opened \subseteq running /\ streaming \subseteq opened
    /\ watcher \in [Gets -> [pc : {"none", "check", "look", "fork", "sleep", "reap", "gone"},
                             ttl : Nat, victims : Victims]]
    /\ stopper \in [Stops -> [pc : {"none", "look", "kill", "gone"}, victims : Victims]]
    /\ DOMAIN log = {LogOf(k) : k \in Cameras} /\ \A f \in DOMAIN log : log[f] \in BOOLEAN
    /\ backed \in [Gets -> BOOLEAN] /\ raced \subseteq Gets /\ doubled \subseteq Cameras

(***************************************************************************)
(* A start.py never has two cameras running that it forked, although one   *)
(* may have ended between its ps and its fork.                             *)
(***************************************************************************)
OneCameraEach == \A c, d \in running : c.owner = d.owner => c = d

(***************************************************************************)
(* A camera outlives its start.py only after a stop request for it, whose  *)
(* ps came between the ps and the fork of start.py: livelimit ends every   *)
(* other one.                                                              *)
(***************************************************************************)
OrphanNeedsStop ==
    \A c \in running :
        watcher[c.owner].pc = "gone"
            => \E s \in Stops : http[s] = "OK" /\ CamOf(c) \in Matches(cam[s])

\* A stop request has come that finds processes of k, or that those of k find.
StopCame(k) ==
    \E s \in Stops : http[s] = "OK" /\ (k \in Matches(cam[s]) \/ cam[s] \in Matches(k))

\* Another camera has been asked for whose processes pass for those of k, or
\* whose log is that of k.
Confused(k) ==
    \E g \in Gets : /\ http[g] # "none" /\ cam[g] # k
                    /\ cam[g] \in Matches(k) \/ LogOf(cam[g]) = LogOf(k)

(***************************************************************************)
(* YES is not what an earlier process has left in the log: a process of    *)
(* the camera that has printed a `time' has run since the request came (it *)
(* may stall by now, which the handler cannot tell), unless                *)
(*   - the handler looked ahead of the shell that empties the log, or this *)
(*     shell was killed before it did;                                     *)
(*   - a stop request made start.py give up;                               *)
(*   - another camera passes for this one;                                 *)
(*   - two processes of it have run at once: the second one empties the    *)
(*     log, the first one writes to it and ends.                           *)
(***************************************************************************)
YesIsCurrent ==
    \A r \in Gets :
        http[r] = "YES" => \/ backed[r] \/ r \in raced
                           \/ StopCame(cam[r]) \/ Confused(cam[r]) \/ cam[r] \in doubled

\* A camera that a start.py takes down at its end has been asked for no longer by
\* one request at least.
Reaps(r) == watcher[r].pc = "reap" /\ watcher'[r].pc = "gone"
PulledForALimit ==
    [][\A r \in Gets : Reaps(r) =>
          \A c \in running \ running' :
              \E g \in Gets : /\ http[g] # "none" /\ CamOf(c) \in Matches(cam[g])
                              /\ age[g] = limit[g]]_vars

\* A start.py leads to a process of its camera, or finds one, whatever the other
\* requests for it do, unless a stop request comes.
EveryGetServed ==
    \A r \in Gets :
        watcher[r].pc = "check" ~> (\E c \in running : CamOf(c) = cam[r]) \/ StopCame(cam[r])

\* livelimit ends every stream: a camera that runs is gone some time, but for one
\* that a stop request has left without its start.py.
EveryStreamEnds ==
    \A k \in Cameras : []<>((\A c \in running : CamOf(c) # k) \/ StopCame(k))

(***************************************************************************)
(* The inductive invariant behind OneCameraEach and OrphanNeedsStop: a     *)
(* start.py about to fork has no camera, and the ps before its last kill   *)
(* has shown all of its own.                                               *)
(***************************************************************************)
Own(r) == {c \in running : c.owner = r}

GetOK(r) ==
    /\ http[r] = "none" => watcher[r].pc = "none"
    /\ http[r] \in {"none", "polling"} => counts[r] > 0
    /\ watcher[r].pc \in {"none", "check", "fork"} => Own(r) = {}
    /\ watcher[r].pc = "fork" => watcher[r].ttl > 0
    /\ watcher[r].pc = "reap" => Own(r) \subseteq watcher[r].victims.cameras

StopperOK(s) ==
    /\ stopper[s].pc # "none" => http[s] = "OK"
    /\ \A r \in stopper[s].victims.starts :
          http[r] # "none" /\ cam[r] \in Matches(cam[s])

ServiceInv ==
    /\ TypeOK
    /\ \A r \in Gets : GetOK(r)
    /\ \A s \in Stops : StopperOK(s)
    /\ OneCameraEach /\ OrphanNeedsStop
=============================================================================
