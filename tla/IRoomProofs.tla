----------------------------- MODULE IRoomProofs ---------------------------
(***************************************************************************)
(* Proofs about IRoom, for any number of requests, cameras and limits and  *)
(* any names: a start.py has at most one camera, livelimit ends every      *)
(* camera that no stop request was for and no other, and YES is not what   *)
(* an earlier process has left in the log.                                 *)
(***************************************************************************)
EXTENDS IRoom, TLAPS

(***************************************************************************)
(* How a log, the cameras and the requests for them go together, as long   *)
(* as nothing of Excused has come: an open log with a `time' is that of a  *)
(* camera that has streamed, and a get that has found a camera, or forked  *)
(* one, has had it behind it or waits for its log to be opened.            *)
(***************************************************************************)
Excused(k) == StopCame(k) \/ Confused(k) \/ k \in doubled

Told(r) == backed[r] \/ r \in raced \/ Excused(cam[r])

\* The start.py of r has found a camera, or forked one, or a second has passed.
Settled(r) == watcher[r].pc \in {"sleep", "reap", "gone"} \/ age[r] > 0

\* The shell that empties the log is still to open it, before the first look.
Ahead(r) == age[r] = 0 /\ Opening(cam[r])

Arrived(r) == /\ http[r] = "none" => age[r] = 0 /\ ~backed[r]
              /\ watcher[r].pc = "none" => http[r] = "none"

OneOfEach == \A c, d \in running : CamOf(c) = CamOf(d) /\ c # d => CamOf(c) \in doubled

StreamBacks ==
    \A c \in streaming, r \in Gets : http[r] # "none" /\ cam[r] = CamOf(c) => backed[r]

LogIsOfStream ==
    \A c \in opened : log[LogOf(CamOf(c))] => c \in streaming \/ Excused(CamOf(c))

NowOf(r) == Settled(r) /\ log[LogOf(cam[r])] => Told(r) \/ Ahead(r)

CurrentInv ==
    /\ \A r \in Gets : Arrived(r)
    /\ OneOfEach /\ StreamBacks /\ LogIsOfStream
    /\ \A r \in Gets : NowOf(r)
    /\ YesIsCurrent

(***************************************************************************)
(* How the ttl of a start.py and the age of its request go together: the   *)
(* limit is over when the last kill comes, and all it kills are cameras    *)
(* that pass for its own.                                                  *)
(***************************************************************************)
AgeOK(r) ==
    /\ age[r] <= limit[r]
    /\ watcher[r].pc \in {"none", "check"} => watcher[r].ttl = limit[r]
    /\ watcher[r].pc \in {"look", "fork"} => age[r] + watcher[r].ttl >= limit[r]
    /\ watcher[r].pc = "sleep" => age[r] + watcher[r].ttl + 1 >= limit[r]
    /\ watcher[r].pc = "reap" =>
          /\ age[r] = limit[r] /\ http[r] # "none"
          /\ \A c \in watcher[r].victims.cameras : cam[c.owner] \in Matches(cam[r])

AgeInv == \A r \in Gets : AgeOK(r)

\* What the leaves below need to know of the types.
LEMMA Types ==
    ASSUME TypeOK
    PROVE  /\ running \subseteq Process
           /\ opened \subseteq running /\ streaming \subseteq opened
           /\ \A r \in Gets : /\ r \in Requests /\ watcher[r].ttl \in Nat
                              /\ watcher[r].victims \in Victims
                              /\ watcher[r] = [pc |-> watcher[r].pc, ttl |-> watcher[r].ttl,
                                               victims |-> watcher[r].victims]
           /\ \A c \in running : c.owner \in Gets /\ CamOf(c) \in Cameras
           /\ \A r \in Requests : cam[r] \in Cameras
BY DEF TypeOK, Process, Requests, CamOf

LEMMA NothingType == Nothing \in Victims
BY DEF Nothing, Victims

\* What ps shows are processes of the service.
LEMMA FoundType ==
    ASSUME TypeOK, NEW k \in Cameras
    PROVE  Found(k) \in Victims /\ FoundAll(k) \in Victims
BY Types DEF Found, FoundAll, CamerasFound, StopsFound, StartsFound, Victims

\* A start.py finds its own cameras.
LEMMA FindsOwn ==
    ASSUME TypeOK, NEW r \in Gets
    PROVE  Own(r) \subseteq Found(cam[r]).cameras
BY Types, IRoomAssumption DEF Own, Found, CamerasFound, CamOf

LEMMA InvInit == Init => ServiceInv
<1> SUFFICES ASSUME Init PROVE ServiceInv
    OBVIOUS
<1>1. TypeOK
    BY IRoomAssumption DEF Init, TypeOK, Requests, Victims, Nothing
<1>2. \A r \in Gets : GetOK(r)
    BY IRoomAssumption DEF Init, GetOK, Own
<1>3. \A s \in Stops : StopperOK(s)
    BY DEF Init, StopperOK, Nothing
<1> QED BY <1>1, <1>2, <1>3 DEF Init, ServiceInv, OneCameraEach, OrphanNeedsStop

----------------------------------------------------------------------------
(* The steps of the handlers, of the cameras and of time *)

\* A step that changes no process keeps the invariant if it keeps the types and
\* takes no request back.
LEMMA QuietStep ==
    ASSUME ServiceInv, TypeOK', UNCHANGED <<cam, watcher, stopper, running>>,
           \A q \in Requests : /\ http[q] = "OK" => http'[q] = "OK"
                               /\ http[q] # "none" => http'[q] # "none",
           \A q \in Gets : http'[q] \in {"none", "polling"} => counts'[q] > 0
    PROVE  ServiceInv'
<1>1. \A r \in Gets : GetOK(r)'
    BY DEF ServiceInv, GetOK, Own, Requests
<1>2. \A s \in Stops : StopperOK(s)'
    BY DEF ServiceInv, StopperOK, Requests, TypeOK, Victims
<1>3. OneCameraEach' /\ OrphanNeedsStop'
    BY DEF ServiceInv, OneCameraEach, OrphanNeedsStop, CamOf, Requests
<1> QED BY <1>1, <1>2, <1>3 DEF ServiceInv

LEMMA PollInv ==
    ASSUME ServiceInv, NEW r \in Gets, Poll(r)
    PROVE  ServiceInv'
<1>1. counts[r] \in Nat /\ counts[r] > 0
    BY DEF Poll, ServiceInv, TypeOK, GetOK
<1>2. /\ counts' \in [Gets -> Nat]
      /\ \A q \in Gets \ {r} : counts'[q] = counts[q]
      /\ http'[r] = "polling" => counts'[r] > 0
    BY <1>1 DEF Poll, ServiceInv, TypeOK, Requests
<1>3. /\ http' \in [Requests -> {"none", "polling", "YES", "NO", "OK"}]
      /\ \A q \in Requests \ {r} : http'[q] = http[q]
      /\ http'[r] \in {"polling", "YES", "NO"}
    BY DEF Poll, ServiceInv, TypeOK, Requests
<1>4. TypeOK'
    BY <1>2, <1>3 DEF Poll, ServiceInv, TypeOK, processes, cameras, history
<1>5. \A q \in Requests : /\ http[q] = "OK" => http'[q] = "OK"
                          /\ http[q] # "none" => http'[q] # "none"
    BY <1>3 DEF Poll
<1>6. \A q \in Gets : http'[q] \in {"none", "polling"} => counts'[q] > 0
    BY <1>2, <1>3 DEF ServiceInv, GetOK, Requests
<1> QED BY <1>4, <1>5, <1>6, QuietStep DEF Poll, processes, cameras

LEMMA GetArrivesInv ==
    ASSUME ServiceInv, NEW r \in Gets, GetArrives(r)
    PROVE  ServiceInv'
<1>1. TypeOK'
  <2>1. /\ http' \in [Requests -> {"none", "polling", "YES", "NO", "OK"}]
        /\ backed' \in [Gets -> BOOLEAN]
    BY DEF GetArrives, ServiceInv, TypeOK, Requests, Streams, cameras
  <2>2. watcher' \in [Gets -> [pc : {"none", "check", "look", "fork", "sleep", "reap", "gone"},
                               ttl : Nat, victims : Victims]]
    BY DEF GetArrives, ServiceInv, TypeOK
  <2> QED BY <2>1, <2>2 DEF GetArrives, ServiceInv, TypeOK, cameras, history
<1>2. \A q \in Requests : http'[q] = IF q = r THEN "polling" ELSE http[q]
    BY DEF GetArrives, ServiceInv, TypeOK
<1>3. http[r] = "none" /\ watcher[r].pc = "none"
    BY DEF GetArrives, ServiceInv, GetOK
<1>4. \A q \in Gets : GetOK(q)'
    BY <1>2, <1>3 DEF GetArrives, ServiceInv, TypeOK, GetOK, Own, Requests, cameras, history
<1>5. \A s \in Stops : StopperOK(s)'
    BY <1>2, <1>3 DEF GetArrives, ServiceInv, StopperOK, TypeOK, Victims, Requests
<1>6. OneCameraEach'
    BY DEF GetArrives, ServiceInv, OneCameraEach, cameras, history
<1>7. OrphanNeedsStop'
    BY <1>2, <1>3
    DEF GetArrives, ServiceInv, TypeOK, OrphanNeedsStop, CamOf, Process, Requests, cameras
<1> QED BY <1>1, <1>4, <1>5, <1>6, <1>7 DEF ServiceInv

LEMMA StopArrivesInv ==
    ASSUME ServiceInv, NEW s \in Stops, StopArrives(s)
    PROVE  ServiceInv'
<1>1. TypeOK'
    BY DEF StopArrives, ServiceInv, TypeOK, Requests, cameras, history
<1>2. \A q \in Requests : http'[q] = IF q = s THEN "OK" ELSE http[q]
    BY DEF StopArrives, ServiceInv, TypeOK
<1>3. http[s] = "none" /\ s \notin Gets
    BY IRoomAssumption DEF StopArrives
<1>4. \A r \in Gets : GetOK(r)'
    BY <1>2, <1>3 DEF StopArrives, ServiceInv, GetOK, Own, Requests, cameras, history
<1>5. \A t \in Stops : StopperOK(t)'
    BY <1>2, <1>3 DEF StopArrives, ServiceInv, StopperOK, TypeOK, Victims, Requests
<1>6. OneCameraEach'
    BY DEF StopArrives, ServiceInv, OneCameraEach, cameras, history
<1>7. OrphanNeedsStop'
    BY <1>2 DEF StopArrives, ServiceInv, OrphanNeedsStop, CamOf, Requests, cameras, history
<1> QED BY <1>1, <1>4, <1>5, <1>6, <1>7 DEF ServiceInv

LEMMA StreamInv ==
    ASSUME ServiceInv, NEW c \in running, Stream(c)
    PROVE  ServiceInv'
<1>1. TypeOK'
    BY Types DEF Stream, ServiceInv, TypeOK, requests
<1>2. \A q \in Gets : http[q] \in {"none", "polling"} => counts[q] > 0
    BY DEF ServiceInv, GetOK
<1> QED BY <1>1, <1>2, QuietStep DEF Stream, requests

\* Fewer cameras, and nothing else, cannot disturb the invariant.
LEMMA CameraExitsInv ==
    ASSUME ServiceInv, NEW c \in running, CameraExits(c)
    PROVE  ServiceInv'
<1>1. TypeOK'
    BY DEF CameraExits, ServiceInv, TypeOK, requests, history
<1>2. running' \subseteq running
    BY DEF CameraExits
<1>3. \A r \in Gets : GetOK(r)'
    BY <1>2 DEF CameraExits, ServiceInv, GetOK, Own, requests
<1>4. \A s \in Stops : StopperOK(s)'
    BY DEF CameraExits, ServiceInv, StopperOK, requests
<1>5. OneCameraEach' /\ OrphanNeedsStop'
    BY <1>2 DEF CameraExits, ServiceInv, OneCameraEach, OrphanNeedsStop, CamOf, requests
<1> QED BY <1>1, <1>3, <1>4, <1>5 DEF ServiceInv

LEMMA OpenLogInv ==
    ASSUME ServiceInv, NEW c \in running, OpenLog(c)
    PROVE  ServiceInv'
<1>1. TypeOK'
    BY Types DEF OpenLog, LogTruncated, ServiceInv, TypeOK, requests, history
<1>2. \A q \in Gets : http[q] \in {"none", "polling"} => counts[q] > 0
    BY DEF ServiceInv, GetOK
<1> QED BY <1>1, <1>2, QuietStep DEF OpenLog, requests

\* A second wakes a start.py, and does nothing to a camera.
LEMMA SecondInv ==
    ASSUME ServiceInv, NEW r \in Gets, Second(r)
    PROVE  ServiceInv'
<1>1. TypeOK'
  <2>1. age' \in [Gets -> Nat] /\ raced' \subseteq Gets
    BY DEF Second, ServiceInv, TypeOK
  <2>2. watcher' \in [Gets -> [pc : {"none", "check", "look", "fork", "sleep", "reap", "gone"},
                              ttl : Nat, victims : Victims]]
    BY DEF Second, ServiceInv, TypeOK
  <2> QED BY <2>1, <2>2 DEF Second, ServiceInv, TypeOK, cameras
<1>2. \A q \in Gets : GetOK(q)'
    BY DEF Second, ServiceInv, TypeOK, GetOK, Own, cameras
<1>3. \A s \in Stops : StopperOK(s)'
    BY DEF Second, ServiceInv, StopperOK
<1>4. OneCameraEach' /\ OrphanNeedsStop'
    BY DEF Second, ServiceInv, TypeOK, OneCameraEach, OrphanNeedsStop, CamOf, Process, cameras
<1> QED BY <1>1, <1>2, <1>3, <1>4 DEF ServiceInv

----------------------------------------------------------------------------
(* The steps of start.py *)

\* It is gone before it has forked anything.
LEMMA CheckInv ==
    ASSUME ServiceInv, NEW r \in Gets, Check(r)
    PROVE  ServiceInv'
<1>1. TypeOK'
  <2>1. watcher' \in [Gets -> [pc : {"none", "check", "look", "fork", "sleep", "reap", "gone"},
                               ttl : Nat, victims : Victims]]
    <3>1. ASSUME NEW pc \in {"look", "gone"}
          PROVE  [watcher EXCEPT ![r].pc = pc]
                    \in [Gets -> [pc : {"none", "check", "look", "fork", "sleep", "reap", "gone"},
                                 ttl : Nat, victims : Victims]]
      BY DEF ServiceInv, TypeOK
    <3>2. \E pc \in {"look", "gone"} : watcher' = [watcher EXCEPT ![r].pc = pc]
      BY DEF Check
    <3> QED BY <3>1, <3>2
  <2> QED BY <2>1 DEF Check, ServiceInv, TypeOK, requests, cameras, history
<1>2. Own(r) = {}
    BY DEF Check, ServiceInv, GetOK
<1>3. \A q \in Gets : GetOK(q)'
    BY DEF Check, ServiceInv, TypeOK, GetOK, Own, requests, cameras, history
<1>4. \A s \in Stops : StopperOK(s)'
    BY DEF Check, ServiceInv, StopperOK, requests
<1>5. OneCameraEach'
    BY DEF Check, ServiceInv, OneCameraEach, cameras, history
<1>6. OrphanNeedsStop'
    BY <1>2
    DEF Check, ServiceInv, TypeOK, OrphanNeedsStop, Own, CamOf, Process, requests, cameras
<1> QED BY <1>1, <1>3, <1>4, <1>5, <1>6 DEF ServiceInv

\* It forks only when ps shows no camera of its own.
LEMMA LookInv ==
    ASSUME ServiceInv, NEW r \in Gets, Look(r)
    PROVE  ServiceInv'
<1> DEFINE forks == Found(cam[r]) = Nothing
           Watchers == [Gets -> [pc : {"none", "check", "look", "fork", "sleep", "reap", "gone"},
                                 ttl : Nat, victims : Victims]]
<1>1. watcher \in Watchers /\ watcher[r].ttl > 0 /\ watcher[r].ttl - 1 \in Nat
    BY DEF Look, RoundsLeft, ServiceInv, TypeOK
<1>2. /\ watcher' \in Watchers
      /\ \A q \in Gets \ {r} : watcher'[q] = watcher[q]
      /\ watcher'[r].pc = IF forks THEN "fork" ELSE "sleep"
      /\ forks => watcher'[r].ttl > 0
  <2>1. CASE forks
    <3>1. watcher' = [watcher EXCEPT ![r].pc = "fork"]
      BY <2>1 DEF Look
    <3> QED BY <1>1, <2>1, <3>1
  <2>2. CASE ~forks
    <3>1. watcher' = [watcher EXCEPT ![r] = [watcher[r] EXCEPT !.pc = "sleep", !.ttl = @ - 1]]
      BY <2>2 DEF Look
    <3> DEFINE w == [watcher[r] EXCEPT !.pc = "sleep", !.ttl = @ - 1]
    <3>2. w \in [pc : {"none", "check", "look", "fork", "sleep", "reap", "gone"},
                 ttl : Nat, victims : Victims] /\ w.pc = "sleep"
      BY <1>1
    <3>3. watcher' = [watcher EXCEPT ![r] = w]
      BY <3>1
    <3> HIDE DEF forks, w
    <3> QED BY <1>1, <2>2, <3>2, <3>3
  <2> QED BY <2>1, <2>2
<1>3. UNCHANGED <<requests, stopper, running, opened, streaming, log, backed, raced, doubled>>
    BY DEF Look, cameras, history
<1>4. TypeOK'
    BY <1>2, <1>3 DEF ServiceInv, TypeOK, requests
<1>5. forks => Own(r) = {}
    BY FindsOwn DEF ServiceInv, Nothing
<1> HIDE DEF forks, Watchers
<1>6. \A q \in Gets : GetOK(q)'
    BY <1>2, <1>3, <1>5 DEF Look, ServiceInv, GetOK, Own, requests
<1>7. \A s \in Stops : StopperOK(s)'
    BY <1>3 DEF ServiceInv, StopperOK, requests
<1>8. OneCameraEach'
    BY <1>3 DEF ServiceInv, OneCameraEach
<1>9. OrphanNeedsStop'
    BY <1>2, <1>3, Types DEF ServiceInv, OrphanNeedsStop, CamOf, requests
<1> QED BY <1>4, <1>6, <1>7, <1>8, <1>9 DEF ServiceInv

\* The camera it forks is the only one of its own.
LEMMA ForkInv ==
    ASSUME ServiceInv, NEW r \in Gets, Fork(r)
    PROVE  ServiceInv'
<1> DEFINE new == [owner |-> r, ttl |-> watcher[r].ttl]
<1>1. watcher[r].ttl \in Nat /\ watcher[r].ttl > 0 /\ Own(r) = {}
    BY Types DEF Fork, ServiceInv, GetOK
<1>2. new \in Process /\ running' = running \cup {new}
    BY <1>1 DEF Fork, Process
<1>3. TypeOK'
    BY <1>1, <1>2 DEF Fork, ServiceInv, TypeOK, requests
<1>4. \A q \in Gets : GetOK(q)'
    BY <1>1, <1>2 DEF Fork, ServiceInv, TypeOK, GetOK, Own, requests
<1>5. \A s \in Stops : StopperOK(s)'
    BY DEF Fork, ServiceInv, StopperOK, requests
<1>6. OneCameraEach'
    BY <1>1, <1>2 DEF ServiceInv, OneCameraEach, Own
<1>7. OrphanNeedsStop'
    BY <1>2 DEF Fork, ServiceInv, TypeOK, OrphanNeedsStop, CamOf, Process, requests
<1> QED BY <1>3, <1>4, <1>5, <1>6, <1>7 DEF ServiceInv

\* The last ps shows all of its own cameras.
LEMMA ReapLookInv ==
    ASSUME ServiceInv, NEW r \in Gets, ReapLook(r)
    PROVE  ServiceInv'
<1>1. Reaped(r) \in Victims /\ Own(r) \subseteq Reaped(r).cameras
    BY FoundType, FindsOwn, Types DEF Reaped, ServiceInv, Requests
<1>2. TypeOK'
  <2>1. watcher' \in [Gets -> [pc : {"none", "check", "look", "fork", "sleep", "reap", "gone"},
                               ttl : Nat, victims : Victims]]
    <3> DEFINE w == [pc |-> "reap", ttl |-> watcher[r].ttl, victims |-> Reaped(r)]
    <3>1. w \in [pc : {"none", "check", "look", "fork", "sleep", "reap", "gone"},
                 ttl : Nat, victims : Victims]
      BY <1>1, Types DEF ServiceInv
    <3>2. watcher' = [watcher EXCEPT ![r] = w]
      BY DEF ReapLook
    <3> HIDE DEF w
    <3> QED BY <3>1, <3>2 DEF ServiceInv, TypeOK
  <2> QED BY <2>1 DEF ReapLook, ServiceInv, TypeOK, requests, cameras, history
<1>3. \A q \in Gets : GetOK(q)'
    BY <1>1 DEF ReapLook, ServiceInv, TypeOK, GetOK, Own, requests, cameras, history
<1>4. \A s \in Stops : StopperOK(s)'
    BY DEF ReapLook, ServiceInv, StopperOK, requests
<1>5. OneCameraEach'
    BY DEF ReapLook, ServiceInv, OneCameraEach, cameras, history
<1>6. OrphanNeedsStop'
    BY DEF ReapLook, ServiceInv, TypeOK, OrphanNeedsStop, CamOf, Process, requests, cameras, history
<1> QED BY <1>2, <1>3, <1>4, <1>5, <1>6 DEF ServiceInv

\* The kill leaves none of them behind.
LEMMA ReapKillInv ==
    ASSUME ServiceInv, NEW r \in Gets, ReapKill(r)
    PROVE  ServiceInv'
<1> DEFINE victims == watcher[r].victims
<1>1. victims \in Victims
    BY Types DEF ServiceInv
<1>2. /\ running' = running \ victims.cameras /\ opened' = opened \ victims.cameras
      /\ streaming' = streaming \ victims.cameras
      /\ raced' \subseteq raced \cup Gets /\ UNCHANGED <<log, backed, doubled>>
    BY DEF ReapKill, KillCameras
<1>3. stopper' = StoppersWithout(victims)
    BY DEF ReapKill
<1>4. stopper' \in [Stops -> [pc : {"none", "look", "kill", "gone"}, victims : Victims]]
    BY <1>3 DEF StoppersWithout, ServiceInv, TypeOK
<1>5. TypeOK'
  <2>1. watcher' \in [Gets -> [pc : {"none", "check", "look", "fork", "sleep", "reap", "gone"},
                               ttl : Nat, victims : Victims]]
    <3> DEFINE w == [pc |-> "gone", ttl |-> watcher[r].ttl, victims |-> Nothing]
    <3>1. w \in [pc : {"none", "check", "look", "fork", "sleep", "reap", "gone"},
                 ttl : Nat, victims : Victims]
      BY NothingType, Types DEF ServiceInv
    <3>2. watcher' = [watcher EXCEPT ![r] = w]
      BY DEF ReapKill
    <3> HIDE DEF w
    <3> QED BY <3>1, <3>2 DEF ServiceInv, TypeOK
  <2> QED BY <1>2, <1>4, <2>1 DEF ReapKill, ServiceInv, TypeOK, requests
<1>6. \A q \in Gets : GetOK(q)'
    BY <1>2 DEF ReapKill, ServiceInv, TypeOK, GetOK, Own, requests
<1>7. \A s \in Stops : StopperOK(s)'
    BY <1>3 DEF ReapKill, StoppersWithout, ServiceInv, TypeOK, StopperOK, requests
<1>8. OneCameraEach'
    BY <1>2 DEF ServiceInv, OneCameraEach
<1>9. Own(r)' = {}
    BY <1>2 DEF ReapKill, ServiceInv, GetOK, Own
<1>10. OrphanNeedsStop'
    BY <1>2, <1>9 DEF ReapKill, ServiceInv, TypeOK, OrphanNeedsStop, Own, CamOf, Process, requests
<1> QED BY <1>5, <1>6, <1>7, <1>8, <1>10 DEF ServiceInv

----------------------------------------------------------------------------
(* The steps of stop.py *)

LEMMA StopLookInv ==
    ASSUME ServiceInv, NEW s \in Stops, StopLook(s)
    PROVE  ServiceInv'
<1>1. FoundAll(cam[s]) \in Victims
    BY FoundType, Types DEF ServiceInv, Requests
<1>2. TypeOK'
    BY <1>1 DEF StopLook, ServiceInv, TypeOK, requests, cameras, history
<1>3. \A r \in Gets : GetOK(r)'
    BY DEF StopLook, ServiceInv, GetOK, Own, requests, cameras, history
<1>4. \A r \in FoundAll(cam[s]).starts : http[r] # "none" /\ cam[r] \in Matches(cam[s])
    BY DEF FoundAll, StartsFound, ServiceInv, GetOK
<1>5. \A t \in Stops : StopperOK(t)'
    BY <1>4 DEF StopLook, ServiceInv, TypeOK, StopperOK, requests
<1>6. OneCameraEach' /\ OrphanNeedsStop'
    BY DEF StopLook, ServiceInv, OneCameraEach, OrphanNeedsStop, CamOf, requests, cameras, history
<1> QED BY <1>2, <1>3, <1>5, <1>6 DEF ServiceInv

\* The start.py it kills may leave a camera behind; the stop request was for it.
LEMMA StopKillInv ==
    ASSUME ServiceInv, NEW s \in Stops, StopKill(s)
    PROVE  ServiceInv'
<1> DEFINE victims == stopper[s].victims
<1>1. victims \in Victims /\ http[s] = "OK"
    BY DEF StopKill, ServiceInv, TypeOK, StopperOK
<1>2. \A r \in victims.starts : http[r] # "none" /\ cam[r] \in Matches(cam[s])
    BY DEF ServiceInv, StopperOK
<1>3. /\ running' = running \ victims.cameras /\ opened' = opened \ victims.cameras
      /\ streaming' = streaming \ victims.cameras
      /\ raced' \subseteq raced \cup Gets /\ UNCHANGED <<log, backed, doubled>>
    BY DEF StopKill, KillCameras
<1>4. \A q \in Gets : watcher'[q] = IF q \in victims.starts /\ watcher[q].pc # "reap"
                                   THEN [watcher[q] EXCEPT !.pc = "gone"] ELSE watcher[q]
    BY DEF StopKill, WatchersWithout
<1>5. TypeOK'
  <2>1. watcher' \in [Gets -> [pc : {"none", "check", "look", "fork", "sleep", "reap", "gone"},
                               ttl : Nat, victims : Victims]]
    <3>1. ASSUME NEW q \in Gets
          PROVE  /\ watcher[q] \in [pc : {"none", "check", "look", "fork", "sleep", "reap", "gone"},
                                    ttl : Nat, victims : Victims]
                 /\ [watcher[q] EXCEPT !.pc = "gone"]
                        \in [pc : {"none", "check", "look", "fork", "sleep", "reap", "gone"},
                            ttl : Nat, victims : Victims]
      BY DEF ServiceInv, TypeOK
    <3>2. watcher' = WatchersWithout(victims)
      BY DEF StopKill
    <3> QED BY <3>1, <3>2 DEF WatchersWithout
  <2>2. stopper' \in [Stops -> [pc : {"none", "look", "kill", "gone"}, victims : Victims]]
    <3>1. StoppersWithout(victims)
              \in [Stops -> [pc : {"none", "look", "kill", "gone"}, victims : Victims]]
      BY DEF StoppersWithout, ServiceInv, TypeOK
    <3> QED BY <3>1, NothingType DEF StopKill
  <2> QED BY <1>3, <2>1, <2>2 DEF StopKill, ServiceInv, TypeOK, requests
<1>6. \A q \in Gets : GetOK(q)'
  <2> SUFFICES ASSUME NEW q \in Gets PROVE GetOK(q)'
    OBVIOUS
  <2>1. GetOK(q) /\ http' = http /\ counts' = counts
    BY DEF ServiceInv, StopKill, requests
  <2>2. Own(q)' \subseteq Own(q)
    BY <1>3 DEF Own
  <2>3. CASE q \in victims.starts /\ watcher[q].pc # "reap"
    <3>1. watcher'[q].pc = "gone"
      BY <1>4, <2>3, Types DEF ServiceInv
    <3> QED BY <1>2, <2>1, <2>3, <3>1 DEF GetOK
  <2>4. CASE ~(q \in victims.starts /\ watcher[q].pc # "reap")
    <3>1. watcher'[q] = watcher[q]
      BY <1>4, <2>4
    <3> QED BY <2>1, <2>2, <3>1 DEF GetOK
  <2> QED BY <2>3, <2>4
<1>7. \A t \in Stops : StopperOK(t)'
  <2> SUFFICES ASSUME NEW t \in Stops PROVE StopperOK(t)'
    OBVIOUS
  <2>1. StopperOK(t) /\ http' = http /\ cam' = cam
    BY DEF StopKill, ServiceInv, requests
  <2>2. http[s] = "OK"
    BY <1>1
  <2>3. CASE t = s
    <3>1. stopper'[t].victims.starts = {}
      BY <2>3 DEF StopKill, StoppersWithout, Nothing, ServiceInv, TypeOK
    <3> QED BY <2>1, <2>2, <2>3, <3>1 DEF StopperOK
  <2>4. CASE t # s
    <3>1. stopper'[t].victims = stopper[t].victims /\ (stopper'[t].pc # "none" => stopper[t].pc # "none")
      BY <2>4 DEF StopKill, StoppersWithout, ServiceInv, TypeOK
    <3> QED BY <2>1, <3>1 DEF StopperOK
  <2> QED BY <2>3, <2>4
<1>8. OneCameraEach'
    BY <1>3 DEF ServiceInv, OneCameraEach
<1>9. OrphanNeedsStop'
    BY <1>1, <1>2, <1>3, <1>4, Types
    DEF StopKill, ServiceInv, OrphanNeedsStop, CamOf, requests
<1> QED BY <1>5, <1>6, <1>7, <1>8, <1>9 DEF ServiceInv

----------------------------------------------------------------------------

LEMMA InvStep == ServiceInv /\ [Next]_vars => ServiceInv'
<1> SUFFICES ASSUME ServiceInv, [Next]_vars PROVE ServiceInv'
    OBVIOUS
<1>1. CASE UNCHANGED vars
  <2>1. TypeOK'
    BY <1>1 DEF ServiceInv, TypeOK, vars, requests, processes, cameras, history
  <2>2. \A q \in Gets : http[q] \in {"none", "polling"} => counts[q] > 0
    BY DEF ServiceInv, GetOK
  <2> QED BY <1>1, <2>1, <2>2, QuietStep DEF vars, requests, processes, cameras, history
<1>2. CASE \E r \in Gets : GetArrives(r) \/ Poll(r) \/ Watch(r) \/ Second(r)
    BY <1>2, GetArrivesInv, PollInv, CheckInv, LookInv, ForkInv, ReapLookInv, ReapKillInv,
       SecondInv
    DEF Watch
<1>3. CASE \E s \in Stops : StopArrives(s) \/ StopLook(s) \/ StopKill(s)
    BY <1>3, StopArrivesInv, StopLookInv, StopKillInv
<1>4. CASE \E c \in running : OpenLog(c) \/ Stream(c) \/ CameraExits(c)
    BY <1>4, OpenLogInv, StreamInv, CameraExitsInv
<1> QED BY <1>1, <1>2, <1>3, <1>4 DEF Next

\* The invariant of the service.
THEOREM ServiceInvariant == Spec => []ServiceInv
<1> QED BY InvInit, InvStep, PTL DEF Spec

\* Whatever the requests, a start.py never has two cameras of its own (start.py:28-31).
THEOREM AtMostOneCameraEach == Spec => []OneCameraEach
<1>1. ServiceInv => OneCameraEach
    BY DEF ServiceInv
<1> QED BY <1>1, ServiceInvariant, PTL

\* Whatever the requests, a camera without its start.py was meant by a stop
\* request (start.py:34, stop.py:12).
THEOREM LimitEndsTheRest == Spec => []OrphanNeedsStop
<1>1. ServiceInv => OrphanNeedsStop
    BY DEF ServiceInv
<1> QED BY <1>1, ServiceInvariant, PTL

(***************************************************************************)
(* Time                                                                    *)
(***************************************************************************)

\* Numbers of a start.py.
LEMMA AgeTypes ==
    ASSUME ServiceInv, NEW r \in Gets
    PROVE  /\ age[r] \in Nat /\ limit[r] \in Nat \ {0} /\ watcher[r].ttl \in Nat
           /\ age \in [Gets -> Nat] /\ r \in Requests /\ DOMAIN watcher = Gets
BY Types, IRoomAssumption DEF ServiceInv, TypeOK, Requests

LEMMA AgeInit == Init => AgeInv
<1> SUFFICES ASSUME Init, NEW r \in Gets PROVE AgeOK(r)
    BY DEF AgeInv
<1>1. age[r] = 0 /\ limit[r] \in Nat
    BY IRoomAssumption DEF Init
<1>2. watcher[r].pc = "none" /\ watcher[r].ttl = limit[r]
    BY DEF Init
<1> QED BY <1>1, <1>2 DEF AgeOK

\* A step that changes neither the start.py of r nor its age.
LEMMA AgeKept ==
    ASSUME ServiceInv, NEW r \in Gets, AgeOK(r), UNCHANGED <<cam, limit>>,
           age'[r] = age[r], watcher'[r] = watcher[r],
           http[r] # "none" => http'[r] # "none"
    PROVE  AgeOK(r)'
BY DEF AgeOK

\* One that ends it.
LEMMA AgeGone ==
    ASSUME ServiceInv, NEW r \in Gets, AgeOK(r), UNCHANGED <<limit>>,
           age'[r] = age[r], watcher'[r].pc = "gone"
    PROVE  AgeOK(r)'
BY DEF AgeOK

\* A start.py does what it does without a word of the others.
LEMMA WatchIsAlone ==
    ASSUME ServiceInv, NEW r \in Gets, Watch(r)
    PROVE  UNCHANGED requests /\ \A q \in Gets \ {r} : watcher'[q] = watcher[q]
<1>1. DOMAIN watcher = Gets
    BY DEF ServiceInv, TypeOK
<1>2. CASE Check(r)
    BY <1>1, <1>2 DEF Check
<1>3. CASE Look(r)
    BY <1>1, <1>3 DEF Look
<1>4. CASE Fork(r)
    BY <1>1, <1>4 DEF Fork
<1>5. CASE ReapLook(r)
    BY <1>1, <1>5 DEF ReapLook
<1>6. CASE ReapKill(r)
    BY <1>1, <1>6 DEF ReapKill
<1> QED BY <1>2, <1>3, <1>4, <1>5, <1>6 DEF Watch

LEMMA AgeWatch ==
    ASSUME ServiceInv, AgeInv, NEW r \in Gets, Watch(r)
    PROVE  AgeInv'
<1>1. /\ UNCHANGED requests
      /\ \A q \in Gets \ {r} : watcher'[q] = watcher[q]
    BY WatchIsAlone
<1>2. \A q \in Gets \ {r} : AgeOK(q)'
    BY <1>1, AgeKept DEF AgeInv, requests
<1>3. AgeOK(r)'
  <2>1. AgeOK(r) /\ r \in Requests /\ age[r] \in Nat /\ limit[r] \in Nat /\ watcher[r].ttl \in Nat
    BY AgeTypes DEF AgeInv
  <2>2. UNCHANGED <<cam, limit, age, http>>
    BY <1>1 DEF requests
  <2>3. CASE Check(r)
    <3>1. /\ watcher[r].pc = "check" /\ watcher'[r].pc \in {"look", "gone"}
          /\ watcher'[r].ttl = watcher[r].ttl
        BY <2>3, AgeTypes DEF Check
    <3> QED BY <2>1, <2>2, <3>1 DEF AgeOK
  <2>4. CASE Look(r) /\ Found(cam[r]) = Nothing
    <3>1. watcher[r].pc = "look" /\ watcher' = [watcher EXCEPT ![r].pc = "fork"]
        BY <2>4 DEF Look
    <3>2. watcher'[r].pc = "fork" /\ watcher'[r].ttl = watcher[r].ttl
        BY <3>1, AgeTypes
    <3> QED BY <2>1, <2>2, <3>1, <3>2 DEF AgeOK
  <2>5. CASE Look(r) /\ Found(cam[r]) # Nothing
    <3>1. /\ watcher[r].pc = "look"
          /\ watcher' = [watcher EXCEPT ![r] = [watcher[r] EXCEPT !.pc = "sleep", !.ttl = @ - 1]]
        BY <2>5 DEF Look
    <3>2. watcher'[r] = [watcher[r] EXCEPT !.pc = "sleep", !.ttl = @ - 1]
        BY <3>1, AgeTypes
    <3>3. watcher'[r].pc = "sleep" /\ watcher'[r].ttl = watcher[r].ttl - 1
        BY <3>2, Types DEF ServiceInv
    <3> QED BY <2>1, <2>2, <3>1, <3>3 DEF AgeOK
  <2>6. CASE Fork(r)
    <3>1. /\ watcher[r].pc = "fork"
          /\ watcher' = [watcher EXCEPT ![r].pc = "sleep", ![r].ttl = @ - 1]
        BY <2>6 DEF Fork
    <3>2. watcher'[r].pc = "sleep" /\ watcher'[r].ttl = watcher[r].ttl - 1
        BY <3>1, AgeTypes, Types DEF ServiceInv
    <3> QED BY <2>1, <2>2, <3>1, <3>2 DEF AgeOK
  <2>7. CASE ReapLook(r)
    <3>1. /\ watcher[r].pc = "look" /\ ~(watcher[r].ttl > 0)
          /\ watcher'[r] = [pc |-> "reap", ttl |-> watcher[r].ttl, victims |-> Reaped(r)]
        BY <2>7, AgeTypes DEF ReapLook, RoundsLeft
    <3>2. age[r] = limit[r]
        BY <2>1, <3>1 DEF AgeOK
    <3>3. http[r] # "none"
        BY <3>1 DEF ServiceInv, GetOK
    <3>4. \A c \in Reaped(r).cameras : cam[c.owner] \in Matches(cam[r])
        BY DEF Reaped, Found, CamerasFound, CamOf
    <3> QED BY <2>1, <2>2, <3>1, <3>2, <3>3, <3>4 DEF AgeOK
  <2>8. CASE ReapKill(r)
    <3>1. watcher'[r].pc = "gone"
        BY <2>8, AgeTypes DEF ReapKill
    <3> QED BY <2>1, <2>2, <3>1, AgeGone
  <2> QED BY <2>3, <2>4, <2>5, <2>6, <2>7, <2>8 DEF Watch
<1> QED BY <1>2, <1>3 DEF AgeInv

LEMMA AgeSecond ==
    ASSUME ServiceInv, AgeInv, NEW r \in Gets, Second(r)
    PROVE  AgeInv'
<1>1. /\ AgeOK(r) /\ r \in Requests /\ age[r] \in Nat /\ limit[r] \in Nat \ {0}
      /\ watcher[r].ttl \in Nat
    BY AgeTypes DEF AgeInv
<1>2. UNCHANGED <<cam, limit, http>> /\ http[r] # "none"
    BY DEF Second
<1>3. /\ age'[r] = IF age[r] < limit[r] THEN age[r] + 1 ELSE age[r]
      /\ \A q \in Gets \ {r} : age'[q] = age[q] /\ watcher'[q] = watcher[q]
    BY AgeTypes DEF Second
<1>4. /\ watcher'[r].pc = IF watcher[r].pc = "sleep" THEN "look" ELSE watcher[r].pc
      /\ watcher'[r].ttl = watcher[r].ttl /\ watcher'[r].victims = watcher[r].victims
    BY AgeTypes, Types DEF Second, ServiceInv
<1>5. AgeOK(r)'
    BY <1>1, <1>2, <1>3, <1>4 DEF AgeOK
<1>6. \A q \in Gets \ {r} : AgeOK(q)'
    BY <1>2, <1>3, AgeKept DEF AgeInv
<1> QED BY <1>5, <1>6 DEF AgeInv

LEMMA AgeStep == ServiceInv /\ AgeInv /\ [Next]_vars => AgeInv'
<1> SUFFICES ASSUME ServiceInv, AgeInv, [Next]_vars PROVE AgeInv'
    OBVIOUS
<1>1. CASE \E r \in Gets : GetArrives(r)
  <2>1. PICK r \in Gets : GetArrives(r)
    BY <1>1
  <2>2. /\ UNCHANGED <<cam, limit, age>>
        /\ \A q \in Requests : http[q] # "none" => http'[q] # "none"
        /\ \A q \in Gets \ {r} : watcher'[q] = watcher[q]
    BY <2>1 DEF GetArrives, ServiceInv, TypeOK
  <2>3. ASSUME NEW q \in Gets \ {r} PROVE AgeOK(q)'
    BY <2>2, AgeKept, AgeTypes DEF AgeInv
  <2>4. /\ watcher'[r].pc = "check" /\ watcher'[r].ttl = watcher[r].ttl
        /\ watcher[r].pc = "none"
    BY <2>1, AgeTypes DEF GetArrives, ServiceInv, GetOK
  <2>5. AgeOK(r)'
    BY <2>2, <2>4 DEF AgeOK, AgeInv
  <2> QED BY <2>3, <2>5 DEF AgeInv
<1>2. CASE \E r \in Gets : Poll(r)
  <2>1. PICK r \in Gets : Poll(r)
    BY <1>2
  <2>2. UNCHANGED <<cam, limit, age, watcher>>
    BY <2>1 DEF Poll, processes
  <2>3. \A q \in Requests : http[q] # "none" => http'[q] # "none"
    BY <2>1 DEF Poll, ServiceInv, TypeOK
  <2> QED BY <2>2, <2>3, AgeKept, AgeTypes DEF AgeInv
<1>3. CASE \E r \in Gets : Watch(r)
    BY <1>3, AgeWatch
<1>4. CASE \E s \in Stops : StopArrives(s)
  <2>1. PICK s \in Stops : StopArrives(s)
    BY <1>4
  <2>2. UNCHANGED <<cam, limit, age, watcher>>
    BY <2>1 DEF StopArrives
  <2>3. \A q \in Requests : http[q] # "none" => http'[q] # "none"
    BY <2>1 DEF StopArrives, ServiceInv, TypeOK
  <2> QED BY <2>2, <2>3, AgeKept, AgeTypes DEF AgeInv
<1>5. CASE \E s \in Stops : StopKill(s)
  <2>1. PICK s \in Stops : StopKill(s)
    BY <1>5
  <2>2. UNCHANGED <<cam, limit, age, http>>
    BY <2>1 DEF StopKill, requests
  <2>3. ASSUME NEW q \in Gets PROVE watcher'[q] = watcher[q] \/ watcher'[q].pc = "gone"
    BY <2>1, Types DEF StopKill, WatchersWithout, ServiceInv
  <2> QED BY <2>2, <2>3, AgeKept, AgeGone DEF AgeInv
<1>6. CASE \/ \E s \in Stops : StopLook(s)
           \/ \E c \in running : OpenLog(c) \/ Stream(c) \/ CameraExits(c)
           \/ UNCHANGED vars
  <2>1. UNCHANGED <<cam, limit, age, http, watcher>>
    BY <1>6 DEF StopLook, OpenLog, Stream, CameraExits, vars, requests, processes
  <2> QED BY <2>1, AgeKept DEF AgeInv
<1>7. CASE \E r \in Gets : Second(r)
    BY <1>7, AgeSecond
<1> QED BY <1>1, <1>2, <1>3, <1>4, <1>5, <1>6, <1>7 DEF Next

\* The invariant of the time, with that of the service.
LEMMA AgeInvariant == Spec => []AgeInv
BY AgeInit, AgeStep, ServiceInvariant, PTL DEF Spec

(***************************************************************************)
(* Whatever the requests and the names, what the last kill of a start.py   *)
(* takes down has been asked for no longer by a request that finds it: its *)
(* own, whose livelimit is over (start.py:23-34).                          *)
(***************************************************************************)
THEOREM OnlyPulledForALimit == Spec => PulledForALimit
<1> DEFINE Pulled ==
        \A r \in Gets : Reaps(r) =>
          \A c \in running \ running' :
              \E g \in Gets : /\ http[g] # "none" /\ CamOf(c) \in Matches(cam[g])
                              /\ age[g] = limit[g]
<1>1. ServiceInv /\ AgeInv /\ [Next]_vars => [Pulled]_vars
  <2> SUFFICES ASSUME ServiceInv, AgeInv, [Next]_vars, NEW r \in Gets, Reaps(r),
                      NEW c \in running \ running'
               PROVE  \E g \in Gets : /\ http[g] # "none" /\ CamOf(c) \in Matches(cam[g])
                                      /\ age[g] = limit[g]
    OBVIOUS
  <2>1. age[r] = limit[r] /\ http[r] # "none"
        /\ \A d \in watcher[r].victims.cameras : CamOf(d) \in Matches(cam[r])
    BY DEF Reaps, AgeInv, AgeOK, CamOf
  <2>2. ReapKill(r)
    <3>1. watcher'[r] # watcher[r]
        BY DEF Reaps
    <3>2. ASSUME NEW q \in Gets, q # r, Watch(q) PROVE FALSE
        BY <3>1, <3>2, WatchIsAlone
    <3>3. ASSUME NEW s \in Stops, StopKill(s) PROVE FALSE
        BY <3>1, <3>3 DEF StopKill, WatchersWithout, Reaps
    <3>4. ASSUME NEW q \in Gets, GetArrives(q) PROVE FALSE
        BY <3>1, <3>4, AgeTypes DEF GetArrives, Reaps, ServiceInv, GetOK
    <3>5. ASSUME NEW q \in Gets, Second(q) PROVE FALSE
        BY <3>1, <3>5, AgeTypes DEF Second, Reaps
    <3>6. \E q \in Gets : Watch(q)
        BY <3>1, <3>3, <3>4, <3>5
        DEF Next, Poll, StopArrives, StopLook, OpenLog, Stream, CameraExits, vars, processes
    <3>7. Watch(r)
        BY <3>2, <3>6
    <3> QED BY <3>7 DEF Watch, Check, Look, Fork, ReapLook, Reaps
  <2>3. c \in watcher[r].victims.cameras
    BY <2>2 DEF ReapKill, KillCameras
  <2> QED BY <2>1, <2>3
<1> QED BY <1>1, ServiceInvariant, AgeInvariant, PTL DEF Spec, PulledForALimit

(***************************************************************************)
(* The log and the answers                                                 *)
(***************************************************************************)

\* What excuses an answer is not taken back.
LEMMA ExcusedStays ==
    ASSUME cam' = cam, doubled \subseteq doubled',
           \A q \in Requests : /\ http[q] = "OK" => http'[q] = "OK"
                               /\ http[q] # "none" => http'[q] # "none",
           NEW k, Excused(k)
    PROVE  Excused(k)'
<1>1. CASE StopCame(k)
    BY <1>1 DEF StopCame, Excused, Requests
<1>2. CASE Confused(k)
    BY <1>2 DEF Confused, Excused, Requests
<1>3. CASE k \in doubled
    BY <1>3 DEF Excused
<1> QED BY <1>1, <1>2, <1>3 DEF Excused

\* A camera process is one of a request that has come.
LEMMA OwnerArrived ==
    ASSUME ServiceInv, NEW c \in running
    PROVE  c.owner \in Gets /\ http[c.owner] # "none" /\ CamOf(c) \in Cameras
BY Types DEF ServiceInv, GetOK, Own

\* Another camera with the log of k, or that passes for k, has been asked for.
LEMMA OthersConfuse ==
    ASSUME ServiceInv, NEW c \in running, NEW k, CamOf(c) # k,
           CamOf(c) \in Matches(k) \/ LogOf(CamOf(c)) = LogOf(k)
    PROVE  Excused(k)
BY OwnerArrived DEF Excused, Confused, CamOf

\* What lets a get have its YES is not taken back.
LEMMA ToldStays ==
    ASSUME cam' = cam, doubled \subseteq doubled', raced \subseteq raced',
           \A q \in Requests : /\ http[q] = "OK" => http'[q] = "OK"
                               /\ http[q] # "none" => http'[q] # "none",
           NEW r \in Gets, backed[r] => backed'[r], Told(r)
    PROVE  Told(r)'
<1>1. Excused(cam[r]) => Excused(cam[r])'
    BY ExcusedStays
<1> QED BY <1>1 DEF Told

\* Whoever finds a process has a camera behind it that has streamed, or waits for
\* the log to be opened, or is excused.
LEMMA FoundIsOfNow ==
    ASSUME ServiceInv, CurrentInv, NEW r \in Gets, http[r] # "none",
           Found(cam[r]) # Nothing, log[LogOf(cam[r])]
    PROVE  Told(r) \/ Ahead(r)
<1>1. CASE \E c \in running : CamOf(c) \in Matches(cam[r])
  <2>1. PICK c \in running : CamOf(c) \in Matches(cam[r])
    BY <1>1
  <2>2. CASE CamOf(c) = cam[r] /\ c \in opened
    <3>1. c \in streaming \/ Excused(cam[r])
        BY <2>2 DEF CurrentInv, LogIsOfStream
    <3>2. c \in streaming => backed[r]
        BY <2>2 DEF CurrentInv, StreamBacks
    <3> QED BY <3>1, <3>2 DEF Told
  <2>3. CASE CamOf(c) = cam[r] /\ c \notin opened
    <3>1. Opening(cam[r])
        BY <2>3 DEF Opening
    <3>2. CASE age[r] = 0
        BY <3>1, <3>2 DEF Ahead
    <3>3. CASE age[r] # 0
        BY <3>3, AgeTypes DEF CurrentInv, NowOf, Settled
    <3> QED BY <3>2, <3>3
  <2>4. CASE CamOf(c) # cam[r]
    BY <2>1, <2>4, OthersConfuse DEF Told
  <2> QED BY <2>2, <2>3, <2>4
<1>2. CASE ~\E c \in running : CamOf(c) \in Matches(cam[r])
  <2>1. CamerasFound(cam[r]) = {}
    BY <1>2 DEF CamerasFound
  <2>2. PICK s \in Stops : stopper[s].pc \in {"look", "kill"} /\ cam[s] \in Matches(cam[r])
    BY <2>1 DEF Found, Nothing, StopsFound
  <2>3. http[s] = "OK"
    BY <2>2 DEF ServiceInv, StopperOK
  <2> QED BY <2>2, <2>3 DEF Told, Excused, StopCame
<1> QED BY <1>1, <1>2

LEMMA CurrentInit == Init => CurrentInv
<1> SUFFICES ASSUME Init PROVE CurrentInv
    OBVIOUS
<1>1. \A r \in Gets : Arrived(r)
    BY DEF Init, Arrived, Requests
<1>2. OneOfEach /\ StreamBacks /\ LogIsOfStream
    BY DEF Init, OneOfEach, StreamBacks, LogIsOfStream
<1>3. \A r \in Gets : NowOf(r)
    BY DEF Init, NowOf, Settled
<1>4. YesIsCurrent
    BY DEF Init, YesIsCurrent, Requests
<1> QED BY <1>1, <1>2, <1>3, <1>4 DEF CurrentInv

\* A step that lets the logs alone, adds no camera and takes nothing back.
Calm ==
    /\ cam' = cam /\ log' = log /\ doubled' = doubled /\ raced \subseteq raced'
    /\ running' \subseteq running /\ opened' = opened \cap running'
    /\ streaming' = streaming \cap running'
    /\ \A q \in Requests : /\ http[q] = "OK" => http'[q] = "OK"
                           /\ http[q] # "none" => http'[q] # "none"
    /\ \A q \in Gets : Arrived(q)' /\ (backed[q] => backed'[q])
    /\ \A q \in Gets : http[q] = "none" /\ http'[q] # "none" /\ Streams(cam[q]) => backed'[q]

\* It settles a get only where NowOf holds of it, and a YES is from a log of now.
LEMMA CalmStep ==
    ASSUME ServiceInv, CurrentInv, Calm, \A r \in Gets : NowOf(r)',
           \A r \in Gets : http'[r] = "YES" => http[r] = "YES" \/ Told(r)
    PROVE  CurrentInv'
<1>1. ASSUME NEW k, Excused(k) PROVE Excused(k)'
    BY <1>1, ExcusedStays DEF Calm
<1>2. \A c : CamOf(c)' = CamOf(c)
    BY DEF CamOf, Calm
<1>3. OneOfEach'
    BY <1>2 DEF CurrentInv, OneOfEach, Calm
<1>4. StreamBacks'
    BY <1>2 DEF CurrentInv, StreamBacks, Calm, Streams
<1>5. LogIsOfStream'
    BY <1>1, <1>2 DEF CurrentInv, LogIsOfStream, Calm
<1>6. \A r \in Gets : http'[r] = "YES" => Told(r)
    BY DEF CurrentInv, YesIsCurrent, Told, Excused
<1>7. \A r \in Gets : Told(r) => Told(r)'
    BY ToldStays DEF Calm
<1>8. YesIsCurrent'
    BY <1>6, <1>7 DEF YesIsCurrent, Told, Excused
<1> QED BY <1>3, <1>4, <1>5, <1>8 DEF CurrentInv, Calm

\* A get that a calm step does not settle, and that loses no shell.
LEMMA NowKept ==
    ASSUME CurrentInv, Calm, NEW r \in Gets, age'[r] = age[r],
           Settled(r)' => Settled(r), Opening(cam[r]) => Opening(cam[r])'
    PROVE  NowOf(r)'
<1>1. Told(r) => Told(r)'
    BY ToldStays DEF Calm
<1>2. Ahead(r) => Ahead(r)'
    BY DEF Ahead, Calm
<1> QED BY <1>1, <1>2 DEF CurrentInv, NowOf, Calm

\* The start.py of a get is there from the request on.
LEMMA SettledArrived ==
    ASSUME ServiceInv, CurrentInv, AgeInv, NEW r \in Gets
    PROVE  /\ Settled(r) => http[r] # "none"
           /\ watcher[r].pc = "none" <=> http[r] = "none"
           /\ age[r] \in Nat
           /\ http[r] = "none" => age[r] = 0
           /\ watcher[r].pc = "look" /\ watcher[r].ttl = 0 => Settled(r)
<1>1. Arrived(r) /\ GetOK(r) /\ AgeOK(r)
    BY DEF CurrentInv, ServiceInv, AgeInv
<1>2. age[r] \in Nat /\ limit[r] \in Nat \ {0}
    BY AgeTypes
<1> QED BY <1>1, <1>2 DEF Arrived, GetOK, AgeOK, Settled

LEMMA CurrentGetArrives ==
    ASSUME ServiceInv, ServiceInv', CurrentInv, AgeInv, NEW r \in Gets, GetArrives(r)
    PROVE  CurrentInv'
<1>1. UNCHANGED <<cam, log, doubled, running, opened, streaming, age, raced>>
    BY DEF GetArrives, cameras
<1>2. \A q \in Requests : http'[q] = IF q = r THEN "polling" ELSE http[q]
    BY DEF GetArrives, ServiceInv, TypeOK
<1>3. \A q \in Gets : q # r => watcher'[q] = watcher[q] /\ backed'[q] = backed[q]
    BY AgeTypes DEF GetArrives, ServiceInv, TypeOK
<1>4. /\ watcher'[r].pc = "check" /\ backed'[r] = Streams(cam[r])
      /\ http[r] = "none" /\ age[r] = 0
    BY AgeTypes, SettledArrived DEF GetArrives, ServiceInv, TypeOK
<1>5. ASSUME NEW q \in Gets PROVE Arrived(q)'
    BY <1>1, <1>2, <1>3, <1>4 DEF Arrived, CurrentInv, Requests
<1>6. \A q \in Gets : backed[q] => backed'[q]
  <2>1. backed[r] => backed'[r]
    BY <1>4 DEF CurrentInv, Arrived
  <2> QED BY <1>3, <2>1
<1>7. \A q \in Gets : http[q] = "none" /\ http'[q] # "none" /\ Streams(cam[q]) => backed'[q]
    BY <1>2, <1>4 DEF Requests
<1>8. \A q \in Gets : http'[q] = "YES" => http[q] = "YES"
    BY <1>2 DEF Requests
<1>9. Calm
  <2>1. opened \subseteq running /\ streaming \subseteq running
    BY Types DEF ServiceInv
  <2> QED BY <1>1, <1>2, <1>4, <1>5, <1>6, <1>7, <2>1 DEF Calm
<1>10. \A q \in Gets : Settled(q)' => Settled(q)
    BY <1>1, <1>3, <1>4 DEF Settled
<1>11. \A k : Opening(k)' = Opening(k)
    BY <1>1 DEF Opening, CamOf
<1>12. \A q \in Gets : NowOf(q)'
    BY <1>1, <1>9, <1>10, <1>11, NowKept
<1> QED BY <1>8, <1>9, <1>12, CalmStep

LEMMA CurrentPoll ==
    ASSUME ServiceInv, CurrentInv, AgeInv, NEW r \in Gets, Poll(r)
    PROVE  CurrentInv'
<1>1. UNCHANGED <<cam, log, doubled, running, opened, streaming, age, watcher, backed, raced>>
    BY DEF Poll, processes, cameras, history
<1>2. /\ \A q \in Requests : q # r => http'[q] = http[q]
      /\ http[r] = "polling" /\ http'[r] \in {"polling", "YES", "NO"}
    BY DEF Poll, ServiceInv, TypeOK, Requests
<1>3. http'[r] = "YES" => Told(r)
  <2>1. http'[r] = "YES" => log[LogOf(cam[r])]
    BY <1>2 DEF Poll, ServiceInv, TypeOK, Requests
  <2>2. age[r] > 0
    BY DEF Poll
  <2> QED BY <2>1, <2>2 DEF CurrentInv, NowOf, Settled, Ahead
<1>4. ASSUME NEW q \in Gets PROVE Arrived(q)'
    BY <1>1, <1>2 DEF Arrived, CurrentInv, Requests
<1>5. Calm
  <2>1. opened \subseteq running /\ streaming \subseteq running
    BY Types DEF ServiceInv
  <2> QED BY <1>1, <1>2, <1>4, <2>1 DEF Calm, Requests
<1>6. \A q \in Gets : Settled(q)' => Settled(q)
    BY <1>1 DEF Settled
<1>7. \A k : Opening(k)' = Opening(k)
    BY <1>1 DEF Opening, CamOf
<1>8. \A q \in Gets : NowOf(q)'
    BY <1>1, <1>5, <1>6, <1>7, NowKept
<1>9. \A q \in Gets : http'[q] = "YES" => http[q] = "YES" \/ Told(q)
    BY <1>2, <1>3 DEF Requests
<1> QED BY <1>5, <1>8, <1>9, CalmStep

LEMMA CurrentStopArrives ==
    ASSUME ServiceInv, CurrentInv, NEW s \in Stops, StopArrives(s)
    PROVE  CurrentInv'
<1>1. UNCHANGED <<cam, log, doubled, running, opened, streaming, age, watcher, backed, raced>>
    BY DEF StopArrives, cameras, history
<1>2. \A q \in Requests : http'[q] = IF q = s THEN "OK" ELSE http[q]
    BY DEF StopArrives, ServiceInv, TypeOK
<1>3. \A q \in Gets : q \in Requests /\ http'[q] = http[q]
    BY <1>2, IRoomAssumption DEF Requests
<1>4. ASSUME NEW q \in Gets PROVE Arrived(q)'
    BY <1>1, <1>3 DEF Arrived, CurrentInv
<1>5. Calm
  <2>1. opened \subseteq running /\ streaming \subseteq running
    BY Types DEF ServiceInv
  <2> QED BY <1>1, <1>2, <1>3, <1>4, <2>1 DEF Calm
<1>6. \A q \in Gets : Settled(q)' => Settled(q)
    BY <1>1 DEF Settled
<1>7. \A k : Opening(k)' = Opening(k)
    BY <1>1 DEF Opening, CamOf
<1>8. \A q \in Gets : NowOf(q)'
    BY <1>1, <1>5, <1>6, <1>7, NowKept
<1> QED BY <1>3, <1>5, <1>8, CalmStep

\* A camera fewer whose log is open, or a look of stop.py.
LEMMA CurrentFewer ==
    ASSUME ServiceInv, CurrentInv,
           \/ \E c \in running : CameraExits(c)
           \/ \E s \in Stops : StopLook(s)
           \/ UNCHANGED vars
    PROVE  CurrentInv'
<1>1. UNCHANGED <<cam, log, doubled, age, http, watcher, backed, raced>>
    BY DEF CameraExits, StopLook, vars, requests, processes, history
<1>2. /\ running' \subseteq running /\ opened' = opened \cap running'
      /\ streaming' = streaming \cap running' /\ running' \ opened' = running \ opened
    BY Types DEF CameraExits, StopLook, vars, processes, cameras, ServiceInv
<1>3. ASSUME NEW q \in Gets PROVE Arrived(q)'
    BY <1>1 DEF Arrived, CurrentInv
<1>4. Calm
    BY <1>1, <1>2, <1>3 DEF Calm
<1>5. \A q \in Gets : Settled(q)' => Settled(q)
    BY <1>1 DEF Settled
<1>6. \A k : Opening(k)' = Opening(k)
    BY <1>1, <1>2 DEF Opening, CamOf
<1>7. \A q \in Gets : NowOf(q)'
    BY <1>1, <1>4, <1>5, <1>6, NowKept
<1> QED BY <1>1, <1>4, <1>7, CalmStep

\* A kill that takes a shell along before it opens the log: the gets that wait for
\* it are among the raced.
LEMMA KillIsTold ==
    ASSUME NEW victims, KillCameras(victims), cam' = cam, age' = age,
           NEW q \in Gets, http[q] # "none", Ahead(q)
    PROVE  q \in raced' \/ Ahead(q)'
<1>1. PICK c \in running \ opened : CamOf(c) = cam[q]
    BY DEF Ahead, Opening
<1>2. CASE c \in victims.cameras
    BY <1>1, <1>2 DEF KillCameras, Ahead
<1>3. CASE c \notin victims.cameras
  <2>1. c \in running' \ opened' /\ CamOf(c)' = cam'[q]
    BY <1>1, <1>3 DEF KillCameras, CamOf
  <2> QED BY <2>1 DEF Ahead, Opening
<1> QED BY <1>2, <1>3

\* stop.py may end a start.py that has not settled: a stop request has come.
LEMMA CurrentStopKill ==
    ASSUME ServiceInv, CurrentInv, AgeInv, NEW s \in Stops, StopKill(s)
    PROVE  CurrentInv'
<1>1. UNCHANGED <<cam, log, doubled, age, http, backed>> /\ raced \subseteq raced'
    BY DEF StopKill, KillCameras, requests
<1>2. /\ running' \subseteq running /\ opened' = opened \cap running'
      /\ streaming' = streaming \cap running'
    BY Types DEF StopKill, KillCameras, ServiceInv
<1>3. ASSUME NEW q \in Gets
      PROVE  watcher'[q] = watcher[q] \/ (watcher'[q].pc = "gone" /\ Excused(cam[q])
                                          /\ http[q] # "none")
  <2>1. CASE q \in stopper[s].victims.starts /\ watcher[q].pc # "reap"
    <3>1. watcher'[q].pc = "gone"
        BY <2>1, Types DEF StopKill, WatchersWithout, ServiceInv
    <3>2. http[s] = "OK" /\ cam[q] \in Matches(cam[s]) /\ http[q] # "none"
        BY <2>1 DEF StopKill, ServiceInv, StopperOK
    <3> QED BY <3>1, <3>2 DEF Excused, StopCame
  <2>2. CASE ~(q \in stopper[s].victims.starts /\ watcher[q].pc # "reap")
    BY <2>2 DEF StopKill, WatchersWithout
  <2> QED BY <2>1, <2>2
<1>4. ASSUME NEW q \in Gets PROVE Arrived(q)'
    BY <1>1, <1>3 DEF Arrived, CurrentInv
<1>5. Calm
    BY <1>1, <1>2, <1>4 DEF Calm
<1>6. ASSUME NEW q \in Gets PROVE NowOf(q)'
  <2>1. Told(q) => Told(q)'
    BY <1>5, ToldStays DEF Calm
  <2>2. http[q] # "none" /\ Ahead(q) => Told(q)' \/ Ahead(q)'
    BY <1>1, KillIsTold DEF StopKill, Told
  <2>3. Settled(q)' => Settled(q) \/ Told(q)
    BY <1>1, <1>3 DEF Settled, Told
  <2>4. Settled(q) => http[q] # "none"
    BY SettledArrived
  <2> QED BY <1>1, <2>1, <2>2, <2>3, <2>4 DEF CurrentInv, NowOf
<1> QED BY <1>1, <1>5, <1>6, CalmStep

\* The first second settles a get whose start.py has come to its sleep and whose log
\* is open; the others are raced.
LEMMA CurrentSecond ==
    ASSUME ServiceInv, CurrentInv, AgeInv, NEW r \in Gets, Second(r)
    PROVE  CurrentInv'
<1>1. /\ UNCHANGED <<cam, log, doubled, http, running, opened, streaming, backed>>
      /\ raced \subseteq raced' /\ http[r] # "none"
    BY DEF Second, cameras
<1>2. /\ \A q \in Gets \ {r} : age'[q] = age[q] /\ watcher'[q] = watcher[q]
      /\ watcher'[r].pc = IF watcher[r].pc = "sleep" THEN "look" ELSE watcher[r].pc
    BY AgeTypes, Types DEF Second, ServiceInv
<1>3. age[r] \in Nat /\ age'[r] > 0
    BY AgeTypes DEF Second
<1>4. ASSUME NEW q \in Gets PROVE Arrived(q)'
    BY <1>1, <1>2 DEF Arrived, CurrentInv
<1>5. Calm
  <2>1. opened \subseteq running /\ streaming \subseteq running
    BY Types DEF ServiceInv
  <2> QED BY <1>1, <1>4, <2>1 DEF Calm
<1>6. \A k : Opening(k)' = Opening(k)
    BY <1>1 DEF Opening, CamOf
<1>7. ASSUME NEW q \in Gets \ {r} PROVE NowOf(q)'
  <2>1. Settled(q)' => Settled(q)
    BY <1>2 DEF Settled
  <2>2. age'[q] = age[q] /\ q \in Gets
    BY <1>2
  <2> QED BY <1>1, <1>5, <1>6, <2>1, <2>2, NowKept
<1>8. NowOf(r)'
  <2>1. Told(r) => Told(r)'
    BY <1>5, ToldStays DEF Calm
  <2>2. CASE age[r] > 0
    BY <1>1, <2>1, <2>2 DEF CurrentInv, NowOf, Settled, Ahead
  <2>3. CASE age[r] = 0 /\ NotReady(r)
    <3>1. r \in raced'
        BY <2>3 DEF Second
    <3> QED BY <3>1 DEF NowOf, Told
  <2>4. CASE age[r] = 0 /\ ~NotReady(r)
    <3>1. watcher[r].pc \in {"sleep", "reap", "gone"} /\ ~Opening(cam[r])
        BY <1>1, <2>4, SettledArrived DEF NotReady, ServiceInv, TypeOK
    <3> QED BY <1>1, <2>1, <3>1 DEF CurrentInv, NowOf, Settled, Ahead
  <2> QED BY <1>3, <2>2, <2>3, <2>4
<1> QED BY <1>1, <1>5, <1>7, <1>8, CalmStep

\* A start.py that has not settled does so by what it finds; one that kills has.
LEMMA CurrentWatch ==
    ASSUME ServiceInv, CurrentInv, AgeInv, NEW r \in Gets,
           Check(r) \/ Look(r) \/ ReapLook(r) \/ ReapKill(r)
    PROVE  CurrentInv'
<1>1. UNCHANGED <<cam, log, doubled, age, http, backed>> /\ raced \subseteq raced'
    BY DEF Check, Look, ReapLook, ReapKill, KillCameras, requests, history
<1>2. /\ running' \subseteq running /\ opened' = opened \cap running'
      /\ streaming' = streaming \cap running'
    BY Types DEF Check, Look, ReapLook, ReapKill, KillCameras, ServiceInv, cameras
<1>3. \A q \in Gets \ {r} : watcher'[q] = watcher[q]
    BY WatchIsAlone DEF Watch
<1>4. http[r] # "none" /\ watcher'[r].pc # "none"
  <2>1. watcher[r].pc # "none"
    BY DEF Check, Look, ReapLook, ReapKill
  <2>2. CASE Check(r)
    BY <2>1, <2>2, AgeTypes DEF Check, ServiceInv, GetOK
  <2>3. CASE Look(r)
    <3>1. /\ watcher[r] = [pc |-> watcher[r].pc, ttl |-> watcher[r].ttl,
                           victims |-> watcher[r].victims]
          /\ DOMAIN watcher = Gets
        BY Types, AgeTypes DEF ServiceInv
    <3> QED BY <2>1, <2>3, <3>1 DEF Look, ServiceInv, GetOK
  <2>4. CASE ReapLook(r) \/ ReapKill(r)
    BY <2>1, <2>4, AgeTypes DEF ReapLook, ReapKill, ServiceInv, GetOK
  <2> QED BY <2>2, <2>3, <2>4
<1>5. ASSUME NEW q \in Gets PROVE Arrived(q)'
    BY <1>1, <1>3, <1>4 DEF Arrived, CurrentInv
<1>6. Calm
    BY <1>1, <1>2, <1>5 DEF Calm
<1>7. Settled(r)' /\ log[LogOf(cam[r])] => Told(r) \/ Ahead(r)
  <2>1. CASE Found(cam[r]) # Nothing
    BY <1>4, <2>1, FoundIsOfNow
  <2>2. CASE Check(r) /\ Found(cam[r]) = Nothing
    <3>1. watcher'[r].pc = "look"
        BY <2>2, AgeTypes DEF Check
    <3> QED BY <1>1, <3>1 DEF Settled, CurrentInv, NowOf
  <2>3. CASE Look(r) /\ Found(cam[r]) = Nothing
    <3>1. watcher' = [watcher EXCEPT ![r].pc = "fork"]
        BY <2>3 DEF Look
    <3>2. watcher'[r].pc = "fork"
        BY <3>1, AgeTypes
    <3> QED BY <1>1, <3>2 DEF Settled, CurrentInv, NowOf
  <2>4. CASE ReapLook(r)
    <3>1. watcher[r].pc = "look" /\ watcher[r].ttl = 0
        BY <2>4, AgeTypes DEF ReapLook, RoundsLeft
    <3> QED BY <3>1, SettledArrived DEF CurrentInv, NowOf
  <2>5. CASE ReapKill(r)
    BY <2>5 DEF ReapKill, Settled, CurrentInv, NowOf
  <2> QED BY <2>1, <2>2, <2>3, <2>4, <2>5
<1>8. ASSUME NEW q \in Gets, Ahead(q), http[q] # "none" PROVE Told(q)' \/ Ahead(q)'
  <2>1. CASE ReapKill(r)
    BY <1>1, <1>8, <2>1, KillIsTold DEF ReapKill, Told
  <2>2. CASE Check(r) \/ Look(r) \/ ReapLook(r)
    BY <1>1, <1>8, <2>2 DEF Check, Look, ReapLook, cameras, Ahead, Opening, CamOf
  <2> QED BY <2>1, <2>2
<1>9. ASSUME NEW q \in Gets PROVE NowOf(q)'
  <2>1. Told(q) => Told(q)'
    BY <1>6, ToldStays DEF Calm
  <2>2. CASE q = r
    BY <1>1, <1>4, <1>7, <1>8, <2>1, <2>2 DEF NowOf
  <2>3. CASE q # r
    <3>1. (Settled(q)' => Settled(q)) /\ (Settled(q) => http[q] # "none")
        BY <1>1, <1>3, <2>3, SettledArrived DEF Settled
    <3> QED BY <1>1, <1>8, <2>1, <3>1 DEF CurrentInv, NowOf
  <2> QED BY <2>2, <2>3
<1> QED BY <1>1, <1>6, <1>9, CalmStep

\* The shell of the new process has the log still to open.
LEMMA CurrentFork ==
    ASSUME ServiceInv, CurrentInv, AgeInv, NEW r \in Gets, Fork(r)
    PROVE  CurrentInv'
<1> DEFINE new == [owner |-> r, ttl |-> watcher[r].ttl]
<1>1. /\ UNCHANGED <<cam, log, age, http, backed, raced, opened, streaming>>
      /\ running' = running \cup {new} /\ doubled \subseteq doubled'
      /\ ProcessesOf(cam[r]) # {} => cam[r] \in doubled'
    BY DEF Fork, requests
<1>2. \A q \in Gets \ {r} : watcher'[q] = watcher[q]
    BY WatchIsAlone DEF Watch
<1>3. watcher'[r].pc = "sleep"
    BY AgeTypes, Types DEF Fork, ServiceInv
<1>4. \A k : Excused(k) => Excused(k)'
    BY <1>1, ExcusedStays
<1>5. \A q \in Gets : Told(q) => Told(q)'
    BY <1>1, ToldStays
<1>6. CamOf(new) = cam[r] /\ \A c : CamOf(c)' = CamOf(c)
    BY <1>1 DEF CamOf
<1>7. new \notin opened
  <2>1. Own(r) = {}
    BY DEF Fork, ServiceInv, GetOK
  <2> QED BY <2>1, Types DEF Own, ServiceInv
<1>8. \A q \in Gets : Arrived(q)'
    BY <1>1, <1>2, <1>3 DEF Arrived, CurrentInv
<1>9. OneOfEach'
  <2>1. ASSUME NEW c \in running, CamOf(c) = cam[r] PROVE cam[r] \in doubled'
    BY <1>1, <2>1 DEF ProcessesOf
  <2> QED BY <1>1, <1>6, <2>1 DEF OneOfEach, CurrentInv
<1>10. StreamBacks'
    BY <1>1, <1>6 DEF StreamBacks, CurrentInv
<1>11. LogIsOfStream'
    BY <1>1, <1>4, <1>6 DEF LogIsOfStream, CurrentInv
<1>12. ASSUME NEW q \in Gets PROVE NowOf(q)'
  <2>1. Opening(cam[r])' /\ \A k : Opening(k) => Opening(k)'
    BY <1>1, <1>6, <1>7 DEF Opening
  <2>2. Ahead(q) => Ahead(q)'
    BY <1>1, <2>1 DEF Ahead
  <2>3. CASE q = r /\ age[r] = 0
    BY <1>1, <2>1, <2>3 DEF NowOf, Ahead
  <2>4. CASE q # r \/ age[r] # 0
    <3>1. Settled(q)' => Settled(q)
        BY <1>1, <1>2, <2>4, AgeTypes DEF Settled
    <3> QED BY <1>1, <1>5, <2>2, <3>1 DEF NowOf, CurrentInv
  <2> QED BY <2>3, <2>4
<1>13. YesIsCurrent'
    BY <1>1, <1>4 DEF YesIsCurrent, CurrentInv, Excused
<1> QED BY <1>8, <1>9, <1>10, <1>11, <1>12, <1>13 DEF CurrentInv

\* An opened log is empty.
LEMMA CurrentOpenLog ==
    ASSUME ServiceInv, CurrentInv, NEW c \in running, OpenLog(c)
    PROVE  CurrentInv'
<1>1. /\ UNCHANGED <<cam, age, http, watcher, running, streaming, backed, raced, doubled>>
      /\ opened' = opened \cup {c}
    BY DEF OpenLog, requests, history
<1>2. \A f \in DOMAIN log : log'[f] => log[f] /\ f # LogOf(CamOf(c))
    BY DEF OpenLog, LogTruncated
<1>3. /\ \A q \in Requests : LogOf(cam[q]) \in DOMAIN log
      /\ \A d \in running : LogOf(CamOf(d)) \in DOMAIN log
      /\ \A d : CamOf(d)' = CamOf(d)
    BY <1>1, Types DEF ServiceInv, TypeOK, CamOf, Requests
<1>4. opened \subseteq running
    BY Types DEF ServiceInv
<1>5. \A k : Excused(k) => Excused(k)'
    BY <1>1, ExcusedStays
<1>6. \A q \in Gets : Told(q) => Told(q)'
    BY <1>1, ToldStays
<1>7. \A q \in Gets : Arrived(q)'
    BY <1>1 DEF Arrived, CurrentInv
<1>8. OneOfEach' /\ StreamBacks'
    BY <1>1, <1>3 DEF OneOfEach, StreamBacks, CurrentInv
<1>9. LogIsOfStream'
  <2> SUFFICES ASSUME NEW d \in opened', log'[LogOf(CamOf(d))]
               PROVE  d \in streaming \/ Excused(CamOf(d))'
    BY <1>1, <1>3 DEF LogIsOfStream
  <2>1. d \in running
    BY <1>1, <1>4
  <2>2. log[LogOf(CamOf(d))] /\ LogOf(CamOf(d)) # LogOf(CamOf(c))
    BY <1>2, <1>3, <2>1
  <2>3. d \in opened
    BY <1>1, <2>2
  <2> QED BY <1>3, <1>5, <2>2, <2>3 DEF LogIsOfStream, CurrentInv
<1>10. ASSUME NEW q \in Gets PROVE NowOf(q)'
  <2> SUFFICES ASSUME Settled(q)', log'[LogOf(cam[q])] PROVE Told(q)' \/ Ahead(q)'
    BY <1>1 DEF NowOf
  <2>1. log[LogOf(cam[q])] /\ cam[q] # CamOf(c)
    BY <1>2, <1>3 DEF Requests
  <2>2. Settled(q)
    BY <1>1 DEF Settled
  <2>3. Ahead(q) => Ahead(q)'
    BY <1>1, <1>3, <2>1 DEF Ahead, Opening
  <2> QED BY <1>6, <2>1, <2>2, <2>3 DEF NowOf, CurrentInv
<1>11. YesIsCurrent'
    BY <1>1, <1>5 DEF YesIsCurrent, CurrentInv, Excused
<1> QED BY <1>7, <1>8, <1>9, <1>10, <1>11 DEF CurrentInv

\* Whoever waits for this camera has it behind it; who shares its log is excused.
LEMMA CurrentStream ==
    ASSUME ServiceInv, CurrentInv, AgeInv, NEW c \in running, Stream(c)
    PROVE  CurrentInv'
<1>1. /\ UNCHANGED <<cam, age, http, watcher, running, opened, raced, doubled>>
      /\ streaming' = streaming \cup {c}
    BY DEF Stream, requests
<1>2. log' = [log EXCEPT ![LogOf(CamOf(c))] = TRUE]
    BY DEF Stream
<1>3. \A q \in Gets : backed'[q] = (backed[q] \/ (http[q] # "none" /\ cam[q] = CamOf(c)))
    BY DEF Stream
<1>4. /\ \A k : Excused(k) => Excused(k)'
      /\ \A q \in Gets : Told(q) => Told(q)'
    BY <1>1, <1>3, ExcusedStays, ToldStays
<1>5. \A f : log'[f] => log[f] \/ f = LogOf(CamOf(c))
    BY <1>2
<1>6. \A d : CamOf(d)' = CamOf(d)
    BY <1>1 DEF CamOf
<1>7. \A q \in Gets : Arrived(q)'
    BY <1>1, <1>3 DEF Arrived, CurrentInv
<1>8. OneOfEach'
    BY <1>1, <1>6 DEF OneOfEach, CurrentInv
<1>9. StreamBacks'
    BY <1>1, <1>3, <1>6 DEF StreamBacks, CurrentInv
<1>10. ASSUME NEW k, LogOf(CamOf(c)) = LogOf(k), CamOf(c) # k PROVE Excused(k)'
    BY <1>4, <1>10, OthersConfuse
<1>11. LogIsOfStream'
  <2> SUFFICES ASSUME NEW d \in opened, log'[LogOf(CamOf(d))]
               PROVE  d \in streaming' \/ Excused(CamOf(d))'
    BY <1>1, <1>6 DEF LogIsOfStream
  <2>1. CASE log[LogOf(CamOf(d))]
    BY <1>1, <1>4, <1>6, <2>1 DEF LogIsOfStream, CurrentInv
  <2>2. CASE LogOf(CamOf(d)) = LogOf(CamOf(c)) /\ CamOf(d) # CamOf(c)
    BY <1>6, <1>10, <2>2
  <2>3. CASE CamOf(d) = CamOf(c)
    <3>1. d = c \/ CamOf(d) \in doubled
        BY <2>3, Types DEF OneOfEach, CurrentInv, ServiceInv
    <3> QED BY <1>1, <1>4, <1>6, <3>1 DEF Excused
  <2> QED BY <1>5, <2>1, <2>2, <2>3
<1>12. ASSUME NEW q \in Gets PROVE NowOf(q)'
  <2> SUFFICES ASSUME Settled(q)', log'[LogOf(cam[q])] PROVE Told(q)' \/ Ahead(q)'
    BY <1>1 DEF NowOf
  <2>1. Settled(q) /\ http[q] # "none"
    BY <1>1, SettledArrived DEF Settled
  <2>2. CASE log[LogOf(cam[q])]
    <3>1. Ahead(q) => Ahead(q)'
        BY <1>1, <1>6 DEF Ahead, Opening
    <3> QED BY <1>4, <2>1, <2>2, <3>1 DEF NowOf, CurrentInv
  <2>3. CASE LogOf(cam[q]) = LogOf(CamOf(c)) /\ cam[q] # CamOf(c)
    BY <1>1, <1>10, <2>3 DEF Told
  <2>4. CASE cam[q] = CamOf(c)
    BY <1>3, <2>1, <2>4 DEF Told
  <2> QED BY <1>5, <2>2, <2>3, <2>4
<1>13. YesIsCurrent'
    BY <1>1, <1>3, <1>4 DEF YesIsCurrent, CurrentInv, Excused
<1> QED BY <1>7, <1>8, <1>9, <1>11, <1>12, <1>13 DEF CurrentInv

LEMMA CurrentStep ==
    ServiceInv /\ ServiceInv' /\ AgeInv /\ CurrentInv /\ [Next]_vars => CurrentInv'
<1> SUFFICES ASSUME ServiceInv, ServiceInv', AgeInv, CurrentInv, [Next]_vars
             PROVE  CurrentInv'
    OBVIOUS
<1>1. CASE \E r \in Gets : GetArrives(r) \/ Poll(r)
    BY <1>1, CurrentGetArrives, CurrentPoll
<1>2. CASE \E r \in Gets : Watch(r) \/ Second(r)
    BY <1>2, CurrentWatch, CurrentFork, CurrentSecond DEF Watch
<1>3. CASE \E s \in Stops : StopArrives(s) \/ StopKill(s)
    BY <1>3, CurrentStopArrives, CurrentStopKill
<1>4. CASE \/ \E c \in running : CameraExits(c)
           \/ \E s \in Stops : StopLook(s)
           \/ UNCHANGED vars
    BY <1>4, CurrentFewer
<1>5. CASE \E c \in running : OpenLog(c) \/ Stream(c)
    BY <1>5, CurrentOpenLog, CurrentStream
<1> QED BY <1>1, <1>2, <1>3, <1>4, <1>5 DEF Next

(***************************************************************************)
(* Whatever the requests, the names and the logs, YES is not what an       *)
(* earlier process has left in the log (iroom.py:42): one that has printed *)
(* a `time' has run since the request came, unless the handler looked      *)
(* ahead of the shell that empties the log (start.py:17), a stop request   *)
(* came, another camera passes for this one, or two of it ran at once.     *)
(***************************************************************************)
THEOREM YesStaysCurrent == Spec => []YesIsCurrent
<1>1. CurrentInv => YesIsCurrent
    BY DEF CurrentInv
<1> QED BY <1>1, CurrentInit, CurrentStep, ServiceInvariant, AgeInvariant, PTL DEF Spec

=============================================================================
