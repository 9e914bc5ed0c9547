--------------------------- MODULE DevReloadProofs ---------------------------
(***************************************************************************)
(* What the process manager of the dev plugins never does, for any sources *)
(* and any number of edits, whatever the order of exits and timeouts.      *)
(*                                                                         *)
(* A process matters here only by its state and by the signal it got, a    *)
(* reload only by the process it waits for.  The steps of the model are of *)
(* ten kinds in those terms (StepKinds), and each keeps the invariant.   *)
(* That the last edit is followed takes more: what a reload knows of the   *)
(* types (StepTurns) and what becomes of the last server (StepServers).    *)
(***************************************************************************)
EXTENDS DevReload, SequenceTheorems, TLAPS

States  == {"spawned", "built", "serving", "dead", "reaped", "failed"}
Signals == {"none", "TERM", "KILL", "left"}

(* t is ps with the entry p brought into a state and signalled.             *)
Edited(ps, p, st, sig, t) ==
    /\ t \in Seq(Procs) /\ Len(t) = Len(ps) /\ DOMAIN t = DOMAIN ps
    /\ t[p].st = st /\ t[p].sig = sig
    /\ \A q \in DOMAIN ps : q # p => t[q] = ps[q]

(* A sequence with one entry replaced.                                      *)
LEMMA Replaced ==
    ASSUME NEW V, NEW s \in Seq(V), NEW p \in DOMAIN s, NEW v \in V,
           NEW t, t = [s EXCEPT ![p] = v]
    PROVE  /\ t \in Seq(V) /\ Len(t) = Len(s) /\ DOMAIN t = DOMAIN s
           /\ t[p] = v /\ \A q \in DOMAIN s : q # p => t[q] = s[q]
OBVIOUS

(* A sequence with one entry more.                                          *)
LEMMA Extended ==
    ASSUME NEW V, NEW s \in Seq(V), NEW v \in V, NEW t, t = Append(s, v)
    PROVE  /\ t \in Seq(V) /\ Len(s) \in Nat /\ Len(t) = Len(s) + 1
           /\ DOMAIN s = 1..Len(s) /\ DOMAIN t = 1..(Len(s) + 1)
           /\ t[Len(s) + 1] = v /\ \A q \in DOMAIN s : t[q] = s[q]
OBVIOUS

(* The changes that the manager and the system make to one process.         *)
LEMMA SignalledFacts ==
    ASSUME NEW ps \in Seq(Procs), NEW p \in DOMAIN ps, NEW x \in Signals
    PROVE  Edited(ps, p, ps[p].st, x, [ps EXCEPT ![p].sig = x])
<1>1. ps[p] \in Procs
  OBVIOUS
<1> DEFINE v == [ps[p] EXCEPT !.sig = x]
<1>2. v \in Procs /\ v.sig = x /\ v.st = ps[p].st
  BY <1>1 DEF Procs, Signals
<1>3. [ps EXCEPT ![p].sig = x] = [ps EXCEPT ![p] = v]
  OBVIOUS
<1> HIDE DEF v
<1> QED BY <1>2, <1>3, Replaced DEF Edited

(* A process reaches another state (Listens).                               *)
LEMMA StateFacts ==
    ASSUME NEW ps \in Seq(Procs), NEW p \in DOMAIN ps, NEW x \in States
    PROVE  Edited(ps, p, x, ps[p].sig, [ps EXCEPT ![p].st = x])
<1>1. ps[p] \in Procs
  OBVIOUS
<1> DEFINE v == [ps[p] EXCEPT !.st = x]
<1>2. v \in Procs /\ v.st = x /\ v.sig = ps[p].sig
  BY <1>1 DEF Procs, States
<1>3. [ps EXCEPT ![p].st = x] = [ps EXCEPT ![p] = v]
  OBVIOUS
<1> HIDE DEF v
<1> QED BY <1>2, <1>3, Replaced DEF Edited

(* A process reaches another state and is of given sources (Builds, Dead).  *)
LEMMA BuiltFacts ==
    ASSUME NEW ps \in Seq(Procs), NEW p \in DOMAIN ps, NEW x \in States,
           NEW f \in SourceStates \cup {NoSource}
    PROVE  Edited(ps, p, x, ps[p].sig, [ps EXCEPT ![p].st = x, ![p].from = f])
<1>1. ps[p] \in Procs
  OBVIOUS
<1> DEFINE v == [ps[p] EXCEPT !.st = x, !.from = f]
<1>2. v \in Procs /\ v.st = x /\ v.sig = ps[p].sig
  BY <1>1 DEF Procs, States
<1> DEFINE t == [ps EXCEPT ![p].st = x, ![p].from = f]
<1>3. t = [ps EXCEPT ![p] = v]
  OBVIOUS
<1> HIDE DEF v, t
<1>4. Edited(ps, p, x, ps[p].sig, t)
  BY <1>2, <1>3, Replaced DEF Edited
<1> QED BY <1>4 DEF t

(* The exit of a process is handled (ExitEvent).                            *)
LEMMA ReapedFacts ==
    ASSUME procs \in Seq(Procs), NEW p \in DOMAIN procs
    PROVE  Edited(procs, p, "reaped", "none", Reaped(p))
<1>1. procs[p] \in Procs
  OBVIOUS
<1> DEFINE v == [procs[p] EXCEPT !.st = "reaped", !.sig = "none"]
<1>2. v \in Procs /\ v.st = "reaped" /\ v.sig = "none"
  BY <1>1 DEF Procs
<1>3. Reaped(p) = [procs EXCEPT ![p] = v]
  BY DEF Reaped
<1> HIDE DEF v
<1> QED BY <1>2, <1>3, Replaced DEF Edited

(* A process ends (Dies, Listens, Builds).                                  *)
LEMMA DeadFacts ==
    ASSUME procs \in Seq(Procs), NEW p \in DOMAIN procs
    PROVE  Edited(procs, p, "dead", procs[p].sig, Dead(p))
BY BuiltFacts DEF Dead, States

(* A process is killed (KillTimeout).                                       *)
LEMMA KilledFacts ==
    ASSUME procs \in Seq(Procs), NEW p \in DOMAIN procs
    PROVE  Edited(procs, p, "dead", "KILL", Killed(p))
<1> DEFINE d == Dead(p)
<1>1. Edited(procs, p, "dead", procs[p].sig, d)
  BY DeadFacts
<1>2. Edited(d, p, d[p].st, "KILL", [d EXCEPT ![p].sig = "KILL"])
  BY <1>1, SignalledFacts DEF Edited, Signals
<1>3. Killed(p) = [d EXCEPT ![p].sig = "KILL"]
  BY DEF Killed
<1> HIDE DEF d
<1> QED BY <1>1, <1>2, <1>3 DEF Edited

(* A "go run" exits before its server does (ExitEvent).                     *)
LEMMA LeftFacts ==
    ASSUME procs \in Seq(Procs), NEW p \in DOMAIN procs
    PROVE  Edited(procs, p, procs[p].st, "left", Left(p))
BY SignalledFacts DEF Left, Signals

(* A process ends (Dies, Listens): handled at once if its "go run" is gone. *)
LEMMA EndedFacts ==
    ASSUME procs \in Seq(Procs), NEW p \in DOMAIN procs
    PROVE  \E st \in {"dead", "reaped"} :
              /\ Edited(procs, p, st, procs[p].sig, Ended(p))
              /\ st = "reaped" => procs[p].sig = "left"
<1> DEFINE d == Dead(p)
<1>1. Edited(procs, p, "dead", procs[p].sig, d)
  BY DeadFacts
<1>2. Edited(d, p, "reaped", d[p].sig, [d EXCEPT ![p].st = "reaped"])
  BY <1>1, StateFacts DEF Edited, States
<1>3. Ended(p) = IF procs[p].sig = "left" THEN [d EXCEPT ![p].st = "reaped"] ELSE d
  BY DEF Ended
<1> HIDE DEF d
<1>4. CASE procs[p].sig = "left"
  <2>1. Edited(procs, p, "reaped", procs[p].sig, Ended(p))
    BY <1>1, <1>2, <1>3, <1>4 DEF Edited
  <2> QED BY <1>4, <2>1
<1>5. CASE procs[p].sig # "left"
  <2>1. Edited(procs, p, "dead", procs[p].sig, Ended(p))
    BY <1>1, <1>3, <1>5
  <2> QED BY <2>1
<1> QED BY <1>4, <1>5

(* A process ends by itself (Crashes).                                      *)
LEMMA CrashedFacts ==
    ASSUME procs \in Seq(Procs), NEW p \in DOMAIN procs
    PROVE  Edited(procs, p, "dead", procs[p].sig, [Dead(p) EXCEPT ![p].crashed = TRUE])
<1> DEFINE d == Dead(p)
<1>1. Edited(procs, p, "dead", procs[p].sig, d)
  BY DeadFacts
<1> HIDE DEF d
<1>2. d \in Seq(Procs) /\ p \in DOMAIN d /\ d[p] \in Procs
  BY <1>1 DEF Edited
<1> DEFINE v == [d[p] EXCEPT !.crashed = TRUE]
<1>3. v \in Procs /\ v.st = d[p].st /\ v.sig = d[p].sig
  BY <1>2 DEF Procs
<1> DEFINE t == [d EXCEPT ![p].crashed = TRUE]
<1>4. t = [d EXCEPT ![p] = v]
  BY <1>2
<1> HIDE DEF v, t
<1>5. Edited(d, p, d[p].st, d[p].sig, t)
  BY <1>2, <1>3, <1>4, Replaced DEF Edited
<1>6. Edited(procs, p, "dead", procs[p].sig, t)
  BY <1>1, <1>5 DEF Edited
<1> QED BY <1>6 DEF d, t

(* The entries that are added to procs and jobs.                            *)
LEMMA EntryFacts ==
    /\ \A st \in States : Fresh(st) \in Procs /\ Fresh(st).sig = "none" /\ Fresh(st).st = st
    /\ Done \in Jobs /\ Done.pc = "done"
    /\ \A p \in Nat : \A pc \in {"waiting", "stopping", "extracting"} :
          Job(pc, p) \in Jobs /\ Job(pc, p).pc = pc /\ Job(pc, p).on = p
    /\ \A n \in Nat : LET e == [Job("extracting", 0) EXCEPT !.prev = n]
                      IN  e \in Jobs /\ e.pc = "extracting" /\ e.prev = n
<1>1. NoFiles \in Files /\ NoSource \in SourceStates \cup {NoSource}
  BY DEF NoFiles, Files
<1>2. \A st \in States : Fresh(st) \in Procs /\ Fresh(st).sig = "none" /\ Fresh(st).st = st
  BY <1>1 DEF Fresh, Procs, States
<1>3. \A p \in Nat : \A pc \in {"waiting", "stopping", "extracting", "done"} :
          Job(pc, p) \in Jobs /\ Job(pc, p).pc = pc /\ Job(pc, p).on = p
  BY <1>1 DEF Job, Jobs
<1>4. \A n \in Nat : LET e == [Job("extracting", 0) EXCEPT !.prev = n]
                     IN  e \in Jobs /\ e.pc = "extracting" /\ e.prev = n
  BY <1>1 DEF Job, Jobs
<1> QED BY <1>2, <1>3, <1>4 DEF Done

(* A server is started after those of ps, and job j of js goes on.          *)
Started(ps, js, j) ==
    /\ procs' \in Seq(Procs) /\ Len(ps) \in Nat /\ goProcess' = Len(ps) + 1
    /\ DOMAIN ps = 1..Len(ps) /\ DOMAIN procs' = 1..(Len(ps) + 1)
    /\ procs'[Len(ps) + 1].sig = "none" /\ procs'[Len(ps) + 1].st \in {"spawned", "failed"}
    /\ \A q \in DOMAIN ps : procs'[q] = ps[q]
    /\ jobs' \in Seq(Jobs) /\ DOMAIN jobs' = DOMAIN js
    /\ \/ jobs'[j].pc = "extracting" /\ jobs'[j].prev = dts
       \/ jobs'[j].pc = "done" /\ procs'[Len(ps) + 1].st = "failed"
    /\ \A i \in DOMAIN js : i # j => jobs'[i] = js[i]

(* What StartAndExtract does.                                               *)
LEMMA StartFacts ==
    ASSUME NEW ps \in Seq(Procs), NEW js \in Seq(Jobs), NEW j \in DOMAIN js, dts \in Nat,
           StartAndExtract(ps, js, j)
    PROVE  Started(ps, js, j)
<1>1. PICK st \in {"spawned", "failed"} :
        /\ start(ps, st)
        /\ jobs' = [js EXCEPT ![j] =
               IF st = "failed" THEN Done ELSE [Job("extracting", 0) EXCEPT !.prev = dts]]
  BY DEF StartAndExtract
<1> DEFINE e == IF st = "failed" THEN Done ELSE [Job("extracting", 0) EXCEPT !.prev = dts]
<1>2. /\ e \in Jobs
      /\ \/ e.pc = "extracting" /\ e.prev = dts
         \/ e.pc = "done" /\ st = "failed"
  BY EntryFacts
<1>3. jobs' = [js EXCEPT ![j] = e]
  BY <1>1
<1> HIDE DEF e
<1>4. /\ jobs' \in Seq(Jobs) /\ DOMAIN jobs' = DOMAIN js /\ jobs'[j] = e
      /\ \A i \in DOMAIN js : i # j => jobs'[i] = js[i]
  BY <1>2, <1>3, Replaced
<1>5. st \in States /\ Fresh(st) \in Procs /\ Fresh(st).sig = "none" /\ Fresh(st).st = st
  BY EntryFacts DEF States
<1>6. procs' = Append(ps, Fresh(st)) /\ goProcess' = Len(ps) + 1
  BY <1>1 DEF start
<1>7. /\ procs' \in Seq(Procs) /\ Len(ps) \in Nat
      /\ DOMAIN ps = 1..Len(ps) /\ DOMAIN procs' = 1..(Len(ps) + 1)
      /\ procs'[Len(ps) + 1] = Fresh(st) /\ \A q \in DOMAIN ps : procs'[q] = ps[q]
  BY <1>5, <1>6, Extended
<1> QED BY <1>2, <1>4, <1>5, <1>6, <1>7 DEF Started

-----------------------------------------------------------------------------
(* The steps, by what they do to processes and to the reloads that wait.    *)

(* Nobody waits for anything else.                                          *)
SameWaits ==
    /\ DOMAIN jobs' = DOMAIN jobs /\ Waiting' = Waiting
    /\ \A j \in Waiting : jobs'[j].on = jobs[j].on

(* Vite's watcher does not come or go.                                      *)
WatchSame == plugin = "vite" => watching' = watching

(* A process goes on with its life.                                         *)
Ages(p) ==
    /\ ~exited /\ procs[p].st \in {"spawned", "built", "serving"}
    /\ \E st \in {"built", "serving", "dead", "reaped"} :
          /\ Edited(procs, p, st, procs[p].sig, procs')
          /\ st = "reaped" => procs[p].sig = "left"
    /\ UNCHANGED <<goProcess, jobs, quitVars, watching, timer>>

(* No process and no wait changes.                                          *)
Aside ==
    /\ ~exited /\ UNCHANGED <<procs, goProcess, quitVars>> /\ SameWaits
    /\ plugin = "vite" => watching' = watching \/ (~watching' /\ ~timer')
    /\ timer' => timer \/ watching

(* The plugin's process ends: it knows no server, or it just told it to end *)
(* or handled its end.                                                      *)
Ends ==
    /\ ~exited /\ exited' = TRUE /\ SameWaits /\ UNCHANGED quitOn
    /\ procs' \in Seq(Procs) /\ DOMAIN procs' = DOMAIN procs /\ goProcess' \in {0, goProcess}
    /\ calm => \/ ~HasToStop /\ UNCHANGED procs
               \/ /\ HasToStop
                  /\ Edited(procs, goProcess, procs[goProcess].st, "TERM", procs')
               \/ \E p \in quitOn :
                     procs[p].st = "dead" /\ Edited(procs, p, "reaped", "none", procs')

(* It ends before Next.js has installed its handlers.                       *)
QuitsEarly ==
    /\ ~exited /\ exited' = TRUE /\ ~HandlersOn
    /\ UNCHANGED <<procs, goProcess, jobs, quitOn, watching, timer>>

(* The known server ended, and is forgotten as nobody is there to signal.   *)
Forgets ==
    ~calm /\ ~exited /\ goProcess' = 0 /\ UNCHANGED <<procs, jobs, quitVars>>

(* The known server is told to end; a new reload, a signal handler or       *)
(* nobody waits for that.                                                   *)
StopsIt ==
    /\ ~exited /\ HasToStop /\ goProcess' = 0 /\ ~timer' /\ UNCHANGED exited
    /\ Edited(procs, goProcess, procs[goProcess].st, "TERM", procs')
    /\ \/ /\ Waiting' = Waiting \cup {Len(jobs) + 1} /\ Len(jobs) + 1 \notin Waiting
          /\ jobs'[Len(jobs) + 1].on = goProcess
          /\ \A j \in Waiting : jobs'[j].on = jobs[j].on
          /\ UNCHANGED quitOn /\ WatchSame
       \/ UNCHANGED jobs /\ quitOn' = quitOn \cup {goProcess} /\ WatchSame
       \/ UNCHANGED <<jobs, quitOn>> /\ plugin = "vite" /\ ~watching'

(* A reload finds no server to signal, and starts one.                      *)
StartsIt ==
    /\ ~exited /\ (calm => ~HasToStop) /\ timer /\ (calm => BetweenReloads /\ quitOn = {})
    /\ \E js, j : Started(procs, js, j)
    /\ Waiting' = Waiting /\ \A j \in Waiting : jobs'[j].on = jobs[j].on
    /\ ~timer' /\ UNCHANGED <<quitVars, watching>>

(* The wait for process p is over, after which the processes are ps.        *)
Settles(p, ps, go) ==
    /\ ~exited /\ p \notin quitOn
    /\ \/ \E j \in Waiting :
             /\ jobs[j].on = p /\ Started(ps, jobs, j)
             /\ Waiting' = Waiting \ {j} /\ \A i \in Waiting \ {j} : jobs'[i].on = jobs[i].on
       \/ /\ \A j \in Waiting : jobs[j].on # p
          /\ procs' = ps /\ goProcess' = go /\ UNCHANGED jobs
    /\ UNCHANGED <<quitVars, watching, timer>>

Reaps(p) ==
    /\ procs[p].st = "dead"
    /\ \E ps : Edited(procs, p, "reaped", "none", ps) /\ Settles(p, ps, 0)

Kills(p) ==
    /\ ~calm /\ procs[p].sig = "TERM"
    /\ \E ps : Edited(procs, p, "dead", "KILL", ps) /\ Settles(p, ps, goProcess)

(* The "go run" of p exits before its server.                               *)
Parts(p) ==
    /\ ~calm /\ procs[p].sig = "TERM"
    /\ \E ps : Edited(procs, p, procs[p].st, "left", ps) /\ Settles(p, ps, 0)

Kind ==
    \/ Aside \/ Ends \/ QuitsEarly \/ Forgets \/ StopsIt \/ StartsIt
    \/ \E p \in DOMAIN procs : Ages(p) \/ Reaps(p) \/ Kills(p) \/ Parts(p)

(* A change of one reload that neither was nor is waiting.                  *)
LEMMA WaitFacts ==
    ASSUME jobs \in Seq(Jobs), DOMAIN jobs' = DOMAIN jobs, NEW j \in DOMAIN jobs,
           jobs[j].pc # "stopping", jobs'[j].pc # "stopping",
           \A i \in DOMAIN jobs : i # j => jobs'[i] = jobs[i]
    PROVE  SameWaits
BY DEF SameWaits, Waiting

(* The server that is known.                                                *)
LEMMA KnownFacts ==
    ASSUME TypeOK
    PROVE  /\ HasToStop <=> goProcess # 0 /\ procs[goProcess].st # "failed"
           /\ HasToStop => goProcess \in DOMAIN procs /\ goProcess \in Nat \ {0}
           /\ Known = IF HasToStop THEN {goProcess} ELSE {}
           /\ DOMAIN procs = 1..Len(procs) /\ Len(procs) \in Nat
           /\ goProcess \in Nat
<1>1. /\ DOMAIN procs = 1..Len(procs) /\ Len(procs) \in Nat
      /\ goProcess \in {0} \cup DOMAIN procs
  BY DEF TypeOK
<1> QED BY <1>1 DEF HasToStop, Known

(* What stop() does if there is a server to stop.                           *)
LEMMA StopFacts ==
    ASSUME TypeOK, HasToStop, stop
    PROVE  Edited(procs, goProcess, procs[goProcess].st, "TERM", procs') /\ goProcess' = 0
<1>1. goProcess \in DOMAIN procs /\ procs \in Seq(Procs) /\ "TERM" \in Signals
  BY KnownFacts DEF TypeOK, Signals
<1>2. procs' = [procs EXCEPT ![goProcess].sig = "TERM"] /\ goProcess' = 0
  BY DEF stop, Signalled
<1>3. Edited(procs, goProcess, procs[goProcess].st, "TERM", [procs EXCEPT ![goProcess].sig = "TERM"])
  BY <1>1, SignalledFacts
<1> QED BY <1>2, <1>3

(* What the end of the plugin's process does to the known server.           *)
LEMMA ExitFacts ==
    ASSUME TypeOK, Exit(procs, goProcess)
    PROVE  /\ exited'
           /\ \/ ~HasToStop /\ UNCHANGED procs
              \/ HasToStop /\ Edited(procs, goProcess, procs[goProcess].st, "TERM", procs')
<1>1. CASE ~HasToStop
  BY <1>1, KnownFacts DEF Exit, forceKill
<1>2. CASE HasToStop
  <2>1. goProcess \in DOMAIN procs /\ procs \in Seq(Procs) /\ "TERM" \in Signals
    BY <1>2, KnownFacts DEF TypeOK, Signals
  <2>2. procs' = [procs EXCEPT ![goProcess].sig = "TERM"] /\ exited'
    BY <1>2, KnownFacts DEF Exit, forceKill
  <2>3. Edited(procs, goProcess, procs[goProcess].st, "TERM", [procs EXCEPT ![goProcess].sig = "TERM"])
    BY <2>1, SignalledFacts
  <2> QED BY <1>2, <2>2, <2>3
<1> QED BY <1>1, <1>2

(* What Resolve does after process p was brought into ps.                   *)
LEMMA ResolveFacts ==
    ASSUME TypeOK, ~exited, NEW p \in DOMAIN procs, NEW ps \in Seq(Procs), NEW go,
           p \notin quitOn, Resolve(ps, p, go), UNCHANGED <<watching, timer, quitOn>>
    PROVE  Settles(p, ps, go)
<1>1. CASE \E j \in DOMAIN jobs : jobs[j].pc = "stopping" /\ jobs[j].on = p
             /\ StartAndExtract(ps, jobs, j)
  <2>1. PICK j \in DOMAIN jobs : jobs[j].pc = "stopping" /\ jobs[j].on = p
             /\ StartAndExtract(ps, jobs, j)
    BY <1>1
  <2>2. jobs \in Seq(Jobs) /\ dts \in Nat
    BY DEF TypeOK
  <2>3. Started(ps, jobs, j)
    BY <2>1, <2>2, StartFacts
  <2>4. Waiting' = Waiting \ {j} /\ \A i \in Waiting \ {j} : jobs'[i].on = jobs[i].on
    BY <2>1, <2>3 DEF Waiting, Started
  <2>5. j \in Waiting
    BY <2>1 DEF Waiting
  <2>6. exited' = exited
    BY <1>1, <2>1 DEF Resolve
  <2> QED BY <2>1, <2>3, <2>4, <2>5, <2>6 DEF Settles, quitVars
<1>2. CASE /\ \A j \in DOMAIN jobs : ~(jobs[j].pc = "stopping" /\ jobs[j].on = p)
           /\ procs' = ps /\ goProcess' = go /\ UNCHANGED <<jobs, exited>>
  BY <1>2 DEF Settles, Waiting, quitVars
<1> QED BY <1>1, <1>2 DEF Resolve

-----------------------------------------------------------------------------
(* Types. *)

(* The part of TypeOK that the processes and the reloads take.              *)
ProcTypes ==
    /\ jobs \in Seq(Jobs) /\ jobs # <<>> /\ \A j \in Waiting : jobs[j].on \in DOMAIN procs
    /\ procs \in Seq(Procs) /\ goProcess \in {0} \cup DOMAIN procs
    /\ quitOn \subseteq DOMAIN procs /\ exited \in BOOLEAN

(* The rest of it.                                                          *)
Others ==
    /\ plugin \in {"vite", "next"} /\ calm \in BOOLEAN
    /\ src \in SourceStates /\ edits \in 0..MaxEdits /\ missed \in BOOLEAN
    /\ watching \in BOOLEAN /\ timer \in BOOLEAN
    /\ dts \in Nat /\ files \in Files /\ files.openapi = dts

(* The two parts make up TypeOK.                                            *)
LEMMA TypeParts == TypeOK <=> ProcTypes /\ Others
BY DEF TypeOK, ProcTypes, Others, Waiting

(* And in the next state.                                                   *)
LEMMA TypePartsNext == ProcTypes' /\ Others' => TypeOK'
BY DEF TypeOK, ProcTypes, Others, Waiting

(* The types are right at first.                                            *)
LEMMA InitTyped == Init => TypeOK
<1> SUFFICES ASSUME Init PROVE TypeOK
  OBVIOUS
<1>1. PICK st \in {"spawned", "failed"} : procs = <<Fresh(st)>>
  BY DEF Init
<1>2. procs \in Seq(Procs) /\ DOMAIN procs = {1}
  BY <1>1, EntryFacts DEF States
<1>3. PICK pc \in {"waiting", "extracting"} : jobs = <<Job(pc, 0)>>
  BY DEF Init
<1>4. jobs \in Seq(Jobs) /\ Waiting = {}
  BY <1>3, EntryFacts DEF Waiting
<1>5. ProcTypes
  BY <1>2, <1>4 DEF ProcTypes, Init
<1>6. NoFiles \in Files /\ NoFiles.openapi = 0
  BY DEF NoFiles, Files
<1>7. plugin \in {"vite", "next"} /\ calm \in BOOLEAN /\ src \in SourceStates /\ MaxEdits \in Nat
  BY DevAssumption DEF Init
<1>9. watching \in BOOLEAN /\ timer \in BOOLEAN /\ missed \in BOOLEAN
  BY Zenon DEF Init
<1>8. Others
  BY <1>6, <1>7, <1>9 DEF Others, Init
<1> QED BY <1>5, <1>8, TypeParts

(* A step of one of the kinds keeps the types of processes and reloads.     *)
LEMMA KindTyped ==
    ASSUME TypeOK, jobs' \in Seq(Jobs), jobs' # <<>>, Kind
    PROVE  ProcTypes'
<1>0. /\ ProcTypes /\ DOMAIN procs = 1..Len(procs) /\ Len(procs) \in Nat
      /\ goProcess \in Nat
      /\ HasToStop => goProcess \in DOMAIN procs
  BY TypeParts, KnownFacts
<1>1. CASE Aside
  BY <1>0, <1>1 DEF Aside, SameWaits, quitVars, ProcTypes
<1>7. CASE Ends
  BY <1>0, <1>7 DEF Ends, SameWaits, ProcTypes
<1>2. CASE StopsIt
  <2>1. procs' \in Seq(Procs) /\ DOMAIN procs' = DOMAIN procs /\ goProcess \in DOMAIN procs
        /\ goProcess' = 0 /\ exited' \in BOOLEAN
    BY <1>0, <1>2 DEF StopsIt, Edited, ProcTypes
  <2>2. \A j \in Waiting' : jobs'[j].on \in DOMAIN procs
    <3>1. CASE UNCHANGED jobs
      BY <1>0, <3>1 DEF ProcTypes, Waiting
    <3>2. CASE ~UNCHANGED jobs
      BY <1>0, <1>2, <2>1, <3>2 DEF ProcTypes, StopsIt
    <3> QED BY <3>1, <3>2
  <2>3. quitOn' \subseteq DOMAIN procs
    BY <1>0, <1>2, <2>1 DEF ProcTypes, StopsIt
  <2> QED BY <2>1, <2>2, <2>3 DEF ProcTypes
<1>3. CASE StartsIt
  <2>1. PICK js, j : Started(procs, js, j)
    BY <1>3 DEF StartsIt
  <2>2. procs' \in Seq(Procs) /\ DOMAIN procs \subseteq DOMAIN procs' /\ goProcess' \in DOMAIN procs'
    BY <2>1 DEF Started
  <2> QED BY <1>0, <1>3, <2>2 DEF StartsIt, ProcTypes, quitVars
<1>4. ASSUME NEW p \in DOMAIN procs, Ages(p) PROVE ProcTypes'
  BY <1>0, <1>4 DEF Ages, Edited, ProcTypes, quitVars, Waiting
<1>5. ASSUME NEW p \in DOMAIN procs, NEW ps, NEW go \in {0, goProcess}, Settles(p, ps, go),
             ps \in Seq(Procs), DOMAIN ps = DOMAIN procs, Len(ps) = Len(procs)
      PROVE  ProcTypes'
  <2>1. CASE /\ procs' = ps /\ goProcess' = go /\ UNCHANGED jobs
    BY <1>0, <1>5, <2>1 DEF Settles, ProcTypes, quitVars, Waiting
  <2>2. ASSUME NEW j \in Waiting,
               /\ jobs[j].on = p /\ Started(ps, jobs, j)
               /\ Waiting' = Waiting \ {j} /\ \A i \in Waiting \ {j} : jobs'[i].on = jobs[i].on
        PROVE  ProcTypes'
    <3>1. procs' \in Seq(Procs) /\ DOMAIN procs \subseteq DOMAIN procs' /\ goProcess' \in DOMAIN procs'
      BY <1>0, <1>5, <2>2 DEF Started
    <3>2. UNCHANGED quitVars
      BY <1>5 DEF Settles
    <3> QED BY <1>0, <2>2, <3>1, <3>2 DEF ProcTypes, quitVars
  <2> QED BY <1>5, <2>1, <2>2 DEF Settles
<1>6. ASSUME NEW p \in DOMAIN procs, Reaps(p) \/ Kills(p) \/ Parts(p) PROVE ProcTypes'
  BY <1>5, <1>6 DEF Reaps, Kills, Parts, Edited
<1>8. CASE QuitsEarly
  BY <1>0, <1>8 DEF QuitsEarly, ProcTypes, Waiting
<1>9. CASE Forgets
  BY <1>0, <1>9 DEF Forgets, ProcTypes, Waiting, quitVars
<1> QED BY <1>1, <1>2, <1>3, <1>4, <1>6, <1>7, <1>8, <1>9 DEF Kind

(* t is js with reload j brought into another state.                        *)
Moved(js, j, pc, t) ==
    /\ t \in Seq(Jobs) /\ DOMAIN t = DOMAIN js /\ t[j].pc = pc
    /\ \A i \in DOMAIN js : i # j => t[i] = js[i]

(* A reload whose state alone changes (buildStart).                         *)
LEMMA PcFacts ==
    ASSUME NEW js \in Seq(Jobs), NEW j \in DOMAIN js, NEW x \in {"extracting", "done"}
    PROVE  Moved(js, j, x, [js EXCEPT ![j].pc = x])
<1>1. js[j] \in Jobs
  OBVIOUS
<1> DEFINE v == [js[j] EXCEPT !.pc = x]
<1>2. v \in Jobs /\ v.pc = x
  BY <1>1 DEF Jobs
<1> DEFINE t == [js EXCEPT ![j].pc = x]
<1>3. t = [js EXCEPT ![j] = v]
  OBVIOUS
<1> HIDE DEF v, t
<1>4. Moved(js, j, x, t)
  BY <1>2, <1>3, Replaced DEF Moved
<1> QED BY <1>4 DEF t

(* A reload that has extracted the specifications (Extract).                *)
LEMMA NewFacts ==
    ASSUME NEW js \in Seq(Jobs), NEW j \in DOMAIN js, NEW n \in Files
    PROVE  Moved(js, j, "generating", [js EXCEPT ![j].pc = "generating", ![j].new = n])
<1>1. js[j] \in Jobs
  OBVIOUS
<1> DEFINE v == [js[j] EXCEPT !.pc = "generating", !.new = n]
<1>2. v \in Jobs /\ v.pc = "generating"
  BY <1>1 DEF Jobs
<1> DEFINE t == [js EXCEPT ![j].pc = "generating", ![j].new = n]
<1>3. t = [js EXCEPT ![j] = v]
  OBVIOUS
<1> HIDE DEF v, t
<1>4. Moved(js, j, "generating", t)
  BY <1>2, <1>3, Replaced DEF Moved
<1> QED BY <1>4 DEF t

(* Steps of a reload that neither starts nor ends a wait.                   *)
LEMMA JobAside ==
    ASSUME TypeOK, NEW j \in DOMAIN jobs, jobs[j].pc # "stopping", jobs'[j].pc # "stopping",
           jobs' \in Seq(Jobs), DOMAIN jobs' = DOMAIN jobs,
           \A i \in DOMAIN jobs : i # j => jobs'[i] = jobs[i]
    PROVE  jobs' # <<>> /\ SameWaits
<1>1. jobs \in Seq(Jobs) /\ jobs # <<>>
  BY DEF TypeOK
<1> QED BY <1>1, WaitFacts

(* Vite's watcher is there before the first generation (WatcherOn).         *)
LEMMA WatcherStays ==
    ASSUME TypeOK, NEW j, WatcherOn(j)
    PROVE  WatchSame
<1>1. watching \in BOOLEAN
  BY DEF TypeOK
<1>2. watching' = (watching \/ (plugin = "next" /\ j = 1))
  BY DEF WatcherOn
<1>3. plugin = "vite" => plugin # "next"
  OBVIOUS
<1> QED BY <1>1, <1>2, <1>3, Zenon DEF WatchSame

(* The steps of a reload after its server was started.                      *)
LEMMA LoopKinds ==
    ASSUME TypeOK, NEW j \in DOMAIN jobs, buildStart \/ Extract(j) \/ Commit(j)
    PROVE  jobs' \in Seq(Jobs) /\ jobs' # <<>> /\ Kind
<1>0. /\ procs \in Seq(Procs) /\ jobs \in Seq(Jobs) /\ dts \in Nat /\ quitOn \subseteq DOMAIN procs
      /\ DOMAIN jobs = 1..Len(jobs) /\ Len(jobs) \in Nat /\ jobs # <<>> /\ 1 \in DOMAIN jobs
      /\ Done \in Jobs /\ Done.pc = "done"
  BY EntryFacts DEF TypeOK
<1>1. CASE buildStart
  <2>1. jobs[1].pc = "waiting" /\ jobs' = [jobs EXCEPT ![1].pc = "extracting"]
    BY <1>1 DEF buildStart
  <2>2. Moved(jobs, 1, "extracting", [jobs EXCEPT ![1].pc = "extracting"])
    BY <1>0, PcFacts
  <2>3. /\ jobs' \in Seq(Jobs) /\ DOMAIN jobs' = DOMAIN jobs /\ jobs'[1].pc = "extracting"
        /\ \A i \in DOMAIN jobs : i # 1 => jobs'[i] = jobs[i]
    BY <2>1, <2>2 DEF Moved
  <2>4. jobs' # <<>> /\ SameWaits
    BY <1>0, <2>1, <2>3, JobAside
  <2>5. Aside
    BY <1>1, <2>4 DEF Aside, buildStart, Free, quitVars, WatchSame
  <2> QED BY <2>3, <2>4, <2>5 DEF Kind
<1>2. CASE Extract(j)
  <2>1. ~exited /\ jobs[j].pc = "extracting" /\ UNCHANGED <<timer, goProcess, quitOn, plugin>>
    BY <1>2 DEF Extract, envVars
  <2>2. CASE /\ src.builds
             /\ jobs' = [jobs EXCEPT ![j].pc = "generating",
                                  ![j].new = [openapi |-> src.openapi, asyncapi |-> src.asyncapi]]
             /\ UNCHANGED <<procs, exited, watching>>
    <3> DEFINE n == [openapi |-> src.openapi, asyncapi |-> src.asyncapi]
    <3>1. n \in Files
      BY DEF TypeOK, SourceStates, Files
    <3>2. jobs' = [jobs EXCEPT ![j].pc = "generating", ![j].new = n]
      BY <2>2
    <3> HIDE DEF n
    <3>6. Moved(jobs, j, "generating", [jobs EXCEPT ![j].pc = "generating", ![j].new = n])
      BY <1>0, <3>1, NewFacts
    <3>3. /\ jobs' \in Seq(Jobs) /\ DOMAIN jobs' = DOMAIN jobs /\ jobs'[j].pc = "generating"
          /\ \A i \in DOMAIN jobs : i # j => jobs'[i] = jobs[i]
      BY <3>2, <3>6 DEF Moved
    <3>4. jobs' # <<>> /\ SameWaits
      BY <2>1, <3>3, JobAside
    <3>5. Aside
      BY <2>1, <2>2, <3>4 DEF Aside, quitVars, WatchSame
    <3> QED BY <3>3, <3>4, <3>5 DEF Kind
  <2>3. CASE /\ ~src.builds
             /\ jobs' = [jobs EXCEPT ![j] = Done]
             /\ IF plugin = "vite" /\ j = 1
                THEN Exit(procs, goProcess) ELSE UNCHANGED <<procs, exited>>
             /\ WatcherOn(j)
    <3>1. /\ jobs' \in Seq(Jobs) /\ DOMAIN jobs' = DOMAIN jobs /\ jobs'[j].pc = "done"
          /\ \A i \in DOMAIN jobs : i # j => jobs'[i] = jobs[i]
      BY <1>0, <2>3, Replaced
    <3>2. jobs' # <<>> /\ SameWaits
      BY <2>1, <3>1, JobAside
    <3>3. CASE plugin = "vite" /\ j = 1
      <4>1. /\ exited'
            /\ \/ ~HasToStop /\ UNCHANGED procs
               \/ HasToStop /\ Edited(procs, goProcess, procs[goProcess].st, "TERM", procs')
        BY <2>3, <3>3, ExitFacts
      <4>2. exited' = TRUE
        BY <2>3, <3>3 DEF Exit
      <4>3. procs' \in Seq(Procs) /\ DOMAIN procs' = DOMAIN procs
        BY <1>0, <4>1 DEF Edited
      <4>4. Ends
        BY <2>1, <3>2, <4>1, <4>2, <4>3 DEF Ends
      <4> QED BY <3>1, <3>2, <4>4 DEF Kind
    <3>4. CASE ~(plugin = "vite" /\ j = 1)
      <4>1. Aside
        BY <2>1, <2>3, <3>2, <3>4, WatcherStays DEF Aside, quitVars, WatchSame
      <4> QED BY <3>1, <3>2, <4>1 DEF Kind
    <3> QED BY <3>3, <3>4
  <2> QED BY <1>2, <2>2, <2>3 DEF Extract
<1>3. CASE Commit(j)
  <2>1. jobs[j].pc = "generating" /\ jobs' = [jobs EXCEPT ![j] = Done]
    BY <1>3 DEF Commit
  <2>2. /\ jobs' \in Seq(Jobs) /\ DOMAIN jobs' = DOMAIN jobs /\ jobs'[j].pc = "done"
        /\ \A i \in DOMAIN jobs : i # j => jobs'[i] = jobs[i]
    BY <1>0, <2>1, Replaced
  <2>3. jobs' # <<>> /\ SameWaits
    BY <2>1, <2>2, JobAside
  <2>4. Aside
    BY <1>3, <2>3, WatcherStays DEF Aside, Commit, Free, quitVars, envVars, WatchSame
  <2> QED BY <2>2, <2>3, <2>4 DEF Kind
<1> QED BY <1>1, <1>2, <1>3

(* The debounce delay is over: a server is told to end, or started.         *)
LEMMA DebounceKinds ==
    ASSUME TypeOK, DebounceFires
    PROVE  jobs' \in Seq(Jobs) /\ jobs' # <<>> /\ Kind
<1>4. goProcess \in Nat
  BY KnownFacts
<1>5. /\ Job("stopping", 0) \in Jobs /\ Job("stopping", goProcess) \in Jobs
      /\ Job("stopping", goProcess).pc = "stopping" /\ Job("stopping", goProcess).on = goProcess
  BY <1>4, EntryFacts
<1>0. /\ procs \in Seq(Procs) /\ jobs \in Seq(Jobs) /\ dts \in Nat
      /\ DOMAIN jobs = 1..Len(jobs) /\ Len(jobs) \in Nat
  BY DEF TypeOK
<1>1. /\ ~exited /\ timer /\ (calm => BetweenReloads /\ quitOn = {}) /\ timer' = FALSE
      /\ UNCHANGED <<quitVars, watching>>
  BY DEF DebounceFires, Free
<1>2. CASE (~HasToStop \/ KillFails) /\ StartAndExtract(procs, Append(jobs, Job("stopping", 0)), Len(jobs) + 1)
  <2> DEFINE js == Append(jobs, Job("stopping", 0))
             k  == Len(jobs) + 1
  <2>1. js \in Seq(Jobs) /\ k \in DOMAIN js /\ DOMAIN js = 1..k
        /\ \A i \in DOMAIN jobs : js[i] = jobs[i]
    BY <1>0, <1>5, Extended
  <2>2. StartAndExtract(procs, js, k)
    BY <1>2
  <2> HIDE DEF js
  <2>3. Started(procs, js, k)
    BY <1>0, <2>1, <2>2, StartFacts
  <2>4. /\ jobs' \in Seq(Jobs) /\ DOMAIN jobs' = 1..k /\ jobs'[k].pc # "stopping"
        /\ \A i \in DOMAIN jobs : jobs'[i] = jobs[i]
    <3>1. \A i \in DOMAIN jobs : i \in DOMAIN js /\ i # k
      BY <1>0, <2>1
    <3> HIDE DEF k
    <3> QED BY <2>1, <2>3, <3>1 DEF Started
  <2>5. Waiting' = Waiting /\ \A j \in Waiting : jobs'[j].on = jobs[j].on
    BY <1>0, <2>4 DEF Waiting
  <2>6. StartsIt
    BY <1>1, <1>2, <2>3, <2>5 DEF StartsIt, KillFails
  <2> QED BY <1>0, <2>4, <2>6 DEF Kind
<1>3. CASE HasToStop /\ stop /\ jobs' = Append(jobs, Job("stopping", goProcess))
  <2>1. stop /\ jobs' = Append(jobs, Job("stopping", goProcess))
    BY <1>3
  <2>2. /\ jobs' \in Seq(Jobs) /\ DOMAIN jobs' = 1..(Len(jobs) + 1)
        /\ jobs'[Len(jobs) + 1] = Job("stopping", goProcess)
        /\ \A i \in DOMAIN jobs : jobs'[i] = jobs[i]
    BY <1>0, <1>5, <2>1, Extended
  <2>3. /\ Waiting' = Waiting \cup {Len(jobs) + 1} /\ Len(jobs) + 1 \notin Waiting
        /\ jobs'[Len(jobs) + 1].on = goProcess
        /\ \A j \in Waiting : jobs'[j].on = jobs[j].on
    BY <1>0, <1>5, <2>2 DEF Waiting
  <2>4. Edited(procs, goProcess, procs[goProcess].st, "TERM", procs') /\ goProcess' = 0
    BY <1>3, <2>1, StopFacts
  <2>5. StopsIt
    BY <1>1, <1>3, <2>3, <2>4 DEF StopsIt, quitVars, WatchSame
  <2> QED BY <1>0, <2>2, <2>5 DEF Kind
<1> QED BY <1>2, <1>3 DEF DebounceFires

(* Neither the end of a process nor a timeout touches the reloads' types.   *)
LEMMA SettlesTyped ==
    ASSUME TypeOK, NEW p, NEW ps, NEW go, Settles(p, ps, go)
    PROVE  jobs' \in Seq(Jobs) /\ jobs' # <<>>
<1>1. jobs \in Seq(Jobs) /\ jobs # <<>>
  BY DEF TypeOK
<1> QED BY <1>1 DEF Settles, Started

(* The exit of a "go run" is noticed: its waiter goes on.                   *)
LEMMA ExitKinds ==
    ASSUME TypeOK, NEW p \in DOMAIN procs, ExitEvent(p)
    PROVE  jobs' \in Seq(Jobs) /\ jobs' # <<>> /\ Kind
<1>0. /\ procs \in Seq(Procs) /\ jobs \in Seq(Jobs) /\ jobs # <<>>
      /\ Edited(procs, p, "reaped", "none", Reaped(p)) /\ Reaped(p) \in Seq(Procs)
      /\ Edited(procs, p, procs[p].st, "left", Left(p)) /\ Left(p) \in Seq(Procs)
  BY ReapedFacts, LeftFacts DEF TypeOK, Edited
<1>1. ~exited /\ UNCHANGED <<watching, timer, quitOn>>
  BY DEF ExitEvent, Free
<1>4. ASSUME NEW ps \in Seq(Procs), Resolve(ps, p, 0), p \in quitOn
      PROVE  exited' = TRUE /\ procs' = ps /\ goProcess' = 0 /\ UNCHANGED jobs /\ SameWaits
  <2>1. Exit(ps, 0) /\ goProcess' = 0 /\ UNCHANGED jobs
    BY <1>4 DEF Resolve
  <2> QED BY <2>1 DEF Exit, forceKill, SameWaits, Waiting
<1>2. CASE procs[p].st = "dead" /\ Resolve(Reaped(p), p, 0)
  <2>1. CASE p \in quitOn
    <3>1. exited' = TRUE /\ procs' = Reaped(p) /\ goProcess' = 0 /\ UNCHANGED jobs /\ SameWaits
      BY <1>0, <1>2, <1>4, <2>1
    <3>2. Ends
      BY <1>0, <1>1, <1>2, <2>1, <3>1 DEF Ends, Edited
    <3> QED BY <1>0, <3>1, <3>2 DEF Kind
  <2>2. CASE p \notin quitOn
    <3>1. Settles(p, Reaped(p), 0)
      BY <1>0, <1>1, <1>2, <2>2, ResolveFacts
    <3>2. Reaps(p)
      BY <1>0, <1>2, <3>1 DEF Reaps
    <3> QED BY <3>1, <3>2, SettlesTyped DEF Kind
  <2> QED BY <2>1, <2>2
<1>3. CASE ~calm /\ procs[p].sig = "TERM" /\ Resolve(Left(p), p, 0)
  <2>1. CASE p \in quitOn
    <3>1. exited' = TRUE /\ procs' = Left(p) /\ goProcess' = 0 /\ UNCHANGED jobs /\ SameWaits
      BY <1>0, <1>3, <1>4, <2>1
    <3>2. Ends
      BY <1>0, <1>1, <1>3, <2>1, <3>1 DEF Ends, Edited
    <3> QED BY <1>0, <3>1, <3>2 DEF Kind
  <2>2. CASE p \notin quitOn
    <3>1. Settles(p, Left(p), 0)
      BY <1>0, <1>1, <1>3, <2>2, ResolveFacts
    <3>2. Parts(p)
      BY <1>0, <1>3, <3>1 DEF Parts
    <3> QED BY <3>1, <3>2, SettlesTyped DEF Kind
  <2> QED BY <2>1, <2>2
<1> QED BY <1>2, <1>3 DEF ExitEvent

(* A process that did not end in time is killed: its waiter goes on.        *)
LEMMA TimeoutKinds ==
    ASSUME TypeOK, NEW p \in DOMAIN procs, KillTimeout(p)
    PROVE  jobs' \in Seq(Jobs) /\ jobs' # <<>> /\ Kind
<1>0. /\ procs \in Seq(Procs) /\ jobs \in Seq(Jobs) /\ jobs # <<>>
      /\ Edited(procs, p, "dead", "KILL", Killed(p))
      /\ Killed(p) \in Seq(Procs) /\ DOMAIN Killed(p) = DOMAIN procs
      /\ goProcess \in {0} \cup DOMAIN procs
  BY KilledFacts DEF TypeOK, Edited
<1>1. /\ ~exited /\ ~calm /\ procs[p].sig = "TERM" /\ Resolve(Killed(p), p, goProcess)
      /\ UNCHANGED <<watching, timer, quitOn>>
  BY DEF KillTimeout, Free
<1>2. CASE p \in quitOn
  <2>1. Exit(Killed(p), goProcess) /\ UNCHANGED <<jobs, goProcess>>
    BY <1>1, <1>2 DEF Resolve
  <2> DEFINE ps == Killed(p)
  <2> HIDE DEF ps
  <2>2. exited' = TRUE /\ procs' = forceKill(ps, goProcess)
    BY <2>1 DEF Exit, ps
  <2>3. ps \in Seq(Procs) /\ DOMAIN ps = DOMAIN procs
    BY <1>0 DEF ps
  <2>4. procs' \in Seq(Procs) /\ DOMAIN procs' = DOMAIN procs
    <3>1. CASE goProcess = 0 \/ ps[goProcess].st = "failed"
      BY <2>2, <2>3, <3>1 DEF forceKill
    <3>2. CASE ~(goProcess = 0 \/ ps[goProcess].st = "failed")
      <4>1. procs' = [ps EXCEPT ![goProcess].sig = "TERM"]
        BY <2>2, <3>2 DEF forceKill
      <4>2. Edited(ps, goProcess, ps[goProcess].st, "TERM", [ps EXCEPT ![goProcess].sig = "TERM"])
        BY <1>0, <2>3, <3>2, SignalledFacts DEF Signals
      <4> QED BY <2>3, <4>1, <4>2 DEF Edited
    <3> QED BY <3>1, <3>2
  <2>5. SameWaits
    BY <2>1 DEF SameWaits, Waiting
  <2>6. Ends
    BY <1>1, <2>1, <2>2, <2>4, <2>5 DEF Ends
  <2> QED BY <1>0, <2>1, <2>6 DEF Kind
<1>3. CASE p \notin quitOn
  <2>1. Settles(p, Killed(p), goProcess)
    BY <1>0, <1>1, <1>3, ResolveFacts
  <2>2. Kills(p)
    BY <1>0, <1>1, <2>1 DEF Kills
  <2> QED BY <2>1, <2>2, SettlesTyped DEF Kind
<1> QED BY <1>2, <1>3

(* The operating system's steps: one process goes on with its life.         *)
LEMMA SystemKinds ==
    ASSUME TypeOK, System
    PROVE  jobs' \in Seq(Jobs) /\ jobs' # <<>> /\ Kind
<1>0. procs \in Seq(Procs) /\ jobs \in Seq(Jobs) /\ jobs # <<>> /\ src \in SourceStates
  BY DEF TypeOK
<1>1. PICK p \in DOMAIN procs : Builds(p) \/ Listens(p) \/ Crashes(p) \/ Dies(p)
  BY DEF System
<1>2. ~exited /\ UNCHANGED <<goProcess, jobs, quitVars, watching, timer>>
  BY <1>1 DEF Builds, Listens, Crashes, Dies, ProcessStep
<1>3. procs[p].st \in {"spawned", "built", "serving"}
  BY <1>1 DEF Builds, Listens, Crashes, Dies, Alive
<1>4. Edited(procs, p, "dead", procs[p].sig, Dead(p))
  BY <1>0, DeadFacts
<1>10. ASSUME NEW st \in {"built", "serving", "dead"}, Edited(procs, p, st, procs[p].sig, procs')
       PROVE  Ages(p)
  <2>1. st \in {"built", "serving", "dead", "reaped"} /\ st # "reaped"
    OBVIOUS
  <2> QED BY <1>2, <1>3, <1>10, <2>1, Zenon DEF Ages
<1>11. ASSUME procs' = Ended(p) PROVE Ages(p)
  <2>1. PICK st \in {"dead", "reaped"} :
          /\ Edited(procs, p, st, procs[p].sig, Ended(p))
          /\ st = "reaped" => procs[p].sig = "left"
    BY <1>0, EndedFacts
  <2>2. st \in {"built", "serving", "dead", "reaped"}
    OBVIOUS
  <2>3. Edited(procs, p, st, procs[p].sig, procs')
    BY <1>11, <2>1
  <2> QED BY <1>2, <1>3, <2>1, <2>2, <2>3, Zenon DEF Ages
<1>5. ASSUME Builds(p) PROVE Ages(p)
  <2>1. Edited(procs, p, "built", procs[p].sig, [procs EXCEPT ![p].st = "built", ![p].from = src])
    BY <1>0, BuiltFacts DEF States
  <2>2. \/ procs' = [procs EXCEPT ![p].st = "built", ![p].from = src]
        \/ procs' = Dead(p)
    BY <1>5 DEF Builds
  <2>3. \/ Edited(procs, p, "built", procs[p].sig, procs')
        \/ Edited(procs, p, "dead", procs[p].sig, procs')
    BY <1>4, <2>1, <2>2, Zenon
  <2> QED BY <1>10, <2>3, Zenon
<1>6. ASSUME Listens(p) PROVE Ages(p)
  <2>1. Edited(procs, p, "serving", procs[p].sig, [procs EXCEPT ![p].st = "serving"])
    BY <1>0, StateFacts DEF States
  <2>2. \/ procs' = [procs EXCEPT ![p].st = "serving"]
        \/ procs' = Ended(p)
    BY <1>6 DEF Listens
  <2>3. \/ Edited(procs, p, "serving", procs[p].sig, procs')
        \/ procs' = Ended(p)
    BY <2>1, <2>2, Zenon
  <2> QED BY <1>10, <1>11, <2>3, Zenon
<1>7. ASSUME Crashes(p) PROVE Ages(p)
  <2>1. Edited(procs, p, "dead", procs[p].sig, [Dead(p) EXCEPT ![p].crashed = TRUE])
    BY <1>0, CrashedFacts
  <2>2. procs' = [Dead(p) EXCEPT ![p].crashed = TRUE]
    BY <1>7 DEF Crashes
  <2>3. Edited(procs, p, "dead", procs[p].sig, procs')
    BY <2>1, <2>2, Zenon
  <2> QED BY <1>10, <2>3, Zenon
<1>8. ASSUME Dies(p) PROVE Ages(p)
  BY <1>8, <1>11 DEF Dies
<1>9. Ages(p)
  BY <1>1, <1>5, <1>6, <1>7, <1>8, Zenon
<1> QED BY <1>0, <1>2, <1>9 DEF Kind

(* The user's steps: an edit, a signal, the end of vite's HTTP server.      *)
LEMMA UserKinds ==
    ASSUME TypeOK, User
    PROVE  jobs' \in Seq(Jobs) /\ jobs' # <<>> /\ Kind
<1>0. procs \in Seq(Procs) /\ jobs \in Seq(Jobs) /\ jobs # <<>>
  BY DEF TypeOK
<1>1. jobs' = jobs /\ SameWaits
  BY DEF User, Edit, Signal, EarlySignal, HttpClose, SameWaits, Waiting
<1>2. CASE Edit
  <2>1. /\ ~exited /\ UNCHANGED <<procs, goProcess, quitVars, watching>>
        /\ timer' => timer \/ watching
    BY <1>2 DEF Edit
  <2> QED BY <1>0, <1>1, <2>1 DEF Kind, Aside
<1>3. CASE Signal
  <2>1. ~exited /\ ~timer' /\ (plugin = "vite" => watching' = watching)
    <3>1. watching \in BOOLEAN
      BY DEF TypeOK
    <3>2. watching' = (watching /\ plugin = "vite")
      BY <1>3 DEF Signal
    <3>3. plugin = "vite" => watching' = watching
      BY <3>1, <3>2, Zenon
    <3> QED BY <1>3, <3>3 DEF Signal, Free
  <2>2. CASE /\ ~HasToStop \/ KillFails
             /\ exited' = TRUE /\ goProcess' = 0 /\ UNCHANGED <<quitOn, procs>>
    <3>2. Ends
      BY <1>0, <1>1, <2>1, <2>2 DEF Ends, KillFails
    <3> QED BY <1>0, <1>1, <3>2 DEF Kind
  <2>3. CASE HasToStop /\ stop /\ quitOn' = quitOn \cup {goProcess} /\ UNCHANGED exited
    <3>1. stop /\ quitOn' = quitOn \cup {goProcess} /\ UNCHANGED exited
      BY <2>3
    <3>2. Edited(procs, goProcess, procs[goProcess].st, "TERM", procs') /\ goProcess' = 0
      BY <2>3, <3>1, StopFacts
    <3>3. StopsIt
      BY <1>1, <2>1, <2>3, <3>1, <3>2 DEF StopsIt, WatchSame
    <3> QED BY <1>0, <1>1, <3>3 DEF Kind
  <2> QED BY <1>3, <2>2, <2>3 DEF Signal
<1>4. CASE EarlySignal
  <2>1. QuitsEarly
    BY <1>1, <1>4 DEF EarlySignal, Free, QuitsEarly
  <2> QED BY <1>0, <1>1, <2>1 DEF Kind
<1>5. CASE HttpClose
  <2>1. ~exited /\ plugin = "vite" /\ ~timer' /\ ~watching' /\ UNCHANGED quitVars
    BY <1>5 DEF HttpClose, Free
  <2>2. CASE ~HasToStop /\ UNCHANGED <<procs, goProcess>>
    <3>1. Aside
      BY <1>1, <2>1, <2>2 DEF Aside
    <3> QED BY <1>0, <1>1, <3>1 DEF Kind
  <2>3. CASE KillFails /\ goProcess' = 0 /\ UNCHANGED procs
    <3>1. Forgets
      BY <1>1, <2>1, <2>3 DEF Forgets, KillFails
    <3> QED BY <1>0, <1>1, <3>1 DEF Kind
  <2>4. CASE HasToStop /\ stop
    <3>2. Edited(procs, goProcess, procs[goProcess].st, "TERM", procs') /\ goProcess' = 0
      BY <2>4, StopFacts
    <3>3. StopsIt
      BY <1>1, <2>1, <2>4, <3>2 DEF StopsIt, quitVars
    <3> QED BY <1>0, <1>1, <3>3 DEF Kind
  <2> QED BY <1>5, <2>2, <2>3, <2>4 DEF HttpClose
<1> QED BY <1>2, <1>3, <1>4, <1>5 DEF User

(* Every step is of one of the kinds.                                       *)
LEMMA StepKinds ==
    ASSUME TypeOK, Next
    PROVE  jobs' \in Seq(Jobs) /\ jobs' # <<>> /\ Kind
<1>1. CASE Loop
  <2>0. 1 \in DOMAIN jobs
    BY DEF TypeOK
  <2>1. CASE buildStart
    BY <2>0, <2>1, LoopKinds
  <2> QED BY <1>1, <2>1, LoopKinds, DebounceKinds, ExitKinds, TimeoutKinds DEF Loop
<1> QED BY <1>1, SystemKinds, UserKinds DEF Next


(* What the processes and the waits do not take part in.                    *)
LEMMA OthersKept ==
    ASSUME TypeOK, Next
    PROVE  Others' /\ UNCHANGED <<plugin, calm>>
<1>1. Others /\ jobs \in Seq(Jobs) /\ MaxEdits \in Nat
  BY TypeParts, DevAssumption DEF TypeOK
<1>2. UNCHANGED <<plugin, calm>>
  BY DEF Next, Loop, System, User, buildStart, Extract, Commit, DebounceFires, ExitEvent,
         KillTimeout, Builds, Listens, Crashes, Dies, ProcessStep, Edit, Signal, EarlySignal,
         HttpClose, envVars
<1>3. plugin' \in {"vite", "next"} /\ calm' \in BOOLEAN
  BY <1>1, <1>2 DEF Others
<1>4. src' \in SourceStates /\ edits' \in 0..MaxEdits /\ missed' \in BOOLEAN
  <2>1. CASE Edit
    BY <1>1, <2>1, DevAssumption DEF Edit, Others
  <2>2. CASE UNCHANGED <<src, edits, missed>>
    BY <1>1, <2>2 DEF Others
  <2> QED
    BY <2>1, <2>2
    DEF Next, Loop, System, User, buildStart, Extract, Commit, DebounceFires, ExitEvent,
        KillTimeout, Builds, Listens, Crashes, Dies, ProcessStep, Signal, EarlySignal,
        HttpClose, sourceVars
<1>5. watching' \in BOOLEAN
  <2>1. watching' = watching \/ watching' \in BOOLEAN
    <3>1. ASSUME NEW j, WatcherOn(j) PROVE watching' \in BOOLEAN
      BY <3>1, Zenon DEF WatcherOn
    <3>2. CASE Signal
      BY <3>2, Zenon DEF Signal
    <3>3. CASE ~Signal
      BY <3>1, <3>3
      DEF Next, Loop, System, User, buildStart, Extract, Commit, DebounceFires, ExitEvent,
          KillTimeout, Builds, Listens, Crashes, Dies, ProcessStep, Edit, EarlySignal, HttpClose
    <3> QED BY <3>2, <3>3
  <2> QED BY <1>1, <2>1 DEF Others
<1>6. timer' \in BOOLEAN
  <2>1. timer' = timer \/ timer' \in BOOLEAN
    <3>1. CASE Edit
      BY <3>1, Zenon DEF Edit
    <3>2. CASE ~Edit
      BY <3>2
      DEF Next, Loop, System, User, buildStart, Extract, Commit, DebounceFires, ExitEvent,
          KillTimeout, Builds, Listens, Crashes, Dies, ProcessStep, Signal, EarlySignal, HttpClose
    <3> QED BY <3>1, <3>2
  <2> QED BY <1>1, <2>1 DEF Others
<1>7. dts' \in Nat /\ files' \in Files /\ files'.openapi = dts'
  <2>1. ASSUME NEW j \in DOMAIN jobs, dts' = jobs[j].new.openapi, files' = jobs[j].new
        PROVE  dts' \in Nat /\ files' \in Files /\ files'.openapi = dts'
    <3>1. jobs[j] \in Jobs
      BY <1>1
    <3>2. jobs[j].new \in Files
      BY <3>1 DEF Jobs
    <3> QED BY <2>1, <3>2 DEF Files
  <2>2. \/ UNCHANGED <<dts, files>>
        \/ \E j \in DOMAIN jobs : dts' = jobs[j].new.openapi /\ files' = jobs[j].new
    BY DEF Next, Loop, System, User, buildStart, Extract, Commit, DebounceFires, ExitEvent,
           KillTimeout, Builds, Listens, Crashes, Dies, ProcessStep, Edit, Signal, EarlySignal,
           HttpClose, typeVars
  <2> QED BY <1>1, <2>1, <2>2 DEF Others
<1> QED BY <1>2, <1>3, <1>4, <1>5, <1>6, <1>7 DEF Others

-----------------------------------------------------------------------------
(* The invariant. *)

Ending(r) == r.sig = "TERM" /\ r.st # "reaped"

(* Whoever waits, waits alone for a process that is ending; the known one   *)
(* was not told to, unless it never started, and its exit is not handled.   *)
Apart ==
    /\ \A i, j \in Waiting : jobs[i].on = jobs[j].on => i = j
    /\ \A j \in Waiting : jobs[j].on \notin quitOn /\ Ending(procs[jobs[j].on])
    /\ \A p \in quitOn : Ending(procs[p])
    /\ goProcess # 0 => /\ procs[goProcess].sig = "none"
                        /\ procs[goProcess].st # "reaped"
    /\ \A p \in DOMAIN procs : procs[p].st = "failed" => procs[p].sig = "none"

Stops == ~exited => Apart

(* At a calm pace at most one server is ending, somebody waits for that     *)
(* (unless vite's HTTP server closed), and meanwhile no other is there.     *)
OneAtATime ==
    /\ \A p \in DOMAIN procs :
          p # goProcess => \/ procs[p].st \in {"reaped", "failed"}
                           \/ Ending(procs[p]) /\ goProcess = 0
    /\ \A p \in DOMAIN procs : Ending(procs[p]) =>
          \/ p \in quitOn \/ \E j \in Waiting : jobs[j].on = p
          \/ plugin = "vite" /\ ~watching
    /\ \A p, q \in DOMAIN procs : Ending(procs[p]) /\ Ending(procs[q]) => p = q
    /\ plugin = "vite" /\ ~watching => ~timer

Told == \A p \in Alive : procs[p].sig # "none"

Pace == calm => IF exited THEN Told \/ (~HandlersOn /\ OneAtATime) ELSE OneAtATime

IInv == TypeOK /\ Stops /\ Pace

(* It is true at first.                                                     *)
LEMMA InitIInv == Init => IInv
<1> SUFFICES ASSUME Init PROVE IInv
  OBVIOUS
<1>1. TypeOK
  BY InitTyped
<1>2. PICK st \in {"spawned", "failed"} : procs = <<Fresh(st)>>
  BY DEF Init
<1>3. DOMAIN procs = {1} /\ procs[1].sig = "none" /\ procs[1].st \in {"spawned", "failed"}
  BY <1>2, EntryFacts DEF States
<1>4. PICK pc \in {"waiting", "extracting"} : jobs = <<Job(pc, 0)>>
  BY DEF Init
<1>5. Waiting = {}
  BY <1>4, EntryFacts DEF Waiting
<1>6. goProcess = 1 /\ quitOn = {} /\ exited = FALSE /\ timer = FALSE
  BY DEF Init
<1>7. Apart
  BY <1>3, <1>5, <1>6 DEF Apart, Ending
<1>8. OneAtATime
  BY <1>3, <1>5, <1>6 DEF OneAtATime, Ending
<1> QED BY <1>1, <1>6, <1>7, <1>8 DEF IInv, Stops, Pace

(* Whoever stops a server is the only one to wait for its end.              *)
LEMMA StopsKept ==
    ASSUME TypeOK, Stops, Kind
    PROVE  Stops'
<1>0. /\ DOMAIN procs = 1..Len(procs) /\ Len(procs) \in Nat
      /\ goProcess \in {0} \cup DOMAIN procs /\ goProcess \in Nat
      /\ quitOn \subseteq DOMAIN procs /\ \A j \in Waiting : jobs[j].on \in DOMAIN procs
      /\ HasToStop <=> goProcess # 0 /\ procs[goProcess].st # "failed"
  BY KnownFacts DEF TypeOK, Waiting
<1>1. CASE Aside
  <2>1. SUFFICES ASSUME ~exited PROVE Apart'
    BY <1>1 DEF Aside, quitVars, Stops
  <2>2. Apart
    BY <2>1 DEF Stops
  <2>3. UNCHANGED <<procs, goProcess, quitOn>> /\ SameWaits
    BY <1>1 DEF Aside, quitVars
  <2> QED BY <2>2, <2>3 DEF Apart, Ending, SameWaits
<1>2. CASE Ends
  BY <1>2 DEF Ends, Stops
<1>3. CASE StopsIt
  <2>1. /\ Apart /\ goProcess \in DOMAIN procs /\ goProcess # 0 /\ goProcess' = 0
        /\ procs[goProcess].st # "failed"
        /\ Edited(procs, goProcess, procs[goProcess].st, "TERM", procs')
    BY <1>0, <1>3 DEF StopsIt, Stops
  <2>2. \A p \in DOMAIN procs : Ending(procs'[p]) <=> p = goProcess \/ Ending(procs[p])
    BY <2>1 DEF Apart, Ending, Edited
  <2>3. goProcess \notin quitOn /\ \A j \in Waiting : jobs[j].on # goProcess
    BY <2>1 DEF Apart, Ending
  <2>4. \A p \in DOMAIN procs' : procs'[p].st = "failed" => procs'[p].sig = "none"
    BY <2>1 DEF Apart, Edited
  <2>5. /\ \A i, j \in Waiting' : jobs'[i].on = jobs'[j].on => i = j
        /\ \A j \in Waiting' : jobs'[j].on \notin quitOn' /\ Ending(procs'[jobs'[j].on])
        /\ \A p \in quitOn' : Ending(procs'[p])
    <3>1. CASE /\ Waiting' = Waiting \cup {Len(jobs) + 1} /\ Len(jobs) + 1 \notin Waiting
               /\ jobs'[Len(jobs) + 1].on = goProcess
               /\ \A j \in Waiting : jobs'[j].on = jobs[j].on
               /\ UNCHANGED quitOn
      <4> DEFINE k == Len(jobs) + 1
      <4> HIDE DEF k
      <4>1. /\ Waiting' = Waiting \cup {k} /\ k \notin Waiting /\ jobs'[k].on = goProcess
            /\ \A j \in Waiting : jobs'[j].on = jobs[j].on
            /\ UNCHANGED quitOn
        BY <3>1 DEF k
      <4>2. \A j \in Waiting' : j \in Waiting \/ j = k
        BY <4>1
      <4>3. \A i, j \in Waiting' : jobs'[i].on = jobs'[j].on => i = j
        BY <2>1, <2>3, <4>1, <4>2 DEF Apart
      <4>4. \A j \in Waiting' : jobs'[j].on \notin quitOn' /\ Ending(procs'[jobs'[j].on])
        BY <1>0, <2>1, <2>2, <2>3, <4>1, <4>2 DEF Apart
      <4>5. \A p \in quitOn' : Ending(procs'[p])
        BY <1>0, <2>1, <2>2, <4>1 DEF Apart
      <4> QED BY <4>3, <4>4, <4>5
    <3>2. CASE UNCHANGED jobs /\ quitOn' = quitOn \cup {goProcess}
      <4>1. Waiting' = Waiting
        BY <3>2 DEF Waiting
      <4> QED BY <1>0, <2>1, <2>2, <2>3, <3>2, <4>1 DEF Apart
    <3>3. CASE UNCHANGED <<jobs, quitOn>>
      <4>1. Waiting' = Waiting
        BY <3>3 DEF Waiting
      <4> QED BY <1>0, <2>1, <2>2, <2>3, <3>3, <4>1 DEF Apart
    <3> QED BY <1>3, <3>1, <3>2, <3>3 DEF StopsIt
  <2>6. Apart'
    BY <2>1, <2>4, <2>5 DEF Apart
  <2> QED BY <2>6 DEF Stops
<1>4. CASE StartsIt
  <2>1. Apart /\ Waiting' = Waiting /\ \A j \in Waiting : jobs'[j].on = jobs[j].on
    BY <1>4 DEF StartsIt, Stops
  <2>2. PICK js, j : Started(procs, js, j)
    BY <1>4 DEF StartsIt
  <2>3. /\ goProcess' = Len(procs) + 1 /\ DOMAIN procs' = 1..(Len(procs) + 1)
        /\ procs'[goProcess'].sig = "none" /\ procs'[goProcess'].st # "reaped"
        /\ \A q \in DOMAIN procs : procs'[q] = procs[q]
    BY <2>2 DEF Started
  <2>4. \A q \in DOMAIN procs : Ending(procs'[q]) <=> Ending(procs[q])
    BY <2>3 DEF Ending
  <2>5. \A p \in DOMAIN procs' : procs'[p].st = "failed" => procs'[p].sig = "none"
    BY <1>0, <2>1, <2>3 DEF Apart
  <2>6. UNCHANGED quitOn
    BY <1>4 DEF StartsIt, quitVars
  <2>7. Apart'
    BY <1>0, <2>1, <2>3, <2>4, <2>5, <2>6 DEF Apart
  <2> QED BY <2>7 DEF Stops
<1>5. ASSUME NEW p \in DOMAIN procs, Ages(p) PROVE Stops'
  <2>1. Apart /\ UNCHANGED <<goProcess, jobs, quitOn>> /\ procs[p].st \notin {"reaped", "failed"}
    BY <1>5 DEF Ages, quitVars, Stops
  <2>2. PICK st \in {"built", "serving", "dead", "reaped"} :
          /\ Edited(procs, p, st, procs[p].sig, procs')
          /\ st = "reaped" => procs[p].sig = "left"
    BY <1>5 DEF Ages
  <2>3. /\ DOMAIN procs' = DOMAIN procs
        /\ \A q \in DOMAIN procs :
              /\ procs'[q].sig = procs[q].sig
              /\ procs[q].sig # "left" => (procs'[q].st = "reaped" <=> procs[q].st = "reaped")
              /\ procs'[q].st = "failed" <=> procs[q].st = "failed"
    BY <2>1, <2>2 DEF Edited
  <2>4. Waiting' = Waiting /\ \A q \in DOMAIN procs : Ending(procs'[q]) <=> Ending(procs[q])
    BY <2>1, <2>3 DEF Waiting, Ending
  <2>5. Apart'
    BY <1>0, <2>1, <2>3, <2>4 DEF Apart
  <2> QED BY <2>5 DEF Stops
<1>6. ASSUME NEW p \in DOMAIN procs, NEW st \in States \ {"failed"},
             NEW sig \in {"none", "KILL", "left"}, NEW ps, NEW go \in {0, goProcess}, procs[p].st # "failed",
             goProcess = p => go = 0, Edited(procs, p, st, sig, ps), Settles(p, ps, go)
      PROVE  Stops'
  <2>1. Apart /\ p \notin quitOn /\ UNCHANGED quitOn
    BY <1>6 DEF Settles, Stops, quitVars
  <2>2. /\ DOMAIN ps = 1..Len(procs) /\ Len(ps) = Len(procs)
        /\ ps[p].st = st /\ ps[p].sig = sig
        /\ \A q \in DOMAIN procs : q # p => ps[q] = procs[q]
    BY <1>0, <1>6 DEF Edited
  <2>3. \A q \in DOMAIN procs : ps[q].st = "failed" => ps[q].sig = "none"
    BY <1>6, <2>1, <2>2 DEF Apart
  <2>4. CASE /\ \A j \in Waiting : jobs[j].on # p
             /\ procs' = ps /\ goProcess' = go /\ UNCHANGED jobs
    <3>1. Waiting' = Waiting /\ \A q \in DOMAIN procs : q # p => (Ending(procs'[q]) <=> Ending(procs[q]))
      BY <2>2, <2>4 DEF Waiting, Ending
    <3>2. goProcess' # 0 => procs'[goProcess'] = procs[goProcess] /\ goProcess # 0
      BY <1>0, <1>6, <2>2, <2>4
    <3>3. Apart'
      BY <1>0, <2>1, <2>2, <2>3, <2>4, <3>1, <3>2 DEF Apart
    <3> QED BY <3>3 DEF Stops
  <2>5. ASSUME NEW j \in Waiting, jobs[j].on = p, Started(ps, jobs, j),
               Waiting' = Waiting \ {j}, \A i \in Waiting \ {j} : jobs'[i].on = jobs[i].on
        PROVE  Stops'
    <3>1. /\ goProcess' = Len(procs) + 1 /\ DOMAIN procs' = 1..(Len(procs) + 1)
          /\ procs'[goProcess'].sig = "none" /\ procs'[goProcess'].st # "reaped"
          /\ \A q \in DOMAIN procs : procs'[q] = ps[q]
      BY <1>0, <2>2, <2>5 DEF Started
    <3>2. \A q \in DOMAIN procs : q # p => (Ending(procs'[q]) <=> Ending(procs[q]))
      BY <2>2, <3>1 DEF Ending
    <3>3. \A i \in Waiting' : i \in Waiting /\ jobs'[i].on = jobs[i].on /\ jobs'[i].on # p
      BY <2>1, <2>5 DEF Apart
    <3>4. \A q \in DOMAIN procs' : procs'[q].st = "failed" => procs'[q].sig = "none"
      BY <1>0, <2>3, <3>1
    <3>5. Apart'
      BY <1>0, <2>1, <3>1, <3>2, <3>3, <3>4 DEF Apart
    <3> QED BY <3>5 DEF Stops
  <2> QED BY <1>6, <2>4, <2>5 DEF Settles
<1>7. ASSUME NEW p \in DOMAIN procs, Reaps(p) PROVE Stops'
  BY <1>6, <1>7 DEF Reaps, States
<1>8. ASSUME NEW p \in DOMAIN procs, Kills(p) PROVE Stops'
  <2>1. Apart /\ procs[p].sig = "TERM"
    BY <1>8 DEF Kills, Settles, Stops
  <2>2. procs[p].st # "failed" /\ goProcess # p
    BY <1>0, <2>1 DEF Apart
  <2> QED BY <1>6, <1>8, <2>2 DEF Kills, States
<1>9. ASSUME NEW p \in DOMAIN procs, Parts(p) PROVE Stops'
  <2>1. Apart /\ procs[p].sig = "TERM"
    BY <1>9 DEF Parts, Settles, Stops
  <2>2. procs[p].st # "failed" /\ procs[p].st \in States
    <3>1. procs[p] \in Procs
      BY DEF TypeOK
    <3> QED BY <2>1, <3>1 DEF Apart, Procs, States
  <2> QED BY <1>6, <1>9, <2>2 DEF Parts
<1>10. CASE QuitsEarly
  BY <1>10 DEF QuitsEarly, Stops
<1>11. CASE Forgets
  <2>1. Apart /\ UNCHANGED <<procs, jobs, quitOn>> /\ goProcess' = 0
    BY <1>11 DEF Forgets, quitVars, Stops
  <2>2. Apart'
    BY <2>1 DEF Apart, Waiting, Ending
  <2> QED BY <2>2 DEF Stops
<1> QED BY <1>1, <1>2, <1>3, <1>4, <1>5, <1>7, <1>8, <1>9, <1>10, <1>11 DEF Kind

(* The plugin's process ends at a calm pace: every server was told to.      *)
LEMMA ToldAtTheEnd ==
    ASSUME TypeOK, Apart, OneAtATime, calm, Ends
    PROVE  Told'
<1>0. /\ goProcess \in {0} \cup DOMAIN procs /\ DOMAIN procs' = DOMAIN procs /\ 0 \notin DOMAIN procs
      /\ HasToStop <=> goProcess # 0 /\ procs[goProcess].st # "failed"
  BY KnownFacts DEF TypeOK, Ends
<1>1. \A p \in DOMAIN procs : p # goProcess =>
          \/ procs[p].st \in {"reaped", "failed"}
          \/ procs[p].sig = "TERM" /\ goProcess = 0
  BY DEF OneAtATime, Ending
<1>2. CASE ~HasToStop /\ UNCHANGED procs
  BY <1>0, <1>1, <1>2 DEF Told, Alive
<1>3. CASE /\ HasToStop
           /\ Edited(procs, goProcess, procs[goProcess].st, "TERM", procs')
  BY <1>0, <1>1, <1>3 DEF Told, Alive, Edited
<1>4. ASSUME NEW p \in quitOn, Edited(procs, p, "reaped", "none", procs')
      PROVE  Told'
  <2>1. p \in DOMAIN procs /\ procs[p].sig = "TERM"
    BY DEF TypeOK, Apart, Ending
  <2>2. p # goProcess
    BY <1>0, <2>1 DEF Apart
  <2>3. goProcess = 0
    BY <1>1, <2>1, <2>2 DEF Apart, OneAtATime, Ending
  <2> QED BY <1>0, <1>1, <1>4, <2>1, <2>3 DEF Told, Alive, Edited
<1> QED BY <1>2, <1>3, <1>4 DEF Ends

(* No server is left behind at a calm pace.                                 *)
LEMMA PaceKept ==
    ASSUME TypeOK, Stops, Pace, Kind, UNCHANGED <<plugin, calm>>
    PROVE  Pace'
<1>0. /\ DOMAIN procs = 1..Len(procs) /\ Len(procs) \in Nat
      /\ goProcess \in {0} \cup DOMAIN procs /\ goProcess \in Nat
      /\ quitOn \subseteq DOMAIN procs /\ \A j \in Waiting : jobs[j].on \in DOMAIN procs
      /\ HasToStop <=> goProcess # 0 /\ procs[goProcess].st # "failed"
  BY KnownFacts DEF TypeOK, Waiting
<1> SUFFICES ASSUME calm PROVE Pace'
  BY DEF Pace
<1>1. CASE Aside
  <2>1. ~exited /\ UNCHANGED <<procs, goProcess, quitOn, exited>> /\ SameWaits
    BY <1>1 DEF Aside, quitVars
  <2>2. OneAtATime
    BY <2>1 DEF Pace
  <2>3. plugin = "vite" /\ ~watching => ~watching'
    BY <1>1 DEF Aside
  <2>4. plugin = "vite" /\ ~watching' => ~timer'
    BY <1>1, <2>2 DEF Aside, OneAtATime
  <2>5. OneAtATime'
    BY <2>1, <2>2, <2>3, <2>4 DEF OneAtATime, SameWaits
  <2> QED BY <2>1, <2>5 DEF Pace
<1>2. CASE Ends
  <2>1. ~exited /\ exited'
    BY <1>2 DEF Ends
  <2>2. Apart /\ OneAtATime
    BY <2>1 DEF Pace, Stops
  <2>3. Told'
    BY <1>2, <2>2, ToldAtTheEnd
  <2> QED BY <2>1, <2>3 DEF Pace
<1>3. CASE StopsIt
  <2>1. /\ Apart /\ OneAtATime /\ goProcess \in DOMAIN procs /\ goProcess # 0 /\ goProcess' = 0
        /\ procs[goProcess].st # "failed" /\ ~timer' /\ ~exited'
        /\ Edited(procs, goProcess, procs[goProcess].st, "TERM", procs')
    BY <1>0, <1>3 DEF StopsIt, Stops, Pace
  <2>2. \A p \in DOMAIN procs : p # goProcess => procs[p].st \in {"reaped", "failed"}
    BY <1>0, <2>1 DEF OneAtATime
  <2>3. DOMAIN procs' = DOMAIN procs /\ \A p \in DOMAIN procs : p # goProcess => procs'[p] = procs[p]
    BY <2>1 DEF Edited
  <2>4. \A p \in DOMAIN procs' : Ending(procs'[p]) <=> p = goProcess
    BY <2>1, <2>2, <2>3 DEF Ending, Edited, Apart
  <2>5. \/ goProcess \in quitOn' \/ \E j \in Waiting' : jobs'[j].on = goProcess
        \/ plugin' = "vite" /\ ~watching'
    BY <1>3 DEF StopsIt
  <2>6. \A p \in DOMAIN procs' :
            p # goProcess' => \/ procs'[p].st \in {"reaped", "failed"}
                              \/ Ending(procs'[p]) /\ goProcess' = 0
    BY <2>1, <2>2, <2>3, <2>4
  <2>7. OneAtATime'
    BY <2>1, <2>4, <2>5, <2>6 DEF OneAtATime
  <2> QED BY <2>1, <2>7 DEF Pace
<1>4. CASE StartsIt
  <2>1. /\ Apart /\ OneAtATime /\ ~HasToStop /\ timer /\ BetweenReloads /\ quitOn = {}
        /\ ~timer' /\ ~exited' /\ ~exited
    BY <1>4 DEF StartsIt, Stops, Pace, quitVars
  <2>2. Waiting = {}
    BY <2>1 DEF Waiting, BetweenReloads
  <2>3. \A p \in DOMAIN procs : ~Ending(procs[p])
    BY <2>1, <2>2 DEF OneAtATime
  <2>4. \A p \in DOMAIN procs : procs[p].st \in {"reaped", "failed"}
    BY <1>0, <2>1, <2>3 DEF OneAtATime
  <2>5. PICK js, j : Started(procs, js, j)
    BY <1>4 DEF StartsIt
  <2>6. /\ goProcess' = Len(procs) + 1 /\ DOMAIN procs' = 1..(Len(procs) + 1)
        /\ procs'[goProcess'].sig = "none"
        /\ \A q \in DOMAIN procs : procs'[q] = procs[q]
    BY <2>5 DEF Started
  <2>7. /\ \A p \in DOMAIN procs' : p # goProcess' => procs'[p].st \in {"reaped", "failed"}
        /\ \A p \in DOMAIN procs' : ~Ending(procs'[p])
    BY <1>0, <2>3, <2>4, <2>6 DEF Ending
  <2>8. OneAtATime'
    BY <2>1, <2>7 DEF OneAtATime
  <2> QED BY <2>1, <2>8 DEF Pace
<1>5. ASSUME NEW p \in DOMAIN procs, Ages(p) PROVE Pace'
  <2>1. /\ OneAtATime /\ UNCHANGED <<goProcess, jobs, quitOn, exited, watching, timer>> /\ ~exited
        /\ procs[p].st \notin {"reaped", "failed"}
    BY <1>5 DEF Ages, quitVars, Pace
  <2>6. procs[p].sig # "left"
    <3>1. Apart /\ (p = goProcess => goProcess # 0)
      BY <1>0, <2>1 DEF Stops
    <3>2. p = goProcess => procs[p].sig = "none"
      BY <3>1 DEF Apart
    <3>3. p # goProcess => procs[p].sig = "TERM"
      BY <2>1 DEF OneAtATime, Ending
    <3> QED BY <3>2, <3>3
  <2>2. PICK st \in {"built", "serving", "dead"} : Edited(procs, p, st, procs[p].sig, procs')
    BY <1>5, <2>6 DEF Ages
  <2>3. /\ DOMAIN procs' = DOMAIN procs
        /\ \A q \in DOMAIN procs :
              /\ procs'[q].sig = procs[q].sig
              /\ procs'[q].st = "reaped" <=> procs[q].st = "reaped"
              /\ procs'[q].st = "failed" <=> procs[q].st = "failed"
    BY <2>1, <2>2 DEF Edited
  <2>4. Waiting' = Waiting /\ \A q \in DOMAIN procs : Ending(procs'[q]) <=> Ending(procs[q])
    BY <2>1, <2>3 DEF Waiting, Ending
  <2>5. OneAtATime'
    BY <2>1, <2>3, <2>4 DEF OneAtATime
  <2> QED BY <2>1, <2>5 DEF Pace
<1>6. ASSUME NEW p \in DOMAIN procs, Reaps(p) PROVE Pace'
  <2>1. PICK ps : Edited(procs, p, "reaped", "none", ps) /\ Settles(p, ps, 0)
    BY <1>6 DEF Reaps
  <2>2. /\ Apart /\ OneAtATime /\ UNCHANGED <<quitOn, exited, watching, timer>> /\ ~exited
        /\ procs[p].st = "dead"
    BY <1>6, <2>1 DEF Reaps, Settles, quitVars, Stops, Pace
  <2>3. /\ DOMAIN ps = 1..Len(procs) /\ Len(ps) = Len(procs)
        /\ ps[p].st = "reaped" /\ ps[p].sig = "none" /\ ~Ending(ps[p])
        /\ \A q \in DOMAIN procs : q # p => ps[q] = procs[q]
    BY <1>0, <2>1 DEF Edited, Ending
  <2>4. CASE procs' = ps /\ goProcess' = 0 /\ UNCHANGED jobs
    <3>1. Waiting' = Waiting
      BY <2>4 DEF Waiting
    <3>2. \A q \in DOMAIN procs : q # p => \/ procs[q].st \in {"reaped", "failed"}
                                           \/ Ending(procs[q])
      BY <1>0, <2>2 DEF OneAtATime
    <3>3. \A q \in DOMAIN procs : Ending(procs'[q]) => q # p /\ Ending(procs[q])
      BY <2>3, <2>4
    <3>4. \A q \in DOMAIN procs' : \/ procs'[q].st \in {"reaped", "failed"}
                                   \/ Ending(procs'[q])
      BY <1>0, <2>3, <2>4, <3>2
    <3>5. OneAtATime'
      BY <1>0, <2>2, <2>3, <2>4, <3>1, <3>3, <3>4 DEF OneAtATime
    <3> QED BY <2>2, <3>5 DEF Pace
  <2>5. ASSUME NEW j \in Waiting, jobs[j].on = p, Started(ps, jobs, j) PROVE Pace'
    <3>1. Ending(procs[p])
      BY <2>2, <2>5 DEF Apart
    <3>2. goProcess = 0
      BY <1>0, <2>2, <3>1 DEF Apart, OneAtATime, Ending
    <3>3. \A q \in DOMAIN procs : q # p => procs[q].st \in {"reaped", "failed"} /\ ~Ending(procs[q])
      BY <1>0, <2>2, <3>1, <3>2 DEF OneAtATime
    <3>4. /\ goProcess' = Len(procs) + 1 /\ DOMAIN procs' = 1..(Len(procs) + 1)
          /\ procs'[goProcess'].sig = "none"
          /\ \A q \in DOMAIN procs : procs'[q] = ps[q]
      BY <1>0, <2>3, <2>5 DEF Started
    <3>5. \A q \in DOMAIN procs : ps[q].st \in {"reaped", "failed"} /\ ~Ending(ps[q])
      BY <2>3, <3>3
    <3>6. /\ \A q \in DOMAIN procs' : q # goProcess' => procs'[q].st \in {"reaped", "failed"}
          /\ \A q \in DOMAIN procs' : ~Ending(procs'[q])
      BY <1>0, <3>4, <3>5 DEF Ending
    <3>7. OneAtATime'
      BY <2>2, <3>6 DEF OneAtATime
    <3> QED BY <2>2, <3>7 DEF Pace
  <2> QED BY <2>1, <2>4, <2>5 DEF Settles
<1>7. ASSUME NEW p \in DOMAIN procs, Kills(p) PROVE Pace'
  BY <1>7 DEF Kills
<1>8. CASE (\E p \in DOMAIN procs : Parts(p)) \/ Forgets
  BY <1>8 DEF Parts, Forgets
<1>9. CASE QuitsEarly
  <2>1. /\ OneAtATime /\ exited' /\ ~HandlersOn
        /\ UNCHANGED <<procs, goProcess, jobs, quitOn, watching, timer>>
    BY <1>9 DEF QuitsEarly, Pace
  <2>2. OneAtATime' /\ ~HandlersOn'
    BY <2>1 DEF OneAtATime, HandlersOn, Waiting, Ending
  <2> QED BY <2>1, <2>2 DEF Pace
<1> QED BY <1>1, <1>2, <1>3, <1>4, <1>5, <1>6, <1>7, <1>8, <1>9 DEF Kind

(* The invariant holds of every execution.                                  *)
THEOREM Invariance == Spec => []IInv
<1>1. Init => IInv
  BY InitIInv
<1>2. IInv /\ [Next]_vars => IInv'
  <2> SUFFICES ASSUME IInv, [Next]_vars PROVE IInv'
    OBVIOUS
  <2>1. CASE Next
    <3>1. jobs' \in Seq(Jobs) /\ jobs' # <<>> /\ Kind
      BY <2>1, StepKinds DEF IInv
    <3>2. Others' /\ UNCHANGED <<plugin, calm>>
      BY <2>1, OthersKept DEF IInv
    <3>3. ProcTypes'
      BY <3>1, KindTyped DEF IInv
    <3>4. Stops'
      BY <3>1, StopsKept DEF IInv
    <3>5. Pace'
      BY <3>1, <3>2, PaceKept DEF IInv
    <3>6. TypeOK'
      BY <3>2, <3>3, TypePartsNext
    <3> QED BY <3>4, <3>5, <3>6 DEF IInv
  <2>2. CASE UNCHANGED vars
    BY <2>2 DEF vars, envVars, sourceVars, typeVars, quitVars, IInv, TypeOK, Stops, Apart,
                Pace, Told, Alive, OneAtATime, HandlersOn, Waiting
  <2> QED BY <2>1, <2>2
<1> QED BY <1>1, <1>2, PTL DEF Spec

(* Every variable keeps its type: a reload waits for a process that is      *)
(* there, and what the plugin remembers of the types is what is on disk.    *)
THEOREM TypeCorrect == Spec => []TypeOK
<1>1. IInv => TypeOK
  BY DEF IInv
<1> QED BY <1>1, Invariance, PTL

(* Whoever stops a server is the only one to wait for its end, and nobody   *)
(* stops it a second time (goServer.ts, stop).                              *)
THEOREM StopsDoNotMeet == Spec => []StoppedOnce
<1>1. IInv => StoppedOnce
  <2> SUFFICES ASSUME IInv, ~exited PROVE StoppedOnce
    BY DEF StoppedOnce
  <2>1. Apart /\ 0 \notin DOMAIN procs
    BY DEF IInv, Stops, TypeOK
  <2> QED BY <2>1 DEF Apart, Ending, StoppedOnce, Known
<1> QED BY <1>1, Invariance, PTL

(* At a calm pace no server is left behind, whatever the order of crashes,  *)
(* edits and signals, but for a signal to Next.js before its handlers are.  *)
THEOREM NobodyOrphaned == Spec => []NoOrphans
<1>1. IInv => NoOrphans
  BY DEF IInv, NoOrphans, Pace, Told, OneAtATime, Ending, Alive
<1> QED BY <1>1, Invariance, PTL

-----------------------------------------------------------------------------
(* The last edit, at a calm pace. *)

(* Nothing stands between the last edit and what the plugin does about it.  *)
Followed ==
    ~exited /\ ~missed /\ ~timer /\ quitOn = {} /\ (plugin = "vite" => watching)

Busy == {j \in DOMAIN jobs : jobs[j].pc \in {"stopping", "extracting", "generating"}}

(* One reload at a time, which knows the types that are on disk.            *)
Reloading ==
    /\ \A i, j \in Busy : i = j
    /\ \A j \in Busy : j # 1 /\ jobs[j].pc # "stopping" => jobs[j].prev = dts

(* The types of the sources are on disk, about to be written, or extracted  *)
(* as soon as a reload comes to it.                                         *)
TypesFollow ==
    /\ \A j \in Busy : jobs[j].pc = "generating" =>
          src.builds /\ jobs[j].new.openapi = src.openapi
    /\ \/ \E j \in DOMAIN jobs : jobs[j].pc # "done"
       \/ LastServer.st = "failed" \/ ~src.builds \/ files.openapi = src.openapi

(* The last server is of the sources, or will be, or has a reason not to be. *)
ServerFollows ==
    \/ Waiting # {}
    \/ LastServer.st \in {"spawned", "failed"}
    \/ LastServer.st \in {"built", "serving"} /\ LastServer.from = src
    \/ LastServer.st \in {"dead", "reaped"} /\ (LastServer.crashed \/ ~src.builds)

Follows ==
    ~exited => /\ goProcess \in {0, Len(procs)} /\ Len(procs) # 0
               /\ calm => Reloading /\ (Followed => TypesFollow /\ ServerFollows)

(* Only a debounce makes up for an edit.                                    *)
LEMMA FollowedBefore ==
    ASSUME TypeOK, Next, Followed'
    PROVE  DebounceFires \/ (Followed /\ UNCHANGED src)
<1>0. /\ watching \in BOOLEAN /\ timer \in BOOLEAN /\ missed \in BOOLEAN /\ exited \in BOOLEAN
      /\ plugin \in {"vite", "next"}
  BY DEF TypeOK
<1>1. CASE buildStart
  BY <1>1 DEF buildStart, Free, Followed, sourceVars, quitVars, envVars
<1>2. ASSUME NEW j \in DOMAIN jobs, Extract(j) \/ Commit(j) PROVE Followed /\ UNCHANGED src
  <2>1. /\ ~exited /\ UNCHANGED <<src, missed, timer, plugin, quitOn>>
        /\ watching' = watching \/ WatcherOn(j)
    BY <1>2 DEF Extract, Commit, Free, sourceVars, quitVars, envVars
  <2>2. plugin = "vite" => watching' = watching
    BY <2>1, WatcherStays DEF WatchSame
  <2> QED BY <1>0, <2>1, <2>2 DEF Followed
<1>3. ASSUME NEW p \in DOMAIN procs, ExitEvent(p) \/ KillTimeout(p) PROVE Followed /\ UNCHANGED src
  BY <1>3 DEF ExitEvent, KillTimeout, Free, Followed, sourceVars, envVars
<1>4. CASE System
  BY <1>4 DEF System, Builds, Listens, Crashes, Dies, ProcessStep, Followed,
              sourceVars, quitVars, envVars
<1>5. CASE Edit
  <2>1. timer' = (timer \/ watching) /\ missed' = ~watching
    BY <1>5 DEF Edit
  <2>2. ~timer' /\ ~missed'
    BY DEF Followed
  <2> QED BY <2>1, <2>2
<1>6. CASE Signal
  <2>1. exited' \/ quitOn' # {}
    BY <1>6 DEF Signal
  <2> QED BY <2>1 DEF Followed
<1>7. CASE EarlySignal
  BY <1>7 DEF EarlySignal, Followed
<1>8. CASE HttpClose
  BY <1>8 DEF HttpClose, Followed, envVars
<1> QED BY <1>1, <1>2, <1>3, <1>4, <1>5, <1>6, <1>7, <1>8 DEF Next, Loop, User

(* The end of the list moves with the known server.                         *)
LEMMA KnownIsLast ==
    ASSUME TypeOK, Kind, ~exited, ~exited', goProcess \in {0, Len(procs)}, Len(procs) # 0
    PROVE  goProcess' \in {0, Len(procs')} /\ Len(procs') # 0
<1>0. Len(procs) \in Nat /\ DOMAIN procs = 1..Len(procs)
  BY DEF TypeOK
<1>1. ASSUME NEW ps, NEW js, NEW j, Started(ps, js, j) PROVE goProcess' = Len(procs') /\ Len(procs') # 0
  <2>1. procs' \in Seq(Procs) /\ DOMAIN procs' = 1..(Len(ps) + 1) /\ goProcess' = Len(ps) + 1 /\ Len(ps) \in Nat
    BY <1>1 DEF Started
  <2> QED BY <2>1
<1>2. ASSUME NEW p, NEW ps, NEW go \in {0, goProcess}, Settles(p, ps, go), Len(ps) = Len(procs)
      PROVE  goProcess' \in {0, Len(procs')} /\ Len(procs') # 0
  BY <1>1, <1>2 DEF Settles
<1>3. CASE Aside
  BY <1>3 DEF Aside
<1>4. CASE Ends
  BY <1>4 DEF Ends
<1>5. CASE StopsIt
  BY <1>5 DEF StopsIt, Edited
<1>6. CASE StartsIt
  BY <1>1, <1>6 DEF StartsIt
<1>7. ASSUME NEW p \in DOMAIN procs, Ages(p) PROVE goProcess' \in {0, Len(procs')} /\ Len(procs') # 0
  BY <1>7 DEF Ages, Edited
<1>8. ASSUME NEW p \in DOMAIN procs, Reaps(p) \/ Kills(p) \/ Parts(p)
      PROVE  goProcess' \in {0, Len(procs')} /\ Len(procs') # 0
  BY <1>2, <1>8 DEF Reaps, Kills, Parts, Edited
<1>9. CASE QuitsEarly \/ Forgets
  BY <1>9 DEF QuitsEarly, Forgets
<1> QED BY <1>3, <1>4, <1>5, <1>6, <1>7, <1>8, <1>9 DEF Kind

-----------------------------------------------------------------------------
(* The steps, by what they do to the reloads and the types. *)

FailedNow == LastServer'.st = "failed"

(* Reload j goes on; nothing else changes but the types on disk.            *)
Turn(j) ==
    /\ DOMAIN jobs' = DOMAIN jobs /\ \A i \in DOMAIN jobs : i # j => jobs'[i] = jobs[i]
    /\ \/ /\ BetweenReloads /\ j = 1 /\ jobs'[j].pc = "extracting" /\ UNCHANGED typeVars
       \/ /\ jobs[j].pc = "stopping" /\ jobs'[j].pc = "extracting" /\ jobs'[j].prev = dts
          /\ UNCHANGED typeVars
       \/ /\ jobs[j].pc = "extracting" /\ jobs'[j].pc = "generating"
          /\ jobs'[j].prev = jobs[j].prev
          /\ src.builds /\ jobs'[j].new.openapi = src.openapi
          /\ UNCHANGED typeVars
       \/ /\ j \in Busy /\ jobs'[j].pc = "done" /\ UNCHANGED typeVars
          /\ ~src.builds \/ FailedNow
       \/ /\ jobs[j].pc = "generating" /\ jobs'[j].pc = "done"
          /\ IF j = 1 \/ jobs[j].new.openapi # jobs[j].prev
             THEN dts' = jobs[j].new.openapi /\ files' = jobs[j].new
             ELSE UNCHANGED typeVars

(* A reload begins.                                                         *)
Begins ==
    /\ BetweenReloads /\ DOMAIN jobs' = DOMAIN jobs \cup {Len(jobs) + 1}
    /\ \A i \in DOMAIN jobs : jobs'[i] = jobs[i]
    /\ Len(jobs) + 1 \notin DOMAIN jobs
    /\ LET e == jobs'[Len(jobs) + 1]
       IN  \/ e.pc = "stopping"
           \/ e.pc = "extracting" /\ e.prev = dts
           \/ e.pc = "done" /\ FailedNow
    /\ UNCHANGED typeVars

(* t is js with reload j about to write n, the types of the sources.        *)
Knows(js, j, n, t) ==
    /\ DOMAIN t = DOMAIN js /\ \A i \in DOMAIN js : i # j => t[i] = js[i]
    /\ t[j].pc = "generating" /\ t[j].prev = js[j].prev /\ t[j].new = n

(* A reload that has extracted the specifications knows them.               *)
LEMMA ExtractedFacts ==
    ASSUME NEW js \in Seq(Jobs), NEW j \in DOMAIN js, NEW n \in Files
    PROVE  Knows(js, j, n, [js EXCEPT ![j].pc = "generating", ![j].new = n])
<1>1. js[j] \in Jobs
  OBVIOUS
<1> DEFINE v == [js[j] EXCEPT !.pc = "generating", !.new = n]
<1>2. v \in Jobs /\ v.pc = "generating" /\ v.prev = js[j].prev /\ v.new = n
  BY <1>1 DEF Jobs
<1> DEFINE t == [js EXCEPT ![j].pc = "generating", ![j].new = n]
<1>3. t = [js EXCEPT ![j] = v]
  OBVIOUS
<1> HIDE DEF v, t
<1>4. Knows(js, j, n, t)
  BY <1>2, <1>3, Replaced DEF Knows
<1> QED BY <1>4 DEF t

(* The last one of the servers after a start.                               *)
LEMMA StartedLast ==
    ASSUME NEW ps, NEW js, NEW j, Started(ps, js, j)
    PROVE  /\ LastServer'.st \in {"spawned", "failed"} /\ Len(procs') = Len(ps) + 1
           /\ \/ jobs'[j].pc = "extracting" /\ jobs'[j].prev = dts
              \/ jobs'[j].pc = "done" /\ FailedNow
<1>1. procs' \in Seq(Procs) /\ DOMAIN procs' = 1..(Len(ps) + 1) /\ Len(ps) \in Nat
  BY DEF Started
<1>2. Len(procs') = Len(ps) + 1
  BY <1>1
<1> QED BY <1>2 DEF Started, LastServer, FailedNow

(* A reload after the start of its server.                                  *)
LEMMA LoopTurns ==
    ASSUME TypeOK, calm, NEW k \in DOMAIN jobs, buildStart \/ Extract(k) \/ Commit(k)
    PROVE  \E j \in DOMAIN jobs : Turn(j) /\ jobs[j].pc # "stopping"
<1>0. /\ jobs \in Seq(Jobs) /\ Len(jobs) \in Nat /\ DOMAIN jobs = 1..Len(jobs) /\ dts \in Nat
      /\ jobs # <<>> /\ 1 \in DOMAIN jobs /\ Done \in Jobs /\ Done.pc = "done"
      /\ procs \in Seq(Procs)
  BY EntryFacts DEF TypeOK
<1>1. CASE buildStart
  <2>1. Moved(jobs, 1, "extracting", jobs')
    BY <1>0, <1>1, PcFacts DEF buildStart
  <2>2. BetweenReloads /\ UNCHANGED typeVars
    BY <1>1 DEF buildStart
  <2>3. jobs[1].pc # "stopping"
    BY <1>1 DEF buildStart
  <2> QED BY <1>0, <2>1, <2>2, <2>3 DEF Moved, Turn
<1>2. ASSUME NEW j \in DOMAIN jobs, Extract(j) PROVE Turn(j)
  <2>1. jobs[j].pc = "extracting" /\ UNCHANGED typeVars /\ j \in Busy
    BY <1>2 DEF Extract, Busy
  <2>2. CASE /\ src.builds
             /\ jobs' = [jobs EXCEPT ![j].pc = "generating",
                                  ![j].new = [openapi |-> src.openapi, asyncapi |-> src.asyncapi]]
    <3> DEFINE n == [openapi |-> src.openapi, asyncapi |-> src.asyncapi]
    <3>1. n \in Files /\ n.openapi = src.openapi
      BY DEF TypeOK, SourceStates, Files
    <3>2. jobs' = [jobs EXCEPT ![j].pc = "generating", ![j].new = n]
      BY <2>2
    <3> HIDE DEF n
    <3>3. Knows(jobs, j, n, [jobs EXCEPT ![j].pc = "generating", ![j].new = n])
      BY <1>0, <3>1, ExtractedFacts
    <3>4. Knows(jobs, j, n, jobs')
      BY <3>2, <3>3
    <3> QED BY <2>1, <2>2, <3>1, <3>4 DEF Turn, Knows
  <2>3. CASE ~src.builds /\ jobs' = [jobs EXCEPT ![j] = Done]
    <3>1. /\ DOMAIN jobs' = DOMAIN jobs /\ jobs'[j].pc = "done"
          /\ \A i \in DOMAIN jobs : i # j => jobs'[i] = jobs[i]
      BY <1>0, <2>3, Replaced
    <3> QED BY <2>1, <2>3, <3>1 DEF Turn
  <2> QED BY <1>2, <2>2, <2>3 DEF Extract
<1>3. ASSUME NEW j \in DOMAIN jobs, Commit(j) PROVE Turn(j)
  <2>1. /\ jobs[j].pc = "generating" /\ jobs' = [jobs EXCEPT ![j] = Done]
        /\ IF j = 1 \/ jobs[j].new.openapi # jobs[j].prev
           THEN dts' = jobs[j].new.openapi /\ files' = jobs[j].new
           ELSE UNCHANGED typeVars
    BY <1>3 DEF Commit
  <2>2. /\ DOMAIN jobs' = DOMAIN jobs /\ jobs'[j].pc = "done"
        /\ \A i \in DOMAIN jobs : i # j => jobs'[i] = jobs[i]
    BY <1>0, <2>1, Replaced
  <2> QED BY <2>1, <2>2 DEF Turn
<1>4. ASSUME NEW j \in DOMAIN jobs, Extract(j) \/ Commit(j)
      PROVE  \E i \in DOMAIN jobs : Turn(i) /\ jobs[i].pc # "stopping"
  BY <1>2, <1>3, <1>4 DEF Extract, Commit
<1> QED BY <1>1, <1>4

(* A debounce begins a reload, as none is under way.                        *)
LEMMA DebounceBegins ==
    ASSUME TypeOK, calm, DebounceFires
    PROVE  Begins /\ jobs' # jobs /\ (LastServer'.st \in {"spawned", "failed"} \/ Waiting' # {})
<1>0. /\ jobs \in Seq(Jobs) /\ Len(jobs) \in Nat /\ DOMAIN jobs = 1..Len(jobs) /\ dts \in Nat
      /\ procs \in Seq(Procs)
  BY DEF TypeOK
<1>1. BetweenReloads /\ UNCHANGED typeVars /\ goProcess \in Nat
  BY KnownFacts DEF DebounceFires
<1> DEFINE k == Len(jobs) + 1
<1>2. k \in Nat /\ k \notin DOMAIN jobs /\ 1..k = DOMAIN jobs \cup {k}
  BY <1>0
<1>3. CASE HasToStop
  <2>1. jobs' = Append(jobs, Job("stopping", goProcess))
    BY <1>3 DEF DebounceFires, KillFails
  <2>2. Job("stopping", goProcess) \in Jobs /\ Job("stopping", goProcess).pc = "stopping"
    BY <1>1, EntryFacts
  <2>3. DOMAIN jobs' = 1..k /\ jobs'[k].pc = "stopping" /\ \A i \in DOMAIN jobs : jobs'[i] = jobs[i]
    BY <1>0, <2>1, <2>2, Extended
  <2>4. k \in Waiting' /\ jobs' # jobs
    BY <1>2, <2>3 DEF Waiting
  <2>5. Begins
    BY <1>1, <1>2, <2>3 DEF Begins
  <2> QED BY <2>4, <2>5
<1>4. CASE ~HasToStop
  <2> DEFINE js == Append(jobs, Job("stopping", 0))
  <2>1. Job("stopping", 0) \in Jobs
    BY EntryFacts
  <2>2. js \in Seq(Jobs) /\ DOMAIN js = 1..k /\ \A i \in DOMAIN jobs : js[i] = jobs[i]
    BY <1>0, <2>1, Extended
  <2>3. StartAndExtract(procs, js, k)
    BY <1>4 DEF DebounceFires
  <2> HIDE DEF js
  <2>4. Started(procs, js, k)
    BY <1>0, <1>2, <2>2, <2>3, StartFacts
  <2>5. \/ jobs'[k].pc = "extracting" /\ jobs'[k].prev = dts
        \/ jobs'[k].pc = "done" /\ FailedNow
    BY <2>4, StartedLast
  <2>6. DOMAIN jobs' = DOMAIN jobs \cup {k}
    BY <1>2, <2>2, <2>4 DEF Started
  <2>7. \A i \in DOMAIN jobs : jobs'[i] = jobs[i]
    <3> HIDE DEF k
    <3> QED BY <1>2, <2>2, <2>4 DEF Started
  <2>8. Begins
    BY <1>1, <1>2, <2>5, <2>6, <2>7 DEF Begins
  <2>9. jobs' # jobs /\ LastServer'.st \in {"spawned", "failed"}
    BY <1>2, <2>4, <2>6, StartedLast
  <2> QED BY <2>8, <2>9
<1> QED BY <1>3, <1>4

(* Every step at a calm pace.                                               *)
LEMMA StepTurns ==
    ASSUME TypeOK, calm, Next
    PROVE  UNCHANGED <<jobs, typeVars>> \/ Begins \/ \E j \in DOMAIN jobs : Turn(j)
<1>0. /\ jobs \in Seq(Jobs) /\ Len(jobs) \in Nat /\ DOMAIN jobs = 1..Len(jobs) /\ dts \in Nat
      /\ procs \in Seq(Procs)
  BY DEF TypeOK
<1>1. ASSUME NEW j \in DOMAIN jobs, buildStart \/ Extract(j) \/ Commit(j)
      PROVE  \E i \in DOMAIN jobs : Turn(i)
  BY <1>1, LoopTurns
<1>2. 1 \in DOMAIN jobs
  BY <1>0 DEF TypeOK
<1>4. CASE DebounceFires
  BY <1>4, DebounceBegins
<1>5. ASSUME NEW p \in DOMAIN procs, NEW ps \in Seq(Procs), NEW go, Resolve(ps, p, go),
             UNCHANGED typeVars
      PROVE  UNCHANGED <<jobs, typeVars>> \/ \E j \in DOMAIN jobs : Turn(j)
  <2>1. ASSUME NEW j \in DOMAIN jobs, jobs[j].pc = "stopping", StartAndExtract(ps, jobs, j)
        PROVE  Turn(j)
    <3>1. Started(ps, jobs, j)
      BY <1>0, <2>1, StartFacts
    <3>2. /\ DOMAIN jobs' = DOMAIN jobs /\ \A i \in DOMAIN jobs : i # j => jobs'[i] = jobs[i]
          /\ \/ jobs'[j].pc = "extracting" /\ jobs'[j].prev = dts
             \/ jobs'[j].pc = "done" /\ FailedNow
      BY <3>1, StartedLast DEF Started
    <3>3. j \in Busy
      BY <2>1 DEF Busy
    <3> QED BY <1>5, <2>1, <3>2, <3>3 DEF Turn
  <2> QED BY <1>5, <2>1 DEF Resolve
<1>6. ASSUME NEW p \in DOMAIN procs, ExitEvent(p) \/ KillTimeout(p)
      PROVE  UNCHANGED <<jobs, typeVars>> \/ \E j \in DOMAIN jobs : Turn(j)
  <2>1. Reaped(p) \in Seq(Procs)
    BY <1>0, ReapedFacts DEF Edited
  <2>2. ExitEvent(p)
    BY <1>6 DEF KillTimeout
  <2> QED BY <1>5, <2>1, <2>2 DEF ExitEvent
<1>7. CASE System
  BY <1>7 DEF System, Builds, Listens, Crashes, Dies, ProcessStep
<1>8. CASE User
  BY <1>8 DEF User, Edit, Signal, EarlySignal, HttpClose
<1> QED BY <1>1, <1>2, <1>4, <1>6, <1>7, <1>8 DEF Next, Loop

(* Reloads do not overlap at a calm pace.                                   *)
LEMMA ReloadingKept ==
    ASSUME TypeOK, calm, Next, Reloading
    PROVE  Reloading'
<1>1. CASE UNCHANGED <<jobs, typeVars>>
  BY <1>1 DEF Reloading, Busy, typeVars
<1>2. CASE Begins
  <2>1. Busy = {}
    BY <1>2 DEF Begins, BetweenReloads, Busy
  <2>2. Busy' \subseteq {Len(jobs) + 1}
    BY <1>2, <2>1 DEF Begins, Busy
  <2>3. jobs'[Len(jobs) + 1].pc = "extracting" => jobs'[Len(jobs) + 1].prev = dts'
    BY <1>2 DEF Begins, typeVars
  <2>4. \A j \in Busy' : jobs'[j].pc # "stopping" => jobs'[j].pc = "extracting"
    BY <1>2, <2>2 DEF Begins, Busy
  <2> QED BY <2>2, <2>3, <2>4 DEF Reloading
<1>3. ASSUME NEW j \in DOMAIN jobs, Turn(j) PROVE Reloading'
  <2>1. CASE BetweenReloads /\ j = 1
    <3>1. Busy = {}
      BY <2>1 DEF BetweenReloads, Busy
    <3>2. Busy' \subseteq {1}
      BY <1>3, <2>1, <3>1 DEF Turn, Busy
    <3> QED BY <3>2 DEF Reloading
  <2>2. CASE ~(BetweenReloads /\ j = 1)
    <3>1. j \in Busy
      BY <1>3, <2>2 DEF Turn, Busy
    <3>2. Busy' \subseteq {j}
      BY <1>3, <3>1 DEF Turn, Busy, Reloading
    <3>3. jobs'[j].pc \in {"extracting", "generating"} =>
            UNCHANGED dts /\ jobs'[j].prev \in {dts, jobs[j].prev}
              /\ (jobs'[j].pc = "generating" => jobs[j].pc = "extracting" /\ jobs'[j].prev = jobs[j].prev)
              /\ (jobs'[j].pc = "extracting" => jobs'[j].prev = dts)
      BY <1>3, <2>2 DEF Turn, typeVars
    <3>4. j \in Busy' /\ jobs'[j].pc # "stopping" => jobs'[j].pc \in {"extracting", "generating"}
      BY DEF Busy
    <3>5. j # 1 /\ j \in Busy' /\ jobs'[j].pc # "stopping" => jobs'[j].prev = dts'
      BY <3>1, <3>3, <3>4 DEF Reloading
    <3> QED BY <3>2, <3>5 DEF Reloading
  <2> QED BY <2>1, <2>2
<1> QED BY <1>1, <1>2, <1>3, StepTurns

-----------------------------------------------------------------------------
(* The steps, by what becomes of the last server. *)

SameServer(s, t) == t.st = s.st /\ t.from = s.from /\ t.crashed = s.crashed

LastChange(s, t) ==
    \/ SameServer(s, t)
    \/ s.st = "spawned" /\ (IF src.builds THEN t.st = "built" /\ t.from = src
                                          ELSE t.st = "dead")
    \/ s.st = "built" /\ t.st = "serving" /\ t.from = s.from
    \/ s.st = "built" /\ Serving # {}
    \/ s.st = "serving" /\ t.st = "dead" /\ t.crashed
    \/ s.st \in {"spawned", "built", "serving"} /\ \E p \in Alive : procs[p].sig \in {"TERM", "left"}
    \/ s.st = "dead" /\ t.st = "reaped" /\ t.crashed = s.crashed

(* A server is started, or the last one goes on while nothing else starts.  *)
ServerTurn ==
    \/ exited'
    \/ jobs' # jobs /\ (LastServer'.st \in {"spawned", "failed"} \/ Waiting' # {})
    \/ Waiting' = Waiting /\ LastChange(LastServer, LastServer')

(* Which server is the last one does not change with one of them.           *)
LEMMA LastEdited ==
    ASSUME NEW p \in DOMAIN procs, NEW st, NEW sig, Edited(procs, p, st, sig, procs'),
           SameServer(procs[p], procs'[p]) \/ LastChange(procs[p], procs'[p])
    PROVE  LastChange(LastServer, LastServer')
<1>1. Len(procs') = Len(procs) /\ \A q \in DOMAIN procs : q # p => procs'[q] = procs[q]
  BY DEF Edited
<1>2. procs' \in Seq(Procs)
  BY DEF Edited
<1>3. DOMAIN procs = DOMAIN procs' /\ DOMAIN procs' = 1..Len(procs') /\ Len(procs') \in Nat
  BY <1>2 DEF Edited
<1>4. Len(procs) \in DOMAIN procs
  BY <1>1, <1>3
<1>5. CASE p = Len(procs)
  BY <1>1, <1>5 DEF LastServer, LastChange
<1>6. CASE p # Len(procs)
  BY <1>1, <1>4, <1>6 DEF LastServer, LastChange, SameServer
<1> QED BY <1>5, <1>6

(* A signal changes nothing else.                                           *)
LEMMA SignalKeeps ==
    ASSUME NEW ps \in Seq(Procs), NEW p \in DOMAIN ps, NEW x \in Signals
    PROVE  SameServer(ps[p], [ps EXCEPT ![p].sig = x][p])
<1>1. ps[p] \in Procs
  OBVIOUS
<1> DEFINE v == [ps[p] EXCEPT !.sig = x]
<1>2. v \in Procs /\ SameServer(ps[p], v)
  BY <1>1 DEF Procs, Signals, SameServer
<1>3. [ps EXCEPT ![p].sig = x] = [ps EXCEPT ![p] = v]
  OBVIOUS
<1> HIDE DEF v
<1> QED BY <1>2, <1>3, Replaced

(* A server that begins to listen is still of the same sources (Listens).   *)
LEMMA ListensKeeps ==
    ASSUME NEW ps \in Seq(Procs), NEW p \in DOMAIN ps
    PROVE  [ps EXCEPT ![p].st = "serving"][p].from = ps[p].from
<1>1. ps[p] \in Procs
  OBVIOUS
<1> DEFINE v == [ps[p] EXCEPT !.st = "serving"]
<1>2. v \in Procs /\ v.from = ps[p].from
  BY <1>1 DEF Procs
<1>3. [ps EXCEPT ![p].st = "serving"] = [ps EXCEPT ![p] = v]
  OBVIOUS
<1> HIDE DEF v
<1> QED BY <1>2, <1>3, Replaced

(* A server that was built is of the sources it was built from (Builds).    *)
IsFrom(f, p, t) == t[p].from = f

LEMMA BuildsFrom ==
    ASSUME NEW ps \in Seq(Procs), NEW p \in DOMAIN ps, NEW f \in SourceStates
    PROVE  IsFrom(f, p, [ps EXCEPT ![p].st = "built", ![p].from = f])
<1>1. ps[p] \in Procs
  OBVIOUS
<1> DEFINE v == [ps[p] EXCEPT !.st = "built", !.from = f]
<1>2. v \in Procs /\ v.from = f
  BY <1>1 DEF Procs
<1> DEFINE t == [ps EXCEPT ![p].st = "built", ![p].from = f]
<1>3. t = [ps EXCEPT ![p] = v]
  OBVIOUS
<1> HIDE DEF v, t
<1>4. IsFrom(f, p, t)
  BY <1>2, <1>3, Replaced DEF IsFrom
<1> QED BY <1>4 DEF t

(* A crash is remembered (Crashes).                                         *)
LEMMA CrashRemembered ==
    ASSUME procs \in Seq(Procs), NEW p \in DOMAIN procs
    PROVE  [Dead(p) EXCEPT ![p].crashed = TRUE][p].crashed
<1> DEFINE d == Dead(p)
<1>1. d \in Seq(Procs) /\ p \in DOMAIN d
  BY DeadFacts DEF Edited
<1> HIDE DEF d
<1>2. d[p] \in Procs
  BY <1>1
<1> DEFINE v == [d[p] EXCEPT !.crashed = TRUE]
<1>3. v \in Procs /\ v.crashed
  BY <1>2 DEF Procs
<1> DEFINE t == [d EXCEPT ![p].crashed = TRUE]
<1>4. t = [d EXCEPT ![p] = v]
  BY <1>1
<1> HIDE DEF v, t
<1>5. t[p].crashed
  BY <1>1, <1>3, <1>4, Replaced
<1> QED BY <1>5 DEF t, d

(* It is remembered when the exit is handled (ExitEvent).                   *)
LEMMA ReapedKeeps ==
    ASSUME procs \in Seq(Procs), NEW p \in DOMAIN procs
    PROVE  Reaped(p)[p].crashed = procs[p].crashed
<1>1. procs[p] \in Procs
  OBVIOUS
<1> DEFINE v == [procs[p] EXCEPT !.st = "reaped", !.sig = "none"]
<1>2. v \in Procs /\ v.crashed = procs[p].crashed
  BY <1>1 DEF Procs
<1>3. Reaped(p) = [procs EXCEPT ![p] = v]
  BY DEF Reaped
<1> HIDE DEF v
<1> QED BY <1>2, <1>3, Replaced

(* What the system does to a process.                                       *)
LEMMA SystemServers ==
    ASSUME TypeOK, System
    PROVE  ServerTurn
<1>0. procs \in Seq(Procs) /\ src \in SourceStates
  BY DEF TypeOK
<1>1. Waiting' = Waiting
  BY DEF System, Builds, Listens, Crashes, Dies, ProcessStep, Waiting
<1>2. PICK p \in DOMAIN procs : Builds(p) \/ Listens(p) \/ Crashes(p) \/ Dies(p)
  BY DEF System
<1>3. Edited(procs, p, "dead", procs[p].sig, Dead(p))
  BY <1>0, DeadFacts
<1>4. CASE Builds(p)
  <2>1. procs[p].st = "spawned"
    BY <1>4 DEF Builds
  <2>2. CASE src.builds
    <3>1. procs' = [procs EXCEPT ![p].st = "built", ![p].from = src]
      BY <1>4, <2>2 DEF Builds
    <3>2. Edited(procs, p, "built", procs[p].sig, [procs EXCEPT ![p].st = "built", ![p].from = src])
      BY <1>0, BuiltFacts DEF States
    <3>3. IsFrom(src, p, [procs EXCEPT ![p].st = "built", ![p].from = src])
      BY <1>0, BuildsFrom
    <3>4. Edited(procs, p, "built", procs[p].sig, procs') /\ IsFrom(src, p, procs')
      BY <3>1, <3>2, <3>3
    <3>5. LastChange(procs[p], procs'[p])
      BY <2>1, <2>2, <3>4 DEF LastChange, IsFrom, Edited
    <3> QED BY <1>1, <3>4, <3>5, LastEdited DEF ServerTurn
  <2>3. CASE ~src.builds
    <3>1. procs' = Dead(p)
      BY <1>4, <2>3 DEF Builds
    <3>2. Edited(procs, p, "dead", procs[p].sig, procs')
      BY <1>3, <3>1
    <3>3. LastChange(procs[p], procs'[p])
      BY <2>1, <2>3, <3>2 DEF LastChange, Edited
    <3> QED BY <1>1, <3>2, <3>3, LastEdited DEF ServerTurn
  <2> QED BY <2>2, <2>3
<1>5. CASE Listens(p)
  <2>1. procs[p].st = "built"
    BY <1>5 DEF Listens
  <2>2. CASE Serving = {}
    <3>1. procs' = [procs EXCEPT ![p].st = "serving"]
      BY <1>5, <2>2 DEF Listens
    <3>2. Edited(procs, p, "serving", procs[p].sig, [procs EXCEPT ![p].st = "serving"])
      BY <1>0, StateFacts DEF States
    <3>3. [procs EXCEPT ![p].st = "serving"][p].from = procs[p].from
      BY <1>0, ListensKeeps
    <3>4. Edited(procs, p, "serving", procs[p].sig, procs') /\ procs'[p].from = procs[p].from
      BY <3>1, <3>2, <3>3
    <3>5. LastChange(procs[p], procs'[p])
      BY <2>1, <3>4 DEF LastChange, Edited
    <3> QED BY <1>1, <3>4, <3>5, LastEdited DEF ServerTurn
  <2>3. CASE Serving # {}
    <3>1. PICK st : Edited(procs, p, st, procs[p].sig, procs')
      BY <1>0, <1>5, <2>3, EndedFacts DEF Listens
    <3>2. LastChange(procs[p], procs'[p])
      BY <2>1, <2>3 DEF LastChange
    <3> QED BY <1>1, <3>1, <3>2, LastEdited DEF ServerTurn
  <2> QED BY <2>2, <2>3
<1>6. CASE Crashes(p)
  <2>1. procs[p].st = "serving" /\ procs' = [Dead(p) EXCEPT ![p].crashed = TRUE]
    BY <1>6 DEF Crashes
  <2>2. Edited(procs, p, "dead", procs[p].sig, procs') /\ procs'[p].crashed
    BY <1>0, <2>1, CrashedFacts, CrashRemembered
  <2>3. LastChange(procs[p], procs'[p])
    BY <2>1, <2>2 DEF LastChange, Edited
  <2> QED BY <1>1, <2>2, <2>3, LastEdited DEF ServerTurn
<1>7. CASE Dies(p)
  <2>1. p \in Alive /\ procs[p].sig \in {"TERM", "left"} /\ procs' = Ended(p)
    BY <1>7 DEF Dies
  <2>2. LastChange(procs[p], procs'[p])
    BY <2>1 DEF LastChange, Alive
  <2>3. PICK st : Edited(procs, p, st, procs[p].sig, procs')
    BY <1>0, <2>1, EndedFacts
  <2> QED BY <1>1, <2>2, <2>3, LastEdited DEF ServerTurn
<1> QED BY <1>2, <1>4, <1>5, <1>6, <1>7

(* What a server's end means for the last one, at a calm pace.              *)
LEMMA ExitServers ==
    ASSUME TypeOK, calm, NEW p \in DOMAIN procs, ExitEvent(p)
    PROVE  ServerTurn
<1>0. /\ procs \in Seq(Procs) /\ jobs \in Seq(Jobs) /\ dts \in Nat
      /\ Edited(procs, p, "reaped", "none", Reaped(p))
      /\ Reaped(p)[p].crashed = procs[p].crashed
  BY ReapedFacts, ReapedKeeps DEF TypeOK
<1>1. procs[p].st = "dead" /\ Resolve(Reaped(p), p, 0)
  BY DEF ExitEvent
<1>2. ASSUME NEW j \in DOMAIN jobs, jobs[j].pc = "stopping", StartAndExtract(Reaped(p), jobs, j)
      PROVE  ServerTurn
  <2>1. Reaped(p) \in Seq(Procs)
    BY <1>0 DEF Edited
  <2>2. Started(Reaped(p), jobs, j)
    BY <1>0, <1>2, <2>1, StartFacts
  <2>3. LastServer'.st \in {"spawned", "failed"} /\ jobs'[j].pc # "stopping"
    BY <2>2, StartedLast
  <2> QED BY <1>2, <2>3 DEF ServerTurn
<1>3. CASE procs' = Reaped(p) /\ UNCHANGED jobs
  <2>1. Edited(procs, p, "reaped", "none", procs') /\ LastChange(procs[p], procs'[p])
    BY <1>0, <1>1, <1>3 DEF Edited, LastChange
  <2>2. Waiting' = Waiting
    BY <1>3 DEF Waiting
  <2> QED BY <2>1, <2>2, LastEdited DEF ServerTurn
<1>4. CASE exited'
  BY <1>4 DEF ServerTurn
<1> QED BY <1>1, <1>2, <1>3, <1>4 DEF Resolve, Exit

(* stop() leaves the last server as it is, but for the signal.              *)
LEMMA StopServers ==
    ASSUME TypeOK, HasToStop, stop
    PROVE  LastChange(LastServer, LastServer')
<1>1. goProcess \in DOMAIN procs /\ procs \in Seq(Procs) /\ "TERM" \in Signals
  BY KnownFacts DEF TypeOK, Signals
<1>2. procs' = [procs EXCEPT ![goProcess].sig = "TERM"]
  BY DEF stop, Signalled
<1>3. SameServer(procs[goProcess], [procs EXCEPT ![goProcess].sig = "TERM"][goProcess])
  BY <1>1, SignalKeeps
<1>4. SameServer(procs[goProcess], procs'[goProcess])
  BY <1>2, <1>3
<1> QED BY <1>1, <1>4, StopFacts, LastEdited

(* Every step at a calm pace.                                               *)
LEMMA StepServers ==
    ASSUME TypeOK, calm, Next
    PROVE  ServerTurn
<1>0. /\ jobs \in Seq(Jobs) /\ Len(jobs) \in Nat /\ DOMAIN jobs = 1..Len(jobs)
      /\ procs \in Seq(Procs) /\ dts \in Nat
  BY DEF TypeOK
<1>1. CASE procs' = procs /\ Waiting' = Waiting
  BY <1>1 DEF ServerTurn, LastChange, SameServer, LastServer
<1>2. ASSUME NEW j \in DOMAIN jobs, buildStart \/ Extract(j) \/ Commit(j) PROVE ServerTurn
  <2>1. PICK i \in DOMAIN jobs : Turn(i) /\ jobs[i].pc # "stopping"
    BY <1>2, LoopTurns
  <2>2. Waiting' = Waiting
    BY <2>1 DEF Turn, Waiting
  <2>3. procs' = procs \/ exited'
    BY <1>2 DEF buildStart, Extract, Commit, Exit
  <2> QED BY <1>1, <2>2, <2>3 DEF ServerTurn
<1>3. CASE DebounceFires
  BY <1>3, DebounceBegins DEF ServerTurn
<1>4. ASSUME NEW p \in DOMAIN procs, ExitEvent(p) \/ KillTimeout(p) PROVE ServerTurn
  BY <1>4, ExitServers DEF KillTimeout
<1>5. CASE System
  BY <1>5, SystemServers
<1>6. CASE Edit
  <2>1. procs' = procs /\ Waiting' = Waiting
    BY <1>6 DEF Edit, Waiting
  <2> QED BY <1>1, <2>1
<1>7. CASE Signal \/ HttpClose
  <2>1. Waiting' = Waiting
    BY <1>7 DEF Signal, HttpClose, Waiting
  <2>2. exited' \/ procs' = procs \/ (HasToStop /\ stop)
    BY <1>7 DEF Signal, HttpClose
  <2> QED BY <1>1, <2>1, <2>2, StopServers DEF ServerTurn
<1>8. CASE EarlySignal
  BY <1>8 DEF EarlySignal, ServerTurn
<1>9. 1 \in DOMAIN jobs
  BY <1>0 DEF TypeOK
<1> QED BY <1>2, <1>3, <1>4, <1>5, <1>6, <1>7, <1>8, <1>9 DEF Next, Loop, User

-----------------------------------------------------------------------------
(* The sources are followed. *)

(* While the sources are followed and no reload waits, no server is ending, *)
(* so that none but the known one can be serving.                           *)
LEMMA NobodyEnds ==
    ASSUME IInv, calm, Followed, Waiting = {}
    PROVE  /\ \A p \in Alive : procs[p].sig \notin {"TERM", "left"}
           /\ Serving \subseteq {goProcess}
<1>1. OneAtATime /\ Apart /\ 0 \notin DOMAIN procs
  BY DEF IInv, Pace, Stops, TypeOK, Followed
<1>2. \A p \in DOMAIN procs : ~Ending(procs[p])
  BY <1>1 DEF OneAtATime, Followed
<1> QED BY <1>1, <1>2 DEF OneAtATime, Apart, Ending, Alive, Serving

(* A reload that begins will see to the types.                              *)
LEMMA BeginsFollows ==
    ASSUME Begins
    PROVE  TypesFollow'
<1>1. Busy = {}
  BY DEF Begins, BetweenReloads, Busy
<1>2. Busy' \subseteq {Len(jobs) + 1}
  BY <1>1 DEF Begins, Busy
<1>3. \A j \in Busy' : jobs'[j].pc # "generating"
  BY <1>2 DEF Begins
<1>4. (\E j \in DOMAIN jobs' : jobs'[j].pc # "done") \/ LastServer'.st = "failed"
  BY DEF Begins, FailedNow
<1> QED BY <1>3, <1>4 DEF TypesFollow

(* And to the server, as soon as the debounce delay is over.                *)
LEMMA DebounceFollows ==
    ASSUME TypeOK, calm, DebounceFires
    PROVE  TypesFollow' /\ ServerFollows'
<1>1. Begins /\ (LastServer'.st \in {"spawned", "failed"} \/ Waiting' # {})
  BY DebounceBegins
<1> QED BY <1>1, BeginsFollows DEF ServerFollows

(* The types go on following the sources.                                   *)
LEMMA TypesKept ==
    ASSUME TypeOK, calm, ~exited', Next, Reloading, TypesFollow, UNCHANGED src
    PROVE  TypesFollow'
<1>0. files.openapi = dts
  BY DEF TypeOK
<1>1. CASE UNCHANGED <<jobs, typeVars>>
  <2>1. LastServer.st = "failed" => LastServer'.st = "failed"
    BY <1>1, StepServers DEF ServerTurn, LastChange, SameServer
  <2> QED BY <1>1, <2>1 DEF TypesFollow, Busy, typeVars
<1>2. CASE Begins
  BY <1>2, BeginsFollows
<1>3. ASSUME NEW j \in DOMAIN jobs, Turn(j) PROVE TypesFollow'
  <2>1. Busy \subseteq {j}
    BY <1>3 DEF Turn, Busy, BetweenReloads, Reloading
  <2>2. Busy' \subseteq {j}
    BY <1>3, <2>1 DEF Turn, Busy
  <2>3. jobs'[j].pc = "generating" => src.builds /\ jobs'[j].new.openapi = src.openapi
    BY <1>3 DEF Turn
  <2>4. CASE jobs'[j].pc # "done"
    BY <1>3, <2>2, <2>3, <2>4 DEF TypesFollow, Turn
  <2>5. CASE jobs'[j].pc = "done" /\ (~src.builds \/ FailedNow)
    BY <2>2, <2>5 DEF TypesFollow, FailedNow
  <2>6. CASE jobs'[j].pc = "done" /\ ~(~src.builds \/ FailedNow)
    <3>1. /\ jobs[j].pc = "generating" /\ j \in Busy
          /\ IF j = 1 \/ jobs[j].new.openapi # jobs[j].prev
             THEN dts' = jobs[j].new.openapi /\ files' = jobs[j].new
             ELSE UNCHANGED typeVars
      BY <1>3, <2>6 DEF Turn, Busy
    <3>2. jobs[j].new.openapi = src.openapi /\ (j # 1 => jobs[j].prev = files.openapi)
      BY <1>0, <3>1 DEF TypesFollow, Reloading
    <3>3. files'.openapi = src'.openapi
      BY <3>1, <3>2 DEF typeVars
    <3> QED BY <2>2, <2>6, <3>3 DEF TypesFollow
  <2> QED BY <2>4, <2>5, <2>6
<1> QED BY <1>1, <1>2, <1>3, StepTurns

(* The server goes on following the sources: it is not told to end, and     *)
(* finds its port free.                                                     *)
LEMMA ServerKept ==
    ASSUME IInv, calm, ~exited', Next, Followed, ServerFollows, UNCHANGED src,
           goProcess \in {0, Len(procs)}
    PROVE  ServerFollows'
<1> DEFINE s == LastServer
           t == LastServer'
<1>1. CASE jobs' # jobs /\ (t.st \in {"spawned", "failed"} \/ Waiting' # {})
  BY <1>1 DEF ServerFollows
<1>2. CASE Waiting' = Waiting /\ Waiting # {}
  BY <1>2 DEF ServerFollows
<1>3. CASE Waiting = {} /\ LastChange(s, t)
  <2>1. /\ \A p \in Alive : procs[p].sig \notin {"TERM", "left"}
        /\ Serving \subseteq {goProcess}
    BY <1>3, NobodyEnds
  <2>2. 0 \notin DOMAIN procs
    BY DEF IInv, TypeOK
  <2>3. s.st = "built" => Serving = {}
    BY <2>1, <2>2 DEF Serving, LastServer
  <2>4. \/ s.st \in {"spawned", "failed"}
        \/ s.st \in {"built", "serving"} /\ s.from = src
        \/ s.st \in {"dead", "reaped"} /\ (s.crashed \/ ~src.builds)
    BY <1>3 DEF ServerFollows
  <2>5. \/ SameServer(s, t)
        \/ s.st = "spawned" /\ (IF src.builds THEN t.st = "built" /\ t.from = src
                                              ELSE t.st = "dead")
        \/ s.st = "built" /\ t.st = "serving" /\ t.from = s.from
        \/ s.st = "serving" /\ t.st = "dead" /\ t.crashed
        \/ s.st = "dead" /\ t.st = "reaped" /\ t.crashed = s.crashed
    BY <1>3, <2>1, <2>3 DEF LastChange
  <2> HIDE DEF s
  <2>6. \/ t.st \in {"spawned", "failed"}
        \/ t.st \in {"built", "serving"} /\ t.from = src
        \/ t.st \in {"dead", "reaped"} /\ (t.crashed \/ ~src.builds)
    <3> HIDE DEF t
    <3> QED BY <2>4, <2>5 DEF SameServer
  <2> QED BY <2>6 DEF ServerFollows
<1>4. TypeOK
  BY DEF IInv
<1> QED BY <1>1, <1>2, <1>3, <1>4, StepServers DEF ServerTurn

(* A start waits for the build of the first server.                         *)
LEMMA InitFollows == Init => Follows
<1> SUFFICES ASSUME Init PROVE Follows
  OBVIOUS
<1>1. PICK st \in {"spawned", "failed"} : procs = <<Fresh(st)>>
  BY DEF Init
<1>2. goProcess = Len(procs) /\ Len(procs) = 1 /\ LastServer = Fresh(st) /\ Fresh(st).st = st
  BY <1>1, EntryFacts DEF LastServer, States, Init
<1>3. PICK pc \in {"waiting", "extracting"} : jobs = <<Job(pc, 0)>>
  BY DEF Init
<1>4. DOMAIN jobs = {1} /\ jobs[1].pc = pc
  BY <1>3, EntryFacts
<1>5. Reloading
  BY <1>4 DEF Reloading, Busy
<1>6. TypesFollow
  BY <1>4 DEF TypesFollow, Busy
<1>7. ServerFollows
  BY <1>2 DEF ServerFollows
<1> QED BY <1>2, <1>5, <1>6, <1>7 DEF Follows

(* Each step keeps the sources followed, or leaves an edit to follow.       *)
LEMMA FollowsKept == IInv /\ Follows /\ [Next]_vars => Follows'
<1> SUFFICES ASSUME IInv, Follows, [Next]_vars PROVE Follows'
  OBVIOUS
<1>1. CASE Next
  <2> SUFFICES ASSUME ~exited' PROVE Follows'
    BY DEF Follows
  <2>0. TypeOK
    BY DEF IInv
  <2>1. Kind /\ UNCHANGED <<plugin, calm>>
    BY <1>1, <2>0, StepKinds, OthersKept
  <2>2. ~exited
    BY <1>1 DEF Next, Loop, User, System, buildStart, Extract, Commit, DebounceFires, ExitEvent,
       KillTimeout, Edit, Signal, EarlySignal, HttpClose, Builds, Listens, Crashes, Dies,
       ProcessStep, Free
  <2>3. goProcess \in {0, Len(procs)} /\ goProcess' \in {0, Len(procs')} /\ Len(procs') # 0
    BY <2>0, <2>1, <2>2, KnownIsLast DEF Follows
  <2>4. ASSUME calm PROVE Reloading' /\ (Followed' => TypesFollow' /\ ServerFollows')
    <3>1. Reloading'
      BY <1>1, <2>0, <2>2, <2>4, ReloadingKept DEF Follows
    <3>2. CASE DebounceFires
      BY <2>0, <2>4, <3>1, <3>2, DebounceFollows
    <3>3. ASSUME ~DebounceFires, Followed' PROVE TypesFollow' /\ ServerFollows'
      <4>1. Followed /\ UNCHANGED src
        BY <1>1, <2>0, <3>3, FollowedBefore
      <4>2. Reloading /\ TypesFollow /\ ServerFollows
        BY <2>2, <2>4, <4>1 DEF Follows
      <4>3. TypesFollow'
        BY <1>1, <2>0, <2>4, <3>3, <4>1, <4>2, TypesKept
      <4>4. ServerFollows'
        BY <1>1, <2>3, <2>4, <4>1, <4>2, ServerKept
      <4> QED BY <4>3, <4>4
    <3> QED BY <3>1, <3>2, <3>3
  <2> QED BY <2>1, <2>3, <2>4 DEF Follows
<1>2. CASE UNCHANGED vars
  BY <1>2 DEF vars, envVars, sourceVars, typeVars, quitVars, Follows, Reloading, Busy, Followed,
              TypesFollow, ServerFollows, Waiting, LastServer
<1> QED BY <1>1, <1>2

(* The sources are followed in every execution.                             *)
THEOREM FollowsInvariance == Spec => [](IInv /\ Follows)
<1>1. Init => Follows
  BY InitFollows
<1> QED BY <1>1, FollowsKept, Invariance, PTL DEF Spec

(* When an edit was seen and nothing is going on any more, the server that  *)
(* runs, if any, is of the last edit, and only a crash, sources that do not *)
(* build or a missing toolchain are reasons for there being none.           *)
THEOREM ServerIsCurrent == Spec => []ServerFollowsSources
<1>1. IInv /\ Follows => ServerFollowsSources
  <2> SUFFICES ASSUME IInv, Follows, calm, Quiet, ~missed
               PROVE  /\ Serving \subseteq {Len(procs)}
                      /\ Serving # {} => LastServer.from = src
                      /\ Serving = {} => ~src.builds \/ LastServer.crashed \/ LastServer.st = "failed"
    BY DEF ServerFollowsSources
  <2>1. Followed /\ Waiting = {} /\ ~exited
    BY DEF Quiet, Followed, Waiting
  <2>2. /\ Serving \subseteq {goProcess} /\ goProcess \in {0, Len(procs)}
        /\ ServerFollows /\ 0 \notin DOMAIN procs
    BY <2>1, NobodyEnds DEF Follows, IInv, TypeOK
  <2>3. Serving \subseteq {Len(procs)}
    BY <2>2 DEF Serving
  <2>4. Serving # {} => LastServer.st = "serving"
    BY <2>3 DEF Serving, LastServer
  <2>5. LastServer.st \in {"spawned", "built", "serving"} => LastServer.st = "serving" /\ Serving # {}
    <3>1. Len(procs) \in DOMAIN procs
      BY <2>1 DEF Follows, IInv, TypeOK
    <3> QED BY <3>1 DEF Quiet, Alive, Serving, LastServer
  <2> QED BY <2>1, <2>2, <2>3, <2>4, <2>5 DEF ServerFollows
<1> QED BY <1>1, FollowsInvariance, PTL

(* And the OpenAPI types on disk are those of the last edit, if it builds.  *)
THEOREM TypesAreCurrent == Spec => []OpenAPITypesFollow
<1>1. Follows => OpenAPITypesFollow
  <2> SUFFICES ASSUME Follows, calm, Quiet, ~missed, LastServer.st # "failed", src.builds
               PROVE  files.openapi = src.openapi
    BY DEF OpenAPITypesFollow
  <2>1. Followed /\ \A j \in DOMAIN jobs : jobs[j].pc = "done"
    BY DEF Quiet, Followed
  <2> QED BY <2>1 DEF Follows, TypesFollow, Quiet
<1> QED BY <1>1, FollowsInvariance, PTL

=============================================================================
