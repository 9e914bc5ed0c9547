----------------------------- MODULE DevReload -----------------------------
(***************************************************************************)
(* The dev-mode plugins for Vite and Next.js: a Go server process          *)
(* (packages/shiftapi/src/goServer.ts), restarted a debounce delay after   *)
(* an edit, and the generated TypeScript client, rewritten when its types  *)
(* change (packages/vite-plugin/src/index.ts, packages/next/src/index.ts,  *)
(* packages/shiftapi/src/codegen.ts).                                      *)
(*                                                                         *)
(* Three parties interleave: the user edits, quits; the operating system   *)
(* builds, runs and ends the servers; the plugin's event loop runs one     *)
(* callback at a time.  A callback goes on without a gap from the end of   *)
(* stop() through spawn to the synchronous "go run" that extracts the      *)
(* specifications, which blocks the loop; it then awaits generateTypes.    *)
(*                                                                         *)
(* A process stands for the group of a "go run": the server it builds and  *)
(* runs, and the "go run" itself, whose exit is the one that is noticed.   *)
(* It exits with its server, or, once told to end, before it.  Left out:   *)
(* which port is free when the plugin starts, the files' contents beyond   *)
(* what the two specifications look like, the logs.                        *)
(***************************************************************************)
EXTENDS Naturals, Sequences

CONSTANTS
    Sources,    \* states the Go sources may be in
    Plugins,    \* the plugins explored
    Paces,      \* the values of calm explored
    MaxEdits    \* bound: edits of the Go sources

(* What can be told of the sources: whether they build, and the types that  *)
(* their OpenAPI and AsyncAPI specifications stand for.                     *)
SourceStates == [builds : BOOLEAN, openapi : Nat \ {0}, asyncapi : Nat]

ASSUME DevAssumption ==
    /\ Sources \subseteq SourceStates
    /\ Plugins \subseteq {"vite", "next"}
    /\ Paces \subseteq BOOLEAN
    /\ MaxEdits \in Nat

VARIABLES
    plugin,
    calm,       \* each reload ends before the next begins; every signal
                \* sent to a group finds it; a server told to end is gone
                \* when its "go run" is, and that is noticed in five seconds
    src,        \* the sources as they are now
    edits,      \* number of edits so far
    missed,     \* the watcher was not there for the last edit
    watching,   \* edits reach the plugin
    timer,      \* debounceTimer is armed
    jobs,       \* start-up (the first) and every reload
    procs,      \* every server process
    goProcess,  \* the one the manager knows, 0 for null
    dts,        \* generatedDts, 0 for the empty string
    files,      \* what the client on disk was generated from
    quitOn,     \* processes whose stop() a signal handler awaits
    exited      \* the plugin's process is gone

sourceVars == <<src, edits, missed>>
typeVars   == <<dts, files>>
quitVars   == <<quitOn, exited>>
envVars    == <<plugin, calm>>
vars == <<envVars, sourceVars, watching, timer, jobs, procs, goProcess, typeVars, quitVars>>

NoSource == [builds |-> FALSE, openapi |-> 0, asyncapi |-> 0]
NoFiles  == [openapi |-> 0, asyncapi |-> 0]
Files    == [openapi : Nat, asyncapi : Nat]
Procs == [st : {"spawned", "built", "serving", "dead", "reaped", "failed"},
          sig : {"none", "TERM", "KILL", "left"}, from : SourceStates \cup {NoSource},
          crashed : BOOLEAN]
Jobs  == [pc : {"waiting", "stopping", "extracting", "generating", "done"},
          on : Nat, prev : Nat, new : Files]

TypeOK ==
    /\ plugin \in {"vite", "next"} /\ calm \in BOOLEAN
    /\ src \in SourceStates /\ edits \in 0..MaxEdits /\ missed \in BOOLEAN
    /\ watching \in BOOLEAN /\ timer \in BOOLEAN
    /\ jobs \in Seq(Jobs) /\ jobs # <<>>
    /\ \A j \in DOMAIN jobs : jobs[j].pc = "stopping" => jobs[j].on \in DOMAIN procs
    /\ procs \in Seq(Procs)
    /\ goProcess \in {0} \cup DOMAIN procs
    /\ dts \in Nat /\ files \in Files /\ files.openapi = dts
    /\ quitOn \subseteq DOMAIN procs /\ exited \in BOOLEAN

Alive   == {p \in DOMAIN procs : procs[p].st \in {"spawned", "built", "serving"}}
Serving == {p \in DOMAIN procs : procs[p].st = "serving"}

Fresh(st)  == [st |-> st, sig |-> "none", from |-> NoSource, crashed |-> FALSE]
Job(pc, p) == [pc |-> pc, on |-> p, prev |-> 0, new |-> NoFiles]
Done       == Job("done", 0)

-----------------------------------------------------------------------------
(* GoServerManager. *)

(* spawn: the process is there at once, or (go is not installed) never, and *)
(* start() settles before any other callback; goProcess holds it anyway.    *)
start(ps, st) ==
    /\ procs' = Append(ps, Fresh(st))
    /\ goProcess' = Len(ps) + 1

Signalled(p, sig) == [procs EXCEPT ![p].sig = sig]
Dead(p)           == [procs EXCEPT ![p].st = "dead", ![p].from = NoSource]
Reaped(p)         == [procs EXCEPT ![p].st = "reaped", ![p].sig = "none"]
Killed(p)         == [Dead(p) EXCEPT ![p].sig = "KILL"]

(* A server that was told to end outlives its "go run": the exit is handled *)
(* before it ends, and nobody waits for it, or kills it, any more.          *)
Left(p)           == [procs EXCEPT ![p].sig = "left"]
Ended(p)          == IF procs[p].sig = "left" THEN [Dead(p) EXCEPT ![p].st = "reaped"]
                     ELSE Dead(p)

(* stop() resolves at once if there is no process, or if the signal finds   *)
(* nobody: the group is gone, its exit only not handled yet.                *)
Known       == {p \in DOMAIN procs : p = goProcess /\ procs[p].st # "failed"}
HasToStop   == Known # {}
KillFails   == ~calm /\ HasToStop /\ procs[goProcess].st = "dead"

stop_KeepsProcess == procs' = Signalled(goProcess, "TERM") /\ UNCHANGED goProcess

stop == procs' = Signalled(goProcess, "TERM") /\ goProcess' = 0

forceKill_Nothing(ps, go) == ps

forceKill(ps, go) ==
    IF go = 0 \/ ps[go].st = "failed" THEN ps ELSE [ps EXCEPT ![go].sig = "TERM"]

(* process.exit: the "exit" listener kills the server that is known. *)
Exit(ps, go) == exited' = TRUE /\ procs' = forceKill(ps, go)

(* Next.js installs its watcher, and its signal handlers, after the first   *)
(* generation.                                                              *)
HandlersOn == plugin = "next" => jobs[1].pc = "done"

WatcherOn(j) == watching' = (watching \/ (plugin = "next" /\ j = 1))

(* What follows the end of stop() in a reload: a server is started and, if  *)
(* that works, the specifications are extracted.                            *)
StartAndExtract(ps, js, j) ==
    \E st \in {"spawned", "failed"} :
        /\ start(ps, st)
        /\ jobs' = [js EXCEPT ![j] =
               IF st = "failed" THEN Done ELSE [Job("extracting", 0) EXCEPT !.prev = dts]]

-----------------------------------------------------------------------------
(* The event loop is free: no "go run" blocks it.                           *)
Free == ~exited /\ \A j \in DOMAIN jobs : jobs[j].pc # "extracting"

BetweenReloads == \A j \in DOMAIN jobs : jobs[j].pc \in {"waiting", "done"}

Init ==
    /\ plugin \in Plugins /\ calm \in Paces
    /\ src \in Sources /\ edits = 0 /\ missed = FALSE
    /\ watching = (plugin = "vite")
    /\ timer = FALSE
    /\ \E st \in {"spawned", "failed"} : procs = <<Fresh(st)>>
    /\ goProcess = 1
    /\ jobs = <<Job(IF plugin = "vite" THEN "waiting" ELSE "extracting", 0)>>
    /\ dts = 0 /\ files = NoFiles
    /\ quitOn = {} /\ exited = FALSE

(* Vite calls buildStart some time after configureServer. *)
buildStart ==
    /\ Free /\ jobs[1].pc = "waiting" /\ (calm => BetweenReloads)
    /\ jobs' = [jobs EXCEPT ![1].pc = "extracting"]
    /\ UNCHANGED <<envVars, sourceVars, watching, timer, procs, goProcess, typeVars, quitVars>>

(* Only vite's buildStart lets the error out: the dev server ends.          *)
Extract(j) ==
    /\ ~exited /\ jobs[j].pc = "extracting"
    /\ \/ /\ src.builds
          /\ jobs' = [jobs EXCEPT ![j].pc = "generating",
                                  ![j].new = [openapi |-> src.openapi, asyncapi |-> src.asyncapi]]
          /\ UNCHANGED <<procs, exited, watching>>
       \/ /\ ~src.builds
          /\ jobs' = [jobs EXCEPT ![j] = Done]
          /\ IF plugin = "vite" /\ j = 1
             THEN Exit(procs, goProcess) ELSE UNCHANGED <<procs, exited>>
          /\ WatcherOn(j)
    /\ UNCHANGED <<envVars, sourceVars, timer, goProcess, typeVars, quitOn>>

Commit_FirstOnly(j) ==
    /\ Free /\ jobs[j].pc = "generating"
    /\ jobs' = [jobs EXCEPT ![j] = Done]
    /\ IF j = 1 \/ jobs[j].prev = 0
       THEN dts' = jobs[j].new.openapi /\ files' = jobs[j].new
       ELSE UNCHANGED typeVars
    /\ WatcherOn(j)
    /\ UNCHANGED <<envVars, sourceVars, timer, procs, goProcess, quitVars>>

(* generateTypes has settled.  A reload writes only if the types differ     *)
(* from those it knew when it began.                                        *)
Commit(j) ==
    /\ Free /\ jobs[j].pc = "generating"
    /\ jobs' = [jobs EXCEPT ![j] = Done]
    /\ IF j = 1 \/ jobs[j].new.openapi # jobs[j].prev
       THEN dts' = jobs[j].new.openapi /\ files' = jobs[j].new
       ELSE UNCHANGED typeVars
    /\ WatcherOn(j)
    /\ UNCHANGED <<envVars, sourceVars, timer, procs, goProcess, quitVars>>

DebounceFires ==
    /\ Free /\ timer /\ (calm => BetweenReloads /\ quitOn = {})
    /\ timer' = FALSE
    /\ \/ /\ ~HasToStop \/ KillFails
          /\ StartAndExtract(procs, Append(jobs, Job("stopping", 0)), Len(jobs) + 1)
       \/ /\ HasToStop
          /\ stop
          /\ jobs' = Append(jobs, Job("stopping", goProcess))
    /\ UNCHANGED <<envVars, sourceVars, watching, typeVars, quitVars>>

(* The promise of stop() resolves for process p. *)
Resolve(ps, p, go) ==
    \/ /\ p \in quitOn
       /\ Exit(ps, go) /\ goProcess' = go
       /\ UNCHANGED jobs
    \/ /\ p \notin quitOn
       /\ \E j \in DOMAIN jobs : jobs[j].pc = "stopping" /\ jobs[j].on = p
             /\ StartAndExtract(ps, jobs, j)
       /\ UNCHANGED exited
    \/ /\ p \notin quitOn
       /\ \A j \in DOMAIN jobs : ~(jobs[j].pc = "stopping" /\ jobs[j].on = p)
       /\ procs' = ps /\ goProcess' = go
       /\ UNCHANGED <<jobs, exited>>

(* The exit of a "go run".  Two listeners: start()'s forgets goProcess,     *)
(* whichever process that is by now; stop()'s resolves.                     *)
ExitEvent(p) ==
    /\ Free
    /\ \/ procs[p].st = "dead" /\ Resolve(Reaped(p), p, 0)
       \/ /\ ~calm /\ procs[p].sig = "TERM" /\ procs[p].st \in {"built", "serving"}
          /\ Resolve(Left(p), p, 0)
    /\ UNCHANGED <<envVars, sourceVars, watching, timer, typeVars, quitOn>>

(* No exit was handled in five seconds (the group lingers, or an extraction *)
(* blocks the loop): SIGKILL, and nobody waits for the exit any more.       *)
KillTimeout(p) ==
    /\ Free /\ ~calm /\ procs[p].sig = "TERM"
    /\ Resolve(Killed(p), p, goProcess)
    /\ UNCHANGED <<envVars, sourceVars, watching, timer, typeVars, quitOn>>

-----------------------------------------------------------------------------
(* The user. *)

Edit_IgnoredInReload ==
    /\ edits < MaxEdits /\ edits' = edits + 1
    /\ src' \in Sources \ {src}
    /\ timer' = (timer \/ (watching /\ ~exited /\ BetweenReloads))
    /\ missed' = ~watching
    /\ UNCHANGED <<envVars, watching, jobs, procs, goProcess, typeVars, quitVars>>

Edit ==
    /\ ~exited /\ edits < MaxEdits /\ edits' = edits + 1
    /\ src' \in Sources \ {src}
    /\ timer' = (timer \/ watching)
    /\ missed' = ~watching
    /\ UNCHANGED <<envVars, watching, jobs, procs, goProcess, typeVars, quitVars>>

(* SIGINT or SIGTERM; a second one finds no process and exits at once.      *)
Signal ==
    /\ Free /\ HandlersOn
    /\ timer' = FALSE
    /\ watching' = (watching /\ plugin = "vite")
    /\ \/ /\ ~HasToStop \/ KillFails
          /\ exited' = TRUE /\ goProcess' = 0 /\ UNCHANGED <<quitOn, procs>>
       \/ HasToStop /\ stop /\ quitOn' = quitOn \cup {goProcess} /\ UNCHANGED exited
    /\ UNCHANGED <<envVars, sourceVars, jobs, typeVars>>

(* Next.js has no handlers yet: nobody kills the server.                    *)
EarlySignal ==
    /\ Free /\ ~HandlersOn
    /\ exited' = TRUE
    /\ UNCHANGED <<envVars, sourceVars, watching, timer, jobs, procs, goProcess, typeVars, quitOn>>

(* Vite's HTTP server closes: nobody awaits this stop().                    *)
HttpClose ==
    /\ Free /\ plugin = "vite" /\ watching
    /\ timer' = FALSE /\ watching' = FALSE
    /\ \/ ~HasToStop /\ UNCHANGED <<procs, goProcess>>
       \/ KillFails /\ goProcess' = 0 /\ UNCHANGED procs
       \/ HasToStop /\ stop
    /\ UNCHANGED <<envVars, sourceVars, jobs, typeVars, quitVars>>

-----------------------------------------------------------------------------
(* The operating system, for as long as the plugin lives. *)
ProcessStep ==
    /\ ~exited
    /\ UNCHANGED <<envVars, sourceVars, watching, timer, jobs, goProcess, typeVars, quitVars>>

Builds(p) ==
    /\ procs[p].st = "spawned"
    /\ procs' = IF src.builds THEN [procs EXCEPT ![p].st = "built", ![p].from = src]
                ELSE Dead(p)
    /\ ProcessStep

(* The server listens, or ends because another one holds the port.          *)
Listens(p) ==
    /\ procs[p].st = "built"
    /\ procs' = IF Serving = {} THEN [procs EXCEPT ![p].st = "serving"] ELSE Ended(p)
    /\ ProcessStep

Crashes(p) ==
    /\ procs[p].st = "serving" /\ procs[p].sig = "none"
    /\ procs' = [Dead(p) EXCEPT ![p].crashed = TRUE]
    /\ ProcessStep

Dies(p) ==
    /\ p \in Alive /\ procs[p].sig \in {"TERM", "left"}
    /\ procs' = Ended(p)
    /\ ProcessStep

Loop ==
    \/ buildStart \/ DebounceFires
    \/ \E j \in DOMAIN jobs : Extract(j) \/ Commit(j)
    \/ \E p \in DOMAIN procs : ExitEvent(p) \/ KillTimeout(p)

System == \E p \in DOMAIN procs : Builds(p) \/ Listens(p) \/ Crashes(p) \/ Dies(p)

User == Edit \/ Signal \/ EarlySignal \/ HttpClose

Next == Loop \/ System \/ User

Spec == Init /\ [][Next]_vars

-----------------------------------------------------------------------------
(* Properties *)

(* Whoever stops a server is the only one to wait for its end, and nobody   *)
(* can stop it a second time: two reloads, or a reload and Ctrl-C, never go *)
(* on because of the same exit.  Nor does anybody wait for an exit that was *)
(* handled already, or go on waiting after the timeout (goServer.ts 58-87). *)
Waiting == {j \in DOMAIN jobs : jobs[j].pc = "stopping"}

StoppedOnce ==
    ~exited =>
        /\ \A i, j \in Waiting : jobs[i].on = jobs[j].on => i = j
        /\ \A j \in Waiting : jobs[j].on \notin quitOn
        /\ \A p \in quitOn \cup {jobs[j].on : j \in Waiting} :
              procs[p].sig = "TERM" /\ procs[p].st # "reaped"
        /\ \A p \in Known : procs[p].sig = "none"

(* The next three hold at a calm pace only (see the variable); what happens *)
(* when reloads overlap, servers linger or an exit is noticed late is what  *)
(* RestartsServer is about.                                                 *)

(* No server is left behind: one that nobody has told to end is the one     *)
(* that the manager would stop, and none outlives the plugin, unless a      *)
(* signal ended Next.js before it had installed its handlers: that does     *)
(* leave the server behind (next/src/index.ts 376-388).                     *)
NoOrphans ==
    calm => \A p \in Alive :
        procs[p].sig = "none" => p = goProcess /\ (exited => ~HandlersOn)

(* When nothing is going on any more.                                       *)
Quiet ==
    /\ watching /\ ~exited /\ quitOn = {} /\ ~timer
    /\ \A j \in DOMAIN jobs : jobs[j].pc = "done"
    /\ \A p \in Alive : procs[p].st = "serving"

LastServer == procs[Len(procs)]

(* Whatever the order of edits, exits and reloads, the server ends up       *)
(* running the last edit: it neither misses one nor finds its port taken.   *)
ServerFollowsSources ==
    calm /\ Quiet /\ ~missed =>
        /\ Serving \subseteq {Len(procs)}
        /\ Serving # {} => LastServer.from = src
        /\ Serving = {} => ~src.builds \/ LastServer.crashed \/ LastServer.st = "failed"

(* The same of the types generated from the OpenAPI specification.  (Those  *)
(* of the AsyncAPI one are written only along with them: changed alone,     *)
(* they stay as they were, codegen.ts 18.)                                  *)
OpenAPITypesFollow ==
    calm /\ Quiet /\ ~missed /\ LastServer.st # "failed" /\ src.builds =>
        files.openapi = src.openapi

-----------------------------------------------------------------------------
(* What the documentation says and the code does not do.                    *)

(* vite-plugin/README.md: "When .go files change, the plugin restarts the   *)
(* Go server".  So no server of older sources should answer for good, one   *)
(* apart that was told to end and outlives its "go run".                    *)
RestartsServer ==
    Quiet /\ ~missed /\ src.builds /\ LastServer.st # "failed" =>
        \A p \in Serving : procs[p].from = src \/ procs[p].sig = "left"
=============================================================================
