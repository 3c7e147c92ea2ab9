---------------------------- MODULE PanelRelease ----------------------------
(***************************************************************************)
(* The panel replaces itself: redeployPanel records a release and starts a *)
(* detached script on the host, which pulls the image, stops the panel,    *)
(* copies its database, swaps the container, waits until the new one is    *)
(* healthy and else puts the previous image and the copy back.             *)
(*                                                                         *)
(* A script is a systemd unit of its own: it survives the panel it stops,  *)
(* and nothing keeps a second one from running beside it.  The database is *)
(* its schema, the number of writes it holds, and whether its files belong *)
(* together; an image opens an older schema and migrates it, never a newer *)
(* one.                                                                    *)
(***************************************************************************)
EXTENDS Integers, FiniteSets

CONSTANTS
  Image,        \* the published images
  Schema,       \* the schema each brings
  Sound,        \* those that become healthy on a database they can open
  First,        \* the one that was deployed first
  None,
  NumReleases,  \* bound: release requests
  MaxWrites,    \* bound: writes of the panel
  MaxMishaps    \* bound: failing host commands and reboots of the host

ASSUME ReleaseAssumption ==
  /\ None \notin Image /\ First \in Sound /\ Sound \subseteq Image
  /\ Schema \in [Image -> Nat]
  /\ NumReleases \in Nat /\ MaxWrites \in Nat /\ MaxMishaps \in Nat

VARIABLES
  db,       \* the database on the volume
  panel,    \* the container of the panel's name
  ask,      \* per release, the request inside the panel process
  script,   \* per release, where its script is, the image it replaces, its copy
  acked,    \* history: the writes of a panel nobody was trying out
  overlap,  \* history: two scripts ran at the same time
  bereft,   \* history: a host command or a reboot failed a script that has no other way
  mixed,    \* history: files that rm did not remove lie beside the copy put back
  mishaps

history == <<acked, overlap, bereft, mixed>>
vars == <<db, panel, ask, script, history, mishaps>>

Release == 1..NumReleases

Missing == [files |-> "missing", schema |-> 0, writes |-> 0, ref |-> None]
NoPanel == [image |-> None, state |-> "none"]
Idle == [image |-> None, at |-> "idle", prev |-> None, copy |-> Missing]

Active(r) == script[r].at \notin {"idle", "gone"}
Serving == panel.state = "serving"

\* A script has swapped the container and may still undo it.
OnTrial == \E r \in Release : script[r].at \in {"health", "discard", "wipe", "restore", "rerun"}

\* No image to go back to.
NoWayBack(r) == script[r].prev \in {None, script[r].image}

Mishap == mishaps < MaxMishaps /\ mishaps' = mishaps + 1

-----------------------------------------------------------------------------
(* The panel process *)

\* What a stopped or removed panel was doing for its callers is lost.
Killed == [r \in Release |-> IF ask[r].at = "none" THEN ask[r] ELSE [ask[r] EXCEPT !.at = "ended"]]

\* Opening the database: a missing one is created, one of a newer schema or
\* with files that do not belong together is refused, an older one is migrated.
\* A container that failed is started again by the daemon.
Boot ==
  /\ panel.state \in {"booting", "failing"}
  /\ LET own == Schema[panel.image]
         opens == db.files # "torn" /\ db.schema <= own IN
     \/ /\ opens /\ panel.image \in Sound
        /\ db' = [db EXCEPT !.files = "whole", !.schema = own]
        /\ panel' = [panel EXCEPT !.state = "serving"]
     \/ /\ opens /\ panel.image \notin Sound
        /\ db' \in {db, [db EXCEPT !.files = "whole", !.schema = own]}
        /\ panel' = [panel EXCEPT !.state = "failing"]
     \/ /\ ~opens
        /\ panel' = [panel EXCEPT !.state = "failing"]
        /\ UNCHANGED db
  /\ UNCHANGED <<ask, script, history, mishaps>>

\* Anything the panel commits: operations, settings, users.
Write ==
  /\ Serving /\ db.writes < MaxWrites
  /\ db' = [db EXCEPT !.writes = @ + 1]
  /\ acked' = IF OnTrial THEN acked ELSE db.writes + 1
  /\ UNCHANGED <<panel, ask, script, overlap, bereft, mixed, mishaps>>

\* A release is asked for: by the webhook, which takes the recorded image for
\* deployed, or by a user.  The registry login is awaited next.
Ask(r, image) ==
  /\ Serving /\ ask[r].at = "none"
  /\ ask' = [ask EXCEPT ![r] = [image |-> image, at |-> "login"]]
  /\ UNCHANGED <<db, panel, script, history, mishaps>>

Webhook(r, image) == image # db.ref /\ Ask(r, image)
Manual(r, image) == Ask(r, image)

LoginFails(r) ==
  /\ Serving /\ ask[r].at = "login"
  /\ ask' = [ask EXCEPT ![r].at = "ended"]
  /\ UNCHANGED <<db, panel, script, history, mishaps>>

\* "All persistent state updates FIRST": the deployment is recorded as done.
Record(r) ==
  /\ Serving /\ ask[r].at = "login"
  /\ db' = [db EXCEPT !.ref = ask[r].image]
  /\ ask' = [ask EXCEPT ![r].at = "dispatch"]
  /\ UNCHANGED <<panel, script, history, mishaps>>

\* systemd-run starts the unit; its answer is another event.
Dispatch(r) ==
  /\ ask[r].at = "dispatch" /\ script[r].at = "idle"
  /\ script' = [script EXCEPT ![r] = [Idle EXCEPT !.image = ask[r].image, !.at = "pull"]]
  /\ overlap' = (overlap \/ \E q \in Release \ {r} : Active(q))
  /\ UNCHANGED <<db, panel, ask, acked, bereft, mixed, mishaps>>

\* The answer arrives or the connection fails; the record stays in either case.
Answer(r) ==
  /\ Serving /\ ask[r].at = "dispatch"
  /\ ask' = [ask EXCEPT ![r].at = "ended"]
  /\ \/ script[r].at # "idle" /\ UNCHANGED mishaps
     \/ Mishap
  /\ UNCHANGED <<db, panel, script, history>>

-----------------------------------------------------------------------------
(* The release script, command by command *)

Step(r, from, to) ==
  /\ script[r].at = from
  /\ script' = [script EXCEPT ![r].at = to]

Quits(r, from) == Step(r, from, "gone")

Untouched == UNCHANGED <<db, panel, ask>>

Pull(r) ==
  /\ Step(r, "pull", "inspect")
  /\ Untouched /\ UNCHANGED <<history, mishaps>>

\* "leaving current container running"
PullFails(r) ==
  /\ Quits(r, "pull")
  /\ Untouched /\ UNCHANGED <<history, mishaps>>

Inspect(r) ==
  /\ script[r].at = "inspect"
  /\ script' = [script EXCEPT ![r].prev = panel.image,
                              ![r].at = IF panel.image = None THEN "copy" ELSE "stop"]
  /\ Untouched /\ UNCHANGED <<history, mishaps>>

\* `|| echo ""`: docker does not answer and the panel counts as absent, so that it
\* is not stopped and its image is not known to whoever would put it back.
InspectFails(r) ==
  /\ panel.image # None /\ Step(r, "inspect", "copy") /\ Mishap
  /\ Untouched /\ UNCHANGED history

\* Faulty variant of Stop: the database is copied under its writer.
StopNothing(r) ==
  /\ Step(r, "stop", "copy")
  /\ Untouched /\ UNCHANGED <<history, mishaps>>

Stop(r) ==
  /\ panel.image # None
  /\ Step(r, "stop", "copy")
  /\ panel' = [panel EXCEPT !.state = "stopped"]
  /\ ask' = Killed
  /\ UNCHANGED <<db, history, mishaps>>

StopFails(r) ==
  /\ Quits(r, "stop")
  /\ \/ panel.image = None /\ UNCHANGED mishaps
     \/ Mishap
  /\ Untouched /\ UNCHANGED history

\* docker start, which does nothing for a container that runs or is not there.
Started == IF panel.state = "stopped" THEN [panel EXCEPT !.state = "booting"] ELSE panel

CopyBegins(r) ==
  /\ db.files # "missing"
  /\ script[r].at = "copy"
  /\ script' = [script EXCEPT ![r].copy = db, ![r].at = "copying"]
  /\ Untouched /\ UNCHANGED <<history, mishaps>>

\* The files are copied one after the other: what changes in between tears them.
CopyEnds(r) ==
  /\ script[r].at = "copying"
  /\ script' = [script EXCEPT ![r].at = "remove",
                              ![r].copy.files = IF db = script[r].copy THEN db.files ELSE "torn"]
  /\ Untouched /\ UNCHANGED <<history, mishaps>>

\* Faulty variant of CopyFails: the previous container is not started again.
CopyFailsSilently(r) ==
  /\ script[r].at \in {"copy", "copying"}
  /\ script' = [script EXCEPT ![r].copy = Missing, ![r].at = "gone"]
  /\ \/ script[r].at = "copy" /\ db.files = "missing" /\ UNCHANGED mishaps
     \/ Mishap
  /\ Untouched /\ UNCHANGED history

CopyFails(r) ==
  /\ script[r].at \in {"copy", "copying"}
  /\ script' = [script EXCEPT ![r].copy = Missing, ![r].at = "gone"]
  /\ \/ script[r].at = "copy" /\ db.files = "missing" /\ UNCHANGED mishaps
     \/ Mishap
  /\ panel' = Started
  /\ UNCHANGED <<db, ask, history>>

\* docker rm -f, and nobody looks at its answer here.
Remove(r) ==
  /\ Step(r, "remove", "run")
  /\ panel' = NoPanel /\ ask' = Killed
  /\ UNCHANGED <<db, history, mishaps>>

RemoveFails(r) ==
  /\ Step(r, "remove", "run")
  /\ Mishap
  /\ bereft' = (bereft \/ NoWayBack(r))
  /\ Untouched /\ UNCHANGED <<acked, overlap, mixed>>

\* docker run refuses a name that is taken.
Container(image, state) ==
  IF panel.image = None THEN [image |-> image, state |-> state] ELSE panel

\* Faulty variant of Run: the image that ran before is run again.
RunPrevious(r) ==
  /\ Step(r, "run", "health")
  /\ panel' = Container(script[r].prev, "booting")
  /\ UNCHANGED <<db, ask, history, mishaps>>

Run(r) ==
  /\ Step(r, "run", "health")
  /\ panel' = Container(script[r].image, "booting")
  /\ UNCHANGED <<db, ask, history, mishaps>>

RunFails(r) ==
  /\ Step(r, "run", "health")
  /\ panel' = Container(script[r].image, "stopped")
  /\ Mishap
  /\ bereft' = (bereft \/ NoWayBack(r))
  /\ UNCHANGED <<db, ask, acked, overlap, mixed>>

\* Whoever answers on the port is taken for the new container.
Healthy(r) ==
  /\ script[r].at = "health" /\ Serving
  /\ script' = [script EXCEPT ![r].copy = Missing, ![r].at = "gone"]
  /\ acked' = db.writes
  /\ Untouched /\ UNCHANGED <<overlap, bereft, mixed, mishaps>>

\* The last poll found nobody: a boot may take longer than the polls.  "no distinct
\* previous image to roll back to; leaving it running": nothing is wrong with that
\* when the same image was run again, but it is when no inspect said which one ran.
Unhealthy(r) ==
  /\ ~Serving
  /\ Step(r, "health", IF NoWayBack(r) THEN "gone" ELSE "discard")
  /\ bereft' = (bereft \/ script[r].prev = None)
  /\ Untouched /\ UNCHANGED <<acked, overlap, mixed, mishaps>>

Discard(r) ==
  /\ Step(r, "discard", "wipe")
  /\ panel' = NoPanel /\ ask' = Killed
  /\ UNCHANGED <<db, history, mishaps>>

\* "could not stop failed container; database snapshot retained"
DiscardFails(r) ==
  /\ Quits(r, "discard")
  /\ Mishap /\ bereft' = TRUE
  /\ Untouched /\ UNCHANGED <<acked, overlap, mixed>>

\* Faulty variant of Wipe: only the image is put back.
WipeNothing(r) ==
  /\ Step(r, "wipe", "rerun")
  /\ Untouched /\ UNCHANGED <<history, mishaps>>

Wipe(r) ==
  /\ Step(r, "wipe", "restore")
  /\ db' = Missing
  /\ UNCHANGED <<panel, ask, history, mishaps>>

\* rm -f, and nobody looks at its answer.
WipeFails(r) ==
  /\ Step(r, "wipe", "restore") /\ Mishap
  /\ Untouched /\ UNCHANGED history

\* A file that rm has left is overwritten only by its counterpart in the copy, which
\* has no -wal if the panel was stopped well.
Restore(r) ==
  /\ script[r].at = "restore"
  /\ \/ /\ db' = [script[r].copy EXCEPT
                   !.files = IF panel.state \in {"serving", "failing"} THEN "torn" ELSE @]
        /\ UNCHANGED mixed
     \/ /\ db.files # "missing" /\ db' = [script[r].copy EXCEPT !.files = "torn"]
        /\ mixed' = TRUE
  /\ script' = [script EXCEPT ![r].copy = Missing, ![r].at = "rerun"]
  /\ UNCHANGED <<panel, ask, acked, overlap, bereft, mishaps>>

\* "database restore failed; snapshot retained"
RestoreFails(r) ==
  /\ Quits(r, "restore")
  /\ db' \in {db, [script[r].copy EXCEPT !.files = "torn"]}
  /\ Mishap /\ bereft' = TRUE
  /\ UNCHANGED <<panel, ask, acked, overlap, mixed>>

Rerun(r) ==
  /\ Quits(r, "rerun")
  /\ panel' = Container(script[r].prev, "booting")
  /\ UNCHANGED <<db, ask, history, mishaps>>

RerunFails(r) ==
  /\ Quits(r, "rerun")
  /\ panel' = Container(script[r].prev, "stopped")
  /\ Mishap /\ bereft' = TRUE
  /\ UNCHANGED <<db, ask, acked, overlap, mixed>>

-----------------------------------------------------------------------------
(* The host *)

\* Transient units are gone after a reboot; the daemon starts what was not
\* stopped.  A copy or a restoration in progress is left half done.
Reboot ==
  /\ Mishap
  /\ panel' = IF panel.state \in {"serving", "failing"} THEN [panel EXCEPT !.state = "booting"] ELSE panel
  /\ ask' = Killed
  /\ script' = [r \in Release |->
       IF ~Active(r) THEN script[r]
       ELSE [script[r] EXCEPT !.at = "gone",
               !.copy.files = IF script[r].at = "copying" THEN "torn" ELSE @]]
  /\ \E files \in IF \E r \in Release : script[r].at = "restore" THEN {db.files, "torn"} ELSE {db.files} :
       db' = [db EXCEPT !.files = files]
  /\ bereft' = (bereft \/ \E r \in Release : script[r].at \notin {"idle", "pull", "inspect", "stop", "gone"})
  /\ UNCHANGED <<acked, overlap, mixed>>

-----------------------------------------------------------------------------

Init ==
  /\ db = [files |-> "whole", schema |-> Schema[First], writes |-> 0, ref |-> First]
  /\ panel = [image |-> First, state |-> "serving"]
  /\ ask = [r \in Release |-> [image |-> None, at |-> "none"]]
  /\ script = [r \in Release |-> Idle]
  /\ acked = 0 /\ overlap = FALSE /\ bereft = FALSE /\ mixed = FALSE
  /\ mishaps = 0

Request(r) ==
  \/ \E image \in Image : Webhook(r, image) \/ Manual(r, image)
  \/ LoginFails(r) \/ Record(r) \/ Dispatch(r) \/ Answer(r)

Forward(r) == Pull(r) \/ Inspect(r) \/ Stop(r) \/ CopyBegins(r) \/ CopyEnds(r) \/ Remove(r) \/ Run(r) \/ Healthy(r)
Backward(r) == Unhealthy(r) \/ Discard(r) \/ Wipe(r) \/ Restore(r) \/ Rerun(r)
Fails(r) ==
  \/ PullFails(r) \/ InspectFails(r) \/ StopFails(r) \/ CopyFails(r) \/ RemoveFails(r)
  \/ RunFails(r) \/ DiscardFails(r) \/ WipeFails(r) \/ RestoreFails(r) \/ RerunFails(r)

Next ==
  \/ Boot \/ Write \/ Reboot
  \/ \E r \in Release : Request(r) \/ Forward(r) \/ Backward(r) \/ Fails(r)

Spec == Init /\ [][Next]_vars

\* A script goes on, one way or the other, and a container that was started
\* boots: no user, no webhook and no failure is fair.
FairSpec ==
  /\ Spec
  /\ WF_vars(Boot)
  /\ \A r \in Release : WF_vars(Forward(r) \/ Backward(r) \/ Fails(r))

-----------------------------------------------------------------------------
(* Properties *)

Files == [files : {"whole", "torn", "missing"}, schema : Nat, writes : 0..MaxWrites, ref : Image \union {None}]

\* TypeOK: the forms of the container, the requests, the scripts and their copies.
TypeOK ==
  /\ db \in Files
  /\ panel \in [image : Image, state : {"booting", "serving", "failing", "stopped"}] \union {NoPanel}
  /\ ask \in [Release -> [image : Image \union {None}, at : {"none", "login", "dispatch", "ended"}]]
  /\ \A r \in Release :
       /\ script[r].copy \in Files /\ script[r].prev \in Image \union {None}
       /\ Active(r) => script[r].image \in Image
  /\ acked \in 0..MaxWrites /\ mishaps \in 0..MaxMishaps

Holds(files) == files.files = "whole" /\ files.writes >= acked

\* WritesKept: while scripts run one at a time, whatever a panel in service
\* committed is in the database or in a copy whose files belong together, at
\* every moment and whatever fails but the removal of the files of a release that
\* is undone ("The snapshot is ... only removed after a healthy swap").
WritesKept == overlap \/ mixed \/ Holds(db) \/ \E r \in Release : Holds(script[r].copy)

\* Readable: a panel is never started on a database its image cannot open,
\* except by a release that is being tried out.
Opens == db.files # "torn" /\ db.schema <= Schema[panel.image]
Readable ==
  overlap \/ mixed \/ bereft \/ OnTrial \/ panel.state \in {"none", "stopped"} \/ Opens

\* ServesAgain: a panel serves again and again, whatever image was released and
\* whatever command failed that the script has an answer for ("health-gate the
\* swap and put the previous image back automatically").  It has none for an
\* unhealthy release when it could not find out which image ran before it.
ServesAgain == []<>(Serving \/ overlap \/ mixed \/ bereft)

=============================================================================
