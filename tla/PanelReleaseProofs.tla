------------------------- MODULE PanelReleaseProofs -------------------------
(***************************************************************************)
(* Safety of the panel's release of itself, for any set of images and      *)
(* schemas, any number of releases, writes and failures of the host: what  *)
(* a panel in service committed is never lost, and no panel is left on a   *)
(* database that its image cannot open.                                    *)
(***************************************************************************)
EXTENDS PanelRelease, TLAPS

-----------------------------------------------------------------------------
(* The inductive invariant *)

Place == {"idle", "pull", "inspect", "stop", "copy", "copying", "remove", "run", "health",
          "discard", "wipe", "restore", "rerun", "gone"}
Script == [image : Image \union {None}, at : Place, prev : Image \union {None}, copy : Files]
Asked(r) == ask[r].at \in {"login", "dispatch"}

\* What holds of requests and scripts even when scripts run side by side: a
\* request in progress has a panel in service and an image, a script has an image to
\* go back to when it undoes its swap, and none before it has looked.
Formed ==
  /\ script \in [Release -> Script]
  /\ \A r \in Release :
       /\ Asked(r) => Serving /\ ask[r].image \in Image
       /\ script[r].at \in {"idle", "pull", "inspect"} => script[r].prev = None
       /\ script[r].at \in {"discard", "wipe", "restore", "rerun"} => script[r].prev \in Image

\* One script at a time.
Alone == \A r, q \in Release : Active(r) /\ Active(q) => r = q

\* Image i can open the database files f, which belong together.
Fits(f, i) == f.files = "whole" /\ i \in Image /\ f.schema <= Schema[i]

\* Where the script of r is, and what it has made of panel, database and copy.  One
\* whose inspect failed knows of no image before its own: the panel serves on while
\* it copies the database, the copy is worth nothing, and it is never put back.
Phase(r) ==
  LET s == script[r]
      known == s.prev # None
      stopped == [image |-> s.prev, state |-> "stopped"] IN
  /\ s.at \in {"pull", "inspect", "stop"} => Serving
  /\ s.at = "stop" => s.prev = panel.image
  /\ s.at \in {"copy", "copying", "remove"} => IF known THEN panel = stopped ELSE Serving
  /\ s.at = "run" => panel = NoPanel \/ (bereft /\ Serving /\ ~known) \/ (known /\ panel = stopped)
  /\ s.at = "run" /\ NoWayBack(r) /\ ~bereft => panel = NoPanel
  /\ s.at \in {"copying", "remove", "run"} /\ known => s.copy = db
  /\ s.at \in {"copy", "copying", "remove", "run", "rerun"} /\ known => Fits(db, s.prev)
  /\ s.at \in {"health", "discard", "wipe", "restore"} /\ known => Holds(s.copy) /\ Fits(s.copy, s.prev)
  /\ s.at = "health" /\ s.prev = s.image /\ ~bereft => panel.image = s.image /\ Fits(db, s.image)
  /\ s.at \in {"wipe", "restore", "rerun"} => panel = NoPanel

\* The restoration failed for good: the copy is all there is, and nobody is left
\* to start a panel without a database.
Dead == panel = NoPanel /\ (\A r \in Release : ~Active(r)) /\ \E r \in Release : Holds(script[r].copy)

Kept ==
  \/ Holds(db)
  \/ \E r \in Release : script[r].at = "restore" /\ Holds(script[r].copy)
  \/ Dead

Orderly ==
  /\ Alone /\ Kept
  /\ Serving => Fits(db, panel.image)
  /\ \A r \in Release : Phase(r)
  /\ Readable

IInv == TypeOK /\ Formed /\ (overlap \/ mixed \/ Orderly)

\* What the assumptions say of images, schemas and bounds, and the forms of the
\* records a script starts with and leaves behind.
LEMMA Constants ==
  /\ None \notin Image /\ First \in Image /\ Schema \in [Image -> Nat]
  /\ MaxWrites \in Nat /\ MaxMishaps \in Nat
  /\ Idle \in Script /\ Missing \in Files
BY ReleaseAssumption DEF Idle, Missing, Script, Files, Place

\* A first panel in service, with no script, is orderly.
LEMMA InitIInv == Init => IInv
<1> SUFFICES ASSUME Init PROVE IInv
  OBVIOUS
<1>1. TypeOK
  BY Constants DEF Init, TypeOK, Files, Idle, Missing, Active
<1>2. Formed
  BY Constants DEF Init, Formed, Asked, Idle
<1>3. Orderly
  <2>1. \A r \in Release : ~Active(r) /\ Phase(r) /\ script[r].at = "idle"
    BY DEF Init, Idle, Active, Phase
  <2>2. Fits(db, panel.image) /\ Holds(db)
    BY Constants DEF Init, Fits, Holds
  <2>3. Readable
    BY <2>2 DEF Readable, Opens, Fits
  <2> QED  BY <2>1, <2>2, <2>3 DEF Orderly, Alone, Kept
<1> QED  BY <1>1, <1>2, <1>3 DEF IInv

-----------------------------------------------------------------------------
(* Steps of one script *)

Panels == [image : Image, state : {"booting", "serving", "failing", "stopped"}] \union {NoPanel}

\* A script that moves on, kills the requests of a panel it stops and writes
\* well-formed files leaves everything well formed.
LEMMA ScriptTypes ==
  ASSUME IInv, NEW r \in Release, NEW s \in Script, script' = [script EXCEPT ![r] = s],
         s.at \notin {"idle", "gone"} => s.image \in Image,
         s.at \in {"idle", "pull", "inspect"} => s.prev = None,
         s.at \in {"discard", "wipe", "restore", "rerun"} => s.prev \in Image,
         db' \in Files, panel' \in Panels,
         acked' \in 0..MaxWrites, mishaps' \in 0..MaxMishaps,
         ask' = Killed \/ (ask' = ask /\ (Serving => Serving'))
  PROVE  TypeOK' /\ Formed'
<1>1. ask' \in [Release -> [image : Image \union {None}, at : {"none", "login", "dispatch", "ended"}]]
  BY DEF IInv, TypeOK, Killed
<1>2. script' \in [Release -> Script]
  BY DEF IInv, Formed
<1>3. \A q \in Release : q # r => script'[q] = script[q]
  BY DEF IInv, Formed
<1>4. script'[r] = s
  BY DEF IInv, Formed
<1>5. TypeOK'
  <2>1. \A q \in Release : /\ script'[q].copy \in Files /\ script'[q].prev \in Image \union {None}
                           /\ Active(q)' => script'[q].image \in Image
    BY <1>2, <1>3, <1>4 DEF Script, IInv, TypeOK, Active
  <2> QED  BY <1>1, <2>1 DEF TypeOK, Files, Panels, NoPanel
<1>6. \A q \in Release : Asked(q)' => Serving' /\ ask'[q].image \in Image
  BY DEF IInv, TypeOK, Formed, Killed, Asked
<1>7. \A q \in Release :
        /\ script'[q].at \in {"idle", "pull", "inspect"} => script'[q].prev = None
        /\ script'[q].at \in {"discard", "wipe", "restore", "rerun"} => script'[q].prev \in Image
  BY <1>3, <1>4 DEF IInv, Formed
<1> QED  BY <1>2, <1>5, <1>6, <1>7 DEF Formed

\* While it is the only active one, its own phase is all that matters.
LEMMA OnlyScript ==
  ASSUME IInv, Orderly, NEW r \in Release, Active(r), NEW s, script' = [script EXCEPT ![r] = s],
         Phase(r)',
         \/ Holds(db)'
         \/ s.at = "restore" /\ Holds(script[r].copy)'
         \/ panel' = NoPanel /\ s.at = "gone" /\ Holds(script[r].copy)',
         Serving' => Fits(db, panel.image)',
         \/ bereft'
         \/ s.at \in {"health", "discard", "wipe", "restore", "rerun"}
         \/ panel'.state \in {"none", "stopped"}
         \/ db'.files # "torn" /\ db'.schema <= Schema[panel'.image]
  PROVE  Orderly'
<1>1. script'[r] = s /\ \A q \in Release : q # r => script'[q] = script[q] /\ ~Active(q)
  BY DEF IInv, Formed, Orderly, Alone
<1>2. \A q \in Release : q # r => ~Active(q)' /\ Phase(q)'
  BY <1>1 DEF Active, Phase
<1>3. Alone' /\ \A q \in Release : Phase(q)'
  BY <1>2 DEF Alone
<1>4. s.at = "gone" => \A q \in Release : ~Active(q)'
  BY <1>1, <1>2 DEF Active
<1>5. Kept'
  BY <1>1, <1>4 DEF Kept, Dead
<1>6. Readable'
  BY <1>1 DEF Readable, OnTrial, Opens
<1> QED  BY <1>3, <1>5, <1>6 DEF Orderly

\* The step of a script from one place to another.
LEMMA Stepped ==
  ASSUME IInv, NEW r \in Release, NEW from, NEW to \in Place, Step(r, from, to)
  PROVE  LET s == [script[r] EXCEPT !.at = to]
         IN  /\ script' = [script EXCEPT ![r] = s] /\ s \in Script /\ script[r].at = from
             /\ s.image = script[r].image /\ s.prev = script[r].prev
             /\ s.copy = script[r].copy /\ s.at = to
BY DEF Step, IInv, Formed, Script

\* The forms of the variables, as the steps below need them.
LEMMA Types ==
  ASSUME IInv
  PROVE  /\ db \in Files /\ panel \in Panels
         /\ acked \in 0..MaxWrites /\ mishaps \in 0..MaxMishaps
         /\ \A r \in Release : script[r] \in Script /\ (Active(r) => script[r].image \in Image)
BY DEF IInv, TypeOK, Panels, Files, NoPanel, Formed

\* A command that fails counts as a mishap.
LEMMA MishapType ==
  ASSUME IInv, Mishap
  PROVE  mishaps' \in 0..MaxMishaps
BY Constants DEF IInv, TypeOK, Mishap

\* The pull, which fails without a trace, disturbs nothing.
LEMMA PullInv ==
  ASSUME IInv, NEW r \in Release, Pull(r) \/ PullFails(r)
  PROVE  IInv'
<1> PICK to \in {"inspect", "gone"} : Step(r, "pull", to)
  BY DEF Pull, PullFails, Quits
<1> DEFINE s == [script[r] EXCEPT !.at = to]
<1>0. to \in Place
  BY DEF Place
<1>1. /\ script' = [script EXCEPT ![r] = s] /\ s \in Script /\ script[r].at = "pull"
      /\ s.image = script[r].image /\ s.prev = script[r].prev
      /\ s.copy = script[r].copy /\ s.at = to
  BY <1>0, Stepped
<1> HIDE DEF s
<1>2. UNCHANGED <<db, panel, ask, acked, overlap, bereft, mixed, mishaps>> /\ Active(r)
  BY <1>1 DEF Pull, PullFails, Untouched, history, Active
<1>3. TypeOK' /\ Formed'
  <2>1. s.prev = None
    BY <1>1 DEF IInv, Formed
  <2> QED  BY <1>1, <1>2, <2>1, Types, ScriptTypes DEF Serving
<1>4. ASSUME ~overlap, ~mixed  PROVE Orderly'
  <2>1. Orderly /\ Phase(r) /\ Serving
    BY <1>1, <1>4 DEF IInv, Orderly, Phase
  <2>2. Phase(r)'
    BY <1>1, <1>2, <2>1 DEF Phase, Serving, IInv, Formed
  <2>3. Fits(db, panel.image)
    BY <2>1 DEF Orderly
  <2>4. Holds(db)
    BY <2>1, <1>1, <1>2 DEF Orderly, Kept, Dead, Alone, Active
  <2> QED  BY <1>1, <1>2, <2>1, <2>2, <2>3, <2>4, OnlyScript DEF Holds, Fits, Serving
<1> QED  BY <1>2, <1>3, <1>4 DEF IInv

\* The panel in service is the one the script will go back to.
LEMMA InspectInv ==
  ASSUME IInv, NEW r \in Release, Inspect(r)
  PROVE  IInv'
<1> DEFINE to == IF panel.image = None THEN "copy" ELSE "stop"
           s == [script[r] EXCEPT !.prev = panel.image, !.at = to]
<1>1. /\ script' = [script EXCEPT ![r] = s] /\ script[r].at = "inspect"
      /\ UNCHANGED <<db, panel, ask, acked, overlap, bereft, mixed, mishaps>> /\ Active(r)
  BY DEF Inspect, Untouched, history, Active, IInv, Formed
<1>2. /\ s \in Script /\ s.image = script[r].image /\ s.prev = panel.image
      /\ s.copy = script[r].copy /\ s.at = to
  <2>1. to \in Place
    BY DEF Place
  <2>2. panel.image \in Image \union {None} /\ script[r] \in Script
    BY Types DEF Panels, NoPanel
  <2> HIDE DEF to
  <2> QED  BY <2>1, <2>2 DEF Script
<1>3. to \in {"copy", "stop"} /\ (to = "copy" => panel.image = None)
  OBVIOUS
<1> HIDE DEF s, to
<1>4. TypeOK' /\ Formed'
  BY <1>1, <1>2, <1>3, Types, ScriptTypes DEF Serving
<1>5. ASSUME ~overlap, ~mixed  PROVE Orderly'
  <2>1. Orderly /\ Serving
    BY <1>1, <1>5 DEF IInv, Orderly, Phase
  <2>2. Fits(db, panel.image) /\ s.at = "stop"
    BY <1>2, <1>3, <2>1, Constants DEF Orderly, Fits
  <2>3. Phase(r)'
    BY <1>1, <1>2, <2>1, <2>2 DEF Phase, Serving, IInv, Formed
  <2>4. Holds(db)
    BY <2>1, <1>1 DEF Orderly, Kept, Dead, Alone, Active
  <2> QED  BY <1>1, <2>1, <2>2, <2>3, <2>4, OnlyScript DEF Holds, Fits, Serving
<1> QED  BY <1>1, <1>4, <1>5 DEF IInv

\* A panel that is taken for absent serves on.
LEMMA InspectFailsInv ==
  ASSUME IInv, NEW r \in Release, InspectFails(r)
  PROVE  IInv'
<1> DEFINE s == [script[r] EXCEPT !.at = "copy"]
<1>0. "copy" \in Place
  BY DEF Place
<1>1. /\ script' = [script EXCEPT ![r] = s] /\ s \in Script /\ script[r].at = "inspect"
      /\ s.image = script[r].image /\ s.prev = script[r].prev
      /\ s.copy = script[r].copy /\ s.at = "copy"
  BY <1>0, Stepped DEF InspectFails
<1> HIDE DEF s
<1>2. UNCHANGED <<db, panel, ask, acked, overlap, bereft, mixed>> /\ Active(r)
      /\ mishaps' \in 0..MaxMishaps
  BY <1>1, MishapType, Types DEF InspectFails, Untouched, history, Active
<1>3. TypeOK' /\ Formed'
  BY <1>1, <1>2, Types, ScriptTypes DEF Serving
<1>4. ASSUME ~overlap, ~mixed  PROVE Orderly'
  <2>1. Orderly /\ Phase(r) /\ Serving
    BY <1>1, <1>4 DEF IInv, Orderly, Phase
  <2>2. script[r].prev = None
    BY <1>1 DEF IInv, Formed
  <2>3. Phase(r)'
    BY <1>1, <1>2, <2>1, <2>2 DEF Phase, Serving, IInv, Formed
  <2>4. Fits(db, panel.image)
    BY <2>1 DEF Orderly
  <2>5. Holds(db)
    BY <2>1, <1>1, <1>2 DEF Orderly, Kept, Dead, Alone, Active
  <2> QED  BY <1>1, <1>2, <2>1, <2>3, <2>4, <2>5, OnlyScript DEF Holds, Fits, Serving
<1> QED  BY <1>2, <1>3, <1>4 DEF IInv

\* A stopped panel takes its requests with it and leaves a database its image
\* fits.
LEMMA StopInv ==
  ASSUME IInv, NEW r \in Release, Stop(r)
  PROVE  IInv'
<1> DEFINE s == [script[r] EXCEPT !.at = "copy"]
<1>0. "copy" \in Place
  BY DEF Place
<1>1. /\ script' = [script EXCEPT ![r] = s] /\ s \in Script /\ script[r].at = "stop"
      /\ s.image = script[r].image /\ s.prev = script[r].prev
      /\ s.copy = script[r].copy /\ s.at = "copy"
  BY <1>0, Stepped DEF Stop
<1> HIDE DEF s
<1>2. UNCHANGED <<db, acked, overlap, bereft, mixed, mishaps>> /\ Active(r) /\ ask' = Killed
  BY <1>1 DEF Stop, history, Active
<1>3. panel' = [image |-> panel.image, state |-> "stopped"] /\ panel.image \in Image
  BY Types DEF Stop, Panels, NoPanel
<1>4. TypeOK' /\ Formed'
  BY <1>1, <1>2, <1>3, Types, ScriptTypes DEF Active, Panels
<1>5. ASSUME ~overlap, ~mixed  PROVE Orderly'
  <2>1. Orderly /\ Phase(r)
    BY <1>5 DEF IInv, Orderly
  <2>2. Serving /\ script[r].prev = panel.image /\ Fits(db, panel.image)
    BY <1>1, <2>1 DEF Phase, Orderly
  <2>3. Holds(db)
    BY <2>1, <1>1, <1>2 DEF Orderly, Kept, Dead, Alone, Active
  <2>4. Phase(r)'
    BY <1>1, <1>2, <1>3, <2>2, Constants DEF Phase, Fits, IInv, Formed
  <2> QED  BY <1>1, <1>2, <1>3, <2>1, <2>3, <2>4, OnlyScript DEF Holds, Serving
<1> QED  BY <1>2, <1>4, <1>5 DEF IInv

\* A refused stop, and what nobody's script can undo, leave everything as it was.
LEMMA StopFailsInv ==
  ASSUME IInv, NEW r \in Release, StopFails(r)
  PROVE  IInv'
<1> DEFINE s == [script[r] EXCEPT !.at = "gone"]
<1>0. "gone" \in Place
  BY DEF Place
<1>1. /\ script' = [script EXCEPT ![r] = s] /\ s \in Script /\ script[r].at = "stop"
      /\ s.image = script[r].image /\ s.prev = script[r].prev
      /\ s.copy = script[r].copy /\ s.at = "gone"
  BY <1>0, Stepped DEF StopFails, Quits
<1> HIDE DEF s
<1>2. UNCHANGED <<db, panel, ask, acked, overlap, bereft, mixed>> /\ Active(r)
      /\ mishaps' \in 0..MaxMishaps
  BY <1>1, MishapType, Types DEF StopFails, Untouched, history, Active
<1>3. TypeOK' /\ Formed'
  BY <1>1, <1>2, Types, ScriptTypes DEF Serving
<1>4. ASSUME ~overlap, ~mixed  PROVE Orderly'
  <2>1. Orderly /\ Phase(r) /\ Serving
    BY <1>1, <1>4 DEF IInv, Orderly, Phase
  <2>2. Phase(r)'
    BY <1>1 DEF Phase, IInv, Formed
  <2>3. Fits(db, panel.image)
    BY <2>1 DEF Orderly
  <2>4. Holds(db)
    BY <2>1, <1>1, <1>2 DEF Orderly, Kept, Dead, Alone, Active
  <2> QED  BY <1>1, <1>2, <2>1, <2>2, <2>3, <2>4, OnlyScript DEF Holds, Fits, Serving
<1> QED  BY <1>2, <1>3, <1>4 DEF IInv

\* Nobody writes while a copy is made that may be put back, so it is the database
\* as it was.
LEMMA CopyInv ==
  ASSUME IInv, NEW r \in Release, CopyBegins(r) \/ CopyEnds(r)
  PROVE  IInv'
<1>1. PICK to \in {"copying", "remove"}, copy \in Files :
         /\ script' = [script EXCEPT ![r] = [script[r] EXCEPT !.copy = copy, !.at = to]]
         /\ to = "copying" => script[r].at = "copy" /\ copy = db
         /\ to = "remove" => script[r].at = "copying" /\ (db = script[r].copy => copy = db)
  <2>1. CASE CopyBegins(r)
    <3>1. script' = [script EXCEPT ![r] = [script[r] EXCEPT !.copy = db, !.at = "copying"]]
      BY <2>1 DEF CopyBegins, IInv, Formed
    <3>2. script[r].at = "copy" /\ db \in Files
      BY <2>1, Types DEF CopyBegins
    <3> QED  BY <3>1, <3>2
  <2>2. CASE CopyEnds(r)
    <3> DEFINE copy == [script[r].copy EXCEPT !.files = IF db = script[r].copy THEN db.files ELSE "torn"]
    <3>1. script[r].copy \in Files /\ db \in Files
      BY Types DEF Script
    <3>2. copy \in Files /\ (db = script[r].copy => copy = db)
      BY <3>1 DEF Files
    <3>3. script' = [script EXCEPT ![r] = [script[r] EXCEPT !.copy = copy, !.at = "remove"]]
      BY <2>2 DEF CopyEnds, IInv, Formed, Script
    <3>4. script[r].at = "copying"
      BY <2>2 DEF CopyEnds
    <3> HIDE DEF copy
    <3> QED  BY <3>2, <3>3, <3>4
  <2> QED  BY <2>1, <2>2
<1> DEFINE s == [script[r] EXCEPT !.copy = copy, !.at = to]
<1>2. /\ script' = [script EXCEPT ![r] = s] /\ s \in Script
      /\ s.image = script[r].image /\ s.prev = script[r].prev /\ s.copy = copy /\ s.at = to
  BY <1>1, Types DEF Script, Place
<1> HIDE DEF s
<1>3. UNCHANGED <<db, panel, ask, acked, overlap, bereft, mixed, mishaps>> /\ Active(r)
  BY <1>1 DEF CopyBegins, CopyEnds, Untouched, history, Active
<1>4. TypeOK' /\ Formed'
  BY <1>2, <1>3, Types, ScriptTypes DEF Serving
<1>5. ASSUME ~overlap, ~mixed  PROVE Orderly'
  <2>1. Orderly /\ Phase(r)
    BY <1>5 DEF IInv, Orderly
  <2>2. IF script[r].prev # None
        THEN /\ panel = [image |-> script[r].prev, state |-> "stopped"]
             /\ Fits(db, script[r].prev) /\ copy = db
        ELSE Serving
    BY <1>1, <2>1 DEF Phase
  <2>3. Phase(r)'
    BY <1>2, <1>3, <2>2 DEF Phase, Fits, IInv, Formed, Serving
  <2>4. Holds(db)
    BY <2>1, <1>1, <1>3 DEF Orderly, Kept, Dead, Alone, Active
  <2>5. Serving => Fits(db, panel.image)
    BY <2>1 DEF Orderly
  <2>6. panel.state = "stopped" \/ Serving
    BY <2>2
  <2> QED  BY <1>2, <1>3, <2>1, <2>3, <2>4, <2>5, <2>6, OnlyScript DEF Holds, Fits, Serving
<1> QED  BY <1>3, <1>4, <1>5 DEF IInv

\* A copy that fails has not touched the database, and the panel is started again.
LEMMA CopyFailsInv ==
  ASSUME IInv, NEW r \in Release, CopyFails(r)
  PROVE  IInv'
<1> DEFINE s == [script[r] EXCEPT !.copy = Missing, !.at = "gone"]
<1>1. script' = [script EXCEPT ![r] = s] /\ script[r].at \in {"copy", "copying"}
  BY DEF CopyFails, IInv, Formed
<1>2. /\ s \in Script /\ s.at = "gone"
  BY Types, Constants DEF Script, Place
<1> HIDE DEF s
<1>3. UNCHANGED <<db, ask, acked, overlap, bereft, mixed>> /\ Active(r)
      /\ mishaps' \in 0..MaxMishaps /\ panel' = Started
  BY <1>1, MishapType, Types DEF CopyFails, history, Active
<1>4. panel' \in Panels /\ (Serving => Serving')
  BY <1>3, Types DEF Started, Panels, NoPanel, Serving
<1>5. TypeOK' /\ Formed'
  BY <1>1, <1>2, <1>3, <1>4, Types, ScriptTypes
<1>6. ASSUME ~overlap, ~mixed  PROVE Orderly'
  <2>1. Orderly /\ Phase(r)
    BY <1>6 DEF IInv, Orderly
  <2>2. \/ panel = [image |-> script[r].prev, state |-> "stopped"] /\ Fits(db, script[r].prev)
        \/ Serving /\ Fits(db, panel.image)
    BY <1>1, <2>1 DEF Phase, Orderly
  <2>3. \/ panel' = [image |-> script[r].prev, state |-> "booting"] /\ Fits(db, script[r].prev)
        \/ panel' = panel /\ Fits(db, panel.image)
    BY <1>3, <2>2 DEF Started, Serving
  <2>4. Phase(r)'
    BY <1>1, <1>2 DEF Phase, IInv, Formed
  <2>5. Holds(db)
    BY <2>1, <1>1, <1>3 DEF Orderly, Kept, Dead, Alone, Active
  <2>6. Holds(db)' /\ Fits(db, panel.image)'
    BY <1>3, <2>3, <2>5 DEF Holds, Fits
  <2>7. db'.files # "torn" /\ db'.schema <= Schema[panel'.image]
    BY <2>6 DEF Fits
  <2> QED  BY <1>1, <1>2, <1>3, <2>1, <2>4, <2>6, <2>7, OnlyScript
<1> QED  BY <1>3, <1>5, <1>6 DEF IInv

\* Whether the removal works or not, no panel runs, and the copy is the
\* database; or nobody knew of the panel, and then it may serve on.
LEMMA RemoveInv ==
  ASSUME IInv, NEW r \in Release, Remove(r) \/ RemoveFails(r)
  PROVE  IInv'
<1> DEFINE s == [script[r] EXCEPT !.at = "run"]
<1>0. "run" \in Place
  BY DEF Place
<1>1. /\ script' = [script EXCEPT ![r] = s] /\ s \in Script /\ script[r].at = "remove"
      /\ s.image = script[r].image /\ s.prev = script[r].prev
      /\ s.copy = script[r].copy /\ s.at = "run"
  BY <1>0, Stepped DEF Remove, RemoveFails
<1> HIDE DEF s
<1>2. UNCHANGED <<db, acked, overlap, mixed>> /\ Active(r) /\ mishaps' \in 0..MaxMishaps
  BY <1>1, MishapType, Types DEF Remove, RemoveFails, Untouched, history, Active
<1>3. \/ panel' = NoPanel /\ ask' = Killed /\ bereft' = bereft
      \/ panel' = panel /\ ask' = ask /\ bereft' = (bereft \/ NoWayBack(r))
  BY DEF Remove, RemoveFails, Untouched, history
<1>4. TypeOK' /\ Formed'
  BY <1>1, <1>2, <1>3, Types, ScriptTypes DEF Serving, Active, Panels
<1>5. ASSUME ~overlap, ~mixed  PROVE Orderly'
  <2>1. Orderly /\ Phase(r)
    BY <1>5 DEF IInv, Orderly
  <2>2. IF script[r].prev # None
        THEN /\ panel = [image |-> script[r].prev, state |-> "stopped"]
             /\ Fits(db, script[r].prev) /\ script[r].copy = db
        ELSE Serving /\ NoWayBack(r)
    BY <1>1, <2>1 DEF Phase, NoWayBack
  <2>3. Phase(r)'
    <3>1. script'[r] = s /\ (NoWayBack(r)' <=> NoWayBack(r))
      BY <1>1 DEF IInv, Formed, NoWayBack
    <3> QED  BY <1>1, <1>2, <1>3, <2>2, <3>1 DEF Phase, Fits, Serving
  <2>4. Holds(db)
    BY <2>1, <1>1, <1>2 DEF Orderly, Kept, Dead, Alone, Active
  <2>5. panel'.state \in {"stopped", "none"} \/ bereft'
    <3>1. CASE panel' = NoPanel
      BY <3>1 DEF NoPanel
    <3>2. CASE panel' = panel /\ bereft' = (bereft \/ NoWayBack(r)) /\ script[r].prev # None
      BY <2>2, <3>2
    <3>3. CASE panel' = panel /\ bereft' = (bereft \/ NoWayBack(r)) /\ script[r].prev = None
      BY <2>2, <3>3, Zenon
    <3> QED  BY <1>3, <3>1, <3>2, <3>3
  <2>6. Serving' => Fits(db, panel.image)'
    BY <1>2, <1>3, <2>1 DEF Orderly, Serving, NoPanel, Fits
  <2> QED  BY <1>1, <1>2, <2>1, <2>3, <2>4, <2>5, <2>6, OnlyScript DEF Holds
<1> QED  BY <1>2, <1>4, <1>5 DEF IInv

\* The new container, or the old one whose name is still taken, is on trial
\* with a copy behind it.
LEMMA RunInv ==
  ASSUME IInv, NEW r \in Release, Run(r) \/ RunFails(r)
  PROVE  IInv'
<1> DEFINE s == [script[r] EXCEPT !.at = "health"]
<1>0. "health" \in Place
  BY DEF Place
<1>1. /\ script' = [script EXCEPT ![r] = s] /\ s \in Script /\ script[r].at = "run"
      /\ s.image = script[r].image /\ s.prev = script[r].prev
      /\ s.copy = script[r].copy /\ s.at = "health"
  BY <1>0, Stepped DEF Run, RunFails
<1> HIDE DEF s
<1>2. UNCHANGED <<db, ask, acked, overlap, mixed>> /\ Active(r) /\ mishaps' \in 0..MaxMishaps
      /\ script[r].image \in Image
  BY <1>1, MishapType, Types DEF Run, RunFails, history, Active
<1>3. PICK state \in {"booting", "stopped"} :
        /\ panel' = Container(script[r].image, state)
        /\ IF state = "booting" THEN bereft' = bereft ELSE bereft' = (bereft \/ NoWayBack(r))
  BY DEF Run, RunFails, history
<1>4. panel' \in Panels /\ (Serving => Serving')
  BY <1>2, <1>3, Types, Constants DEF Container, Panels, NoPanel, Serving
<1>5. TypeOK' /\ Formed'
  BY <1>1, <1>2, <1>4, Types, ScriptTypes
<1>6. ASSUME ~overlap, ~mixed  PROVE Orderly'
  <2>1. Orderly /\ Phase(r)
    BY <1>6 DEF IInv, Orderly
  <2>2. /\ panel = NoPanel \/ (bereft /\ Serving) \/ (panel.state = "stopped" /\ panel.image # None)
        /\ NoWayBack(r) /\ ~bereft => panel = NoPanel
        /\ script[r].prev # None => script[r].copy = db /\ Fits(db, script[r].prev)
    BY <1>1, <2>1 DEF Phase
  <2>3. Holds(db)
    BY <2>1, <1>1, <1>2 DEF Orderly, Kept, Dead, Alone, Active
  <2>4. script'[r] = s /\ (NoWayBack(r)' <=> NoWayBack(r))
    BY <1>1 DEF IInv, Formed, NoWayBack
  <2>5. script[r].prev = script[r].image /\ ~bereft'
          => panel'.image = script[r].image /\ Fits(db, script[r].image)
    <3> SUFFICES ASSUME script[r].prev = script[r].image, ~bereft'
                 PROVE  panel'.image = script[r].image /\ Fits(db, script[r].image)
      OBVIOUS
    <3>1. panel = NoPanel /\ script[r].prev # None
      BY <1>2, <1>3, <2>2, Constants DEF NoWayBack
    <3> QED  BY <1>3, <2>2, <3>1 DEF Container, NoPanel
  <2>6. Phase(r)'
    BY <1>1, <1>2, <2>2, <2>3, <2>4, <2>5 DEF Phase, Fits, Holds
  <2>7. ~Serving' \/ panel' = panel
    BY <1>3, <2>2, Constants DEF Serving, Container, NoPanel
  <2>8. Serving' => Fits(db, panel.image)'
    BY <1>2, <2>1, <2>7 DEF Orderly, Fits, Serving
  <2> QED  BY <1>1, <1>2, <2>1, <2>3, <2>6, <2>8, OnlyScript DEF Holds
<1> QED  BY <1>2, <1>5, <1>6 DEF IInv

\* A release is over as soon as somebody serves: then the database is the
\* panel's own, and the copy is not needed any more.
LEMMA HealthyInv ==
  ASSUME IInv, NEW r \in Release, Healthy(r)
  PROVE  IInv'
<1> DEFINE s == [script[r] EXCEPT !.copy = Missing, !.at = "gone"]
<1>1. /\ script' = [script EXCEPT ![r] = s] /\ script[r].at = "health" /\ Serving
      /\ acked' = db.writes
  BY DEF Healthy, IInv, Formed
<1>2. /\ s \in Script /\ s.at = "gone"
  BY Types, Constants DEF Script, Place
<1> HIDE DEF s
<1>3. UNCHANGED <<db, panel, ask, overlap, bereft, mixed, mishaps>> /\ Active(r)
      /\ db.writes \in 0..MaxWrites
  BY <1>1, Types DEF Healthy, Untouched, Active, Files
<1>4. TypeOK' /\ Formed'
  BY <1>1, <1>2, <1>3, Types, ScriptTypes DEF Serving
<1>5. ASSUME ~overlap, ~mixed  PROVE Orderly'
  <2>1. Orderly
    BY <1>5 DEF IInv
  <2>2. Fits(db, panel.image)
    BY <1>1, <2>1 DEF Orderly
  <2>3. Phase(r)'
    BY <1>1, <1>2 DEF Phase, IInv, Formed
  <2>4. Holds(db)' /\ Fits(db, panel.image)'
    BY <1>1, <1>3, <2>2 DEF Holds, Fits
  <2>5. db'.files # "torn" /\ db'.schema <= Schema[panel'.image]
    BY <2>4 DEF Fits
  <2> QED  BY <1>1, <1>2, <1>3, <2>1, <2>3, <2>4, <2>5, OnlyScript
<1> QED  BY <1>3, <1>4, <1>5 DEF IInv

\* A failed trial is left alone only where there is no other image, whose database
\* is one that it opens, or none is known.
LEMMA UnhealthyInv ==
  ASSUME IInv, NEW r \in Release, Unhealthy(r)
  PROVE  IInv'
<1> DEFINE to == IF NoWayBack(r) THEN "gone" ELSE "discard"
           s == [script[r] EXCEPT !.at = to]
<1>0. to \in Place
  BY DEF Place
<1>1. /\ script' = [script EXCEPT ![r] = s] /\ s \in Script /\ script[r].at = "health"
      /\ s.image = script[r].image /\ s.prev = script[r].prev
      /\ s.copy = script[r].copy /\ s.at = to
  BY <1>0, Stepped DEF Unhealthy
<1>2. to = "discard" => script[r].prev \in Image
  BY Types DEF NoWayBack, Script
<1>3. to \in {"gone", "discard"} /\ (to = "gone" <=> NoWayBack(r))
  OBVIOUS
<1> HIDE DEF s, to
<1>4. UNCHANGED <<db, panel, ask, acked, overlap, mixed, mishaps>> /\ Active(r) /\ ~Serving
      /\ bereft' = (bereft \/ script[r].prev = None)
  BY <1>1 DEF Unhealthy, Untouched, Active
<1>5. TypeOK' /\ Formed'
  BY <1>1, <1>2, <1>3, <1>4, Types, ScriptTypes DEF Serving
<1>6. ASSUME ~overlap, ~mixed  PROVE Orderly'
  <2>1. Orderly /\ Phase(r)
    BY <1>6 DEF IInv, Orderly
  <2>2. /\ ~NoWayBack(r) => Holds(script[r].copy) /\ Fits(script[r].copy, script[r].prev)
        /\ NoWayBack(r) /\ ~bereft' => panel.image = script[r].image /\ Fits(db, script[r].image)
    BY <1>1, <1>4, <2>1 DEF Phase, NoWayBack
  <2>3. Holds(db)' /\ ~Serving'
    BY <2>1, <1>1, <1>4 DEF Orderly, Kept, Dead, Alone, Active, Holds, Serving
  <2>4. Phase(r)'
    BY <1>1, <1>3, <1>4, <2>2 DEF Phase, Holds, Fits, IInv, Formed
  <2>5. bereft' \/ s.at = "discard" \/ (db'.files # "torn" /\ db'.schema <= Schema[panel'.image])
    BY <1>1, <1>3, <1>4, <2>2 DEF Fits
  <2> QED  BY <1>1, <1>4, <2>1, <2>3, <2>4, <2>5, OnlyScript
<1> QED  BY <1>4, <1>5, <1>6 DEF IInv

\* A trial that is discarded has its copy; one that cannot be is left to the
\* operator.
LEMMA DiscardInv ==
  ASSUME IInv, NEW r \in Release, Discard(r) \/ DiscardFails(r)
  PROVE  IInv'
<1> PICK to \in {"wipe", "gone"} :
      /\ Step(r, "discard", to)
      /\ \/ to = "wipe" /\ panel' = NoPanel /\ ask' = Killed /\ UNCHANGED <<bereft, mishaps>>
         \/ to = "gone" /\ bereft' = TRUE /\ UNCHANGED <<panel, ask>> /\ Mishap
  BY DEF Discard, DiscardFails, Quits, Untouched, history
<1> DEFINE s == [script[r] EXCEPT !.at = to]
<1>0. to \in Place
  BY DEF Place
<1>1. /\ script' = [script EXCEPT ![r] = s] /\ s \in Script /\ script[r].at = "discard"
      /\ s.image = script[r].image /\ s.prev = script[r].prev
      /\ s.copy = script[r].copy /\ s.at = to
  BY <1>0, Stepped
<1> HIDE DEF s
<1>2. UNCHANGED <<db, acked, overlap, mixed>> /\ Active(r) /\ mishaps' \in 0..MaxMishaps
  BY <1>1, MishapType, Types DEF Discard, DiscardFails, Untouched, history, Active
<1>3. panel' \in Panels /\ (ask' = Killed \/ (ask' = ask /\ (Serving => Serving')))
  BY Types DEF Panels, Serving
<1>4. TypeOK' /\ Formed'
  <2>1. script[r].prev \in Image
    BY <1>1 DEF IInv, Formed
  <2> QED  BY <1>1, <1>2, <1>3, <2>1, Types, ScriptTypes
<1>5. ASSUME ~overlap, ~mixed  PROVE Orderly'
  <2>1. Orderly /\ Phase(r)
    BY <1>5 DEF IInv, Orderly
  <2>2. Holds(script[r].copy) /\ Fits(script[r].copy, script[r].prev)
    BY <1>1, <2>1, Constants DEF Phase, IInv, Formed
  <2>3. Holds(db)'
    BY <2>1, <1>1, <1>2 DEF Orderly, Kept, Dead, Alone, Active, Holds
  <2>4. Phase(r)'
    BY <1>1, <1>2, <2>2 DEF Phase, Holds, Fits, IInv, Formed
  <2>5. Serving' => Fits(db, panel.image)'
    BY <1>2, <2>1 DEF Orderly, Serving, NoPanel, Fits
  <2> QED  BY <1>1, <1>2, <2>1, <2>3, <2>4, <2>5, OnlyScript
<1> QED  BY <1>2, <1>4, <1>5 DEF IInv

\* The database is removed, or left lying, only where a copy of it is kept.
LEMMA WipeInv ==
  ASSUME IInv, NEW r \in Release, Wipe(r) \/ WipeFails(r)
  PROVE  IInv'
<1> DEFINE s == [script[r] EXCEPT !.at = "restore"]
<1>0. "restore" \in Place
  BY DEF Place
<1>1. /\ script' = [script EXCEPT ![r] = s] /\ s \in Script /\ script[r].at = "wipe"
      /\ s.image = script[r].image /\ s.prev = script[r].prev
      /\ s.copy = script[r].copy /\ s.at = "restore"
  BY <1>0, Stepped DEF Wipe, WipeFails
<1> HIDE DEF s
<1>2. UNCHANGED <<panel, ask, acked, overlap, bereft, mixed>> /\ Active(r)
      /\ db' \in {db, Missing} /\ mishaps' \in 0..MaxMishaps /\ script[r].prev \in Image
  BY <1>1, MishapType, Types DEF Wipe, WipeFails, Untouched, history, Active, IInv, Formed
<1>3. TypeOK' /\ Formed'
  BY <1>1, <1>2, Types, Constants, ScriptTypes DEF Serving
<1>4. ASSUME ~overlap, ~mixed  PROVE Orderly'
  <2>1. Orderly /\ Phase(r)
    BY <1>4 DEF IInv, Orderly
  <2>2. Holds(script[r].copy) /\ Fits(script[r].copy, script[r].prev) /\ panel = NoPanel
    BY <1>1, <1>2, <2>1, Constants DEF Phase
  <2>3. Phase(r)' /\ Holds(script[r].copy)' /\ ~Serving'
    BY <1>1, <1>2, <2>2, Constants DEF Phase, Holds, Fits, IInv, Formed, Serving, NoPanel
  <2> QED  BY <1>1, <1>2, <2>1, <2>3, OnlyScript
<1> QED  BY <1>2, <1>3, <1>4 DEF IInv

\* With no panel running, the restored database is the copy, unless files that were
\* not removed are mixed with it.
LEMMA RestoreInv ==
  ASSUME IInv, NEW r \in Release, Restore(r)
  PROVE  IInv'
<1> DEFINE s == [script[r] EXCEPT !.copy = Missing, !.at = "rerun"]
           files == IF panel.state \in {"serving", "failing"} THEN "torn" ELSE script[r].copy.files
           torn == [script[r].copy EXCEPT !.files = "torn"]
<1>1. /\ script' = [script EXCEPT ![r] = s] /\ script[r].at = "restore"
      /\ db' = [script[r].copy EXCEPT !.files = files] \/ (mixed' /\ db' = torn)
      /\ ~mixed' => ~mixed
  <2>1. script' = [script EXCEPT ![r] = s]
    BY DEF Restore, IInv, Formed
  <2>2. db' = [script[r].copy EXCEPT !.files = files] \/ (mixed' /\ db' = torn)
    BY DEF Restore
  <2>3. ~mixed' => ~mixed
    BY DEF Restore
  <2> QED  BY <2>1, <2>2, <2>3 DEF Restore
<1>2. /\ s \in Script /\ s.at = "rerun" /\ s.prev = script[r].prev /\ s.image = script[r].image
      /\ script[r].copy \in Files /\ script[r].prev \in Image
  BY <1>1, Types, Constants DEF Script, Place, IInv, Formed
<1> HIDE DEF s
<1>3. UNCHANGED <<panel, ask, acked, overlap, bereft, mishaps>> /\ Active(r)
  BY <1>1 DEF Restore, Active
<1>4. db' \in Files
  BY <1>1, <1>2 DEF Files
<1>5. TypeOK' /\ Formed'
  BY <1>1, <1>2, <1>3, <1>4, Types, ScriptTypes DEF Active, Serving
<1>6. ASSUME ~overlap, ~mixed'  PROVE Orderly'
  <2>1. Orderly /\ Phase(r)
    BY <1>1, <1>6 DEF IInv, Orderly
  <2>2. Holds(script[r].copy) /\ Fits(script[r].copy, script[r].prev) /\ panel = NoPanel
    BY <1>1, <1>2, <2>1, Constants DEF Phase
  <2>3. db' = script[r].copy
    BY <1>1, <1>2, <1>6, <2>2 DEF NoPanel, Files
  <2>4. Holds(db)' /\ ~Serving' /\ Fits(db, script[r].prev)'
    BY <1>1, <1>2, <1>3, <2>2, <2>3 DEF Holds, Fits, Serving, NoPanel, IInv, Formed
  <2>5. Phase(r)'
    BY <1>1, <1>2, <1>3, <2>2, <2>4 DEF Phase, IInv, Formed, Fits
  <2> QED  BY <1>1, <1>2, <1>3, <2>1, <2>4, <2>5, OnlyScript
<1> QED  BY <1>3, <1>5, <1>6 DEF IInv

\* A restoration that fails leaves the copy, and no panel.
LEMMA RestoreFailsInv ==
  ASSUME IInv, NEW r \in Release, RestoreFails(r)
  PROVE  IInv'
<1> DEFINE s == [script[r] EXCEPT !.at = "gone"]
<1>0. "gone" \in Place
  BY DEF Place
<1>1. /\ script' = [script EXCEPT ![r] = s] /\ s \in Script /\ script[r].at = "restore"
      /\ s.image = script[r].image /\ s.prev = script[r].prev
      /\ s.copy = script[r].copy /\ s.at = "gone"
  BY <1>0, Stepped DEF RestoreFails, Quits
<1> HIDE DEF s
<1>2. UNCHANGED <<panel, ask, acked, overlap, mixed>> /\ Active(r) /\ bereft' = TRUE
      /\ mishaps' \in 0..MaxMishaps
  BY <1>1, MishapType DEF RestoreFails, Active
<1>3. db' \in Files
  <2>1. script[r].copy \in Files /\ db \in Files
    BY Types DEF Script
  <2> QED  BY <2>1 DEF RestoreFails, Files
<1>4. TypeOK' /\ Formed'
  BY <1>1, <1>2, <1>3, Types, ScriptTypes DEF Serving
<1>5. ASSUME ~overlap, ~mixed  PROVE Orderly'
  <2>1. Orderly /\ Phase(r)
    BY <1>5 DEF IInv, Orderly
  <2>2. Holds(script[r].copy) /\ panel = NoPanel
    BY <1>1, <2>1, Constants DEF Phase, IInv, Formed
  <2>3. Phase(r)' /\ Holds(script[r].copy)' /\ ~Serving' /\ panel' = NoPanel
    BY <1>1, <1>2, <2>2 DEF Phase, Holds, IInv, Formed, Serving, NoPanel
  <2> QED  BY <1>1, <1>2, <2>1, <2>3, OnlyScript
<1> QED  BY <1>2, <1>4, <1>5 DEF IInv

\* The previous image is started on the database it left.
LEMMA RerunInv ==
  ASSUME IInv, NEW r \in Release, Rerun(r) \/ RerunFails(r)
  PROVE  IInv'
<1> DEFINE s == [script[r] EXCEPT !.at = "gone"]
<1>0. "gone" \in Place
  BY DEF Place
<1>1. /\ script' = [script EXCEPT ![r] = s] /\ s \in Script /\ script[r].at = "rerun"
      /\ s.image = script[r].image /\ s.prev = script[r].prev
      /\ s.copy = script[r].copy /\ s.at = "gone"
  BY <1>0, Stepped DEF Rerun, RerunFails, Quits
<1> HIDE DEF s
<1>2. UNCHANGED <<db, ask, acked, overlap, mixed>> /\ Active(r)
      /\ mishaps' \in 0..MaxMishaps /\ script[r].prev \in Image
  BY <1>1, MishapType, Types DEF Rerun, RerunFails, history, Active, IInv, Formed
<1>3. PICK state \in {"booting", "stopped"} : panel' = Container(script[r].prev, state)
  BY DEF Rerun, RerunFails
<1>4. panel' \in Panels /\ (Serving => Serving')
  BY <1>2, <1>3, Types, Constants DEF Container, Panels, NoPanel, Serving
<1>5. TypeOK' /\ Formed'
  BY <1>1, <1>2, <1>4, Types, ScriptTypes
<1>6. ASSUME ~overlap, ~mixed  PROVE Orderly'
  <2>1. Orderly /\ Phase(r)
    BY <1>6 DEF IInv, Orderly
  <2>2. panel = NoPanel /\ Fits(db, script[r].prev)
    BY <1>1, <1>2, <2>1, Constants DEF Phase
  <2>3. panel' = [image |-> script[r].prev, state |-> state]
    BY <1>3, <2>2 DEF Container, NoPanel
  <2>4. Holds(db)'
    BY <2>1, <1>1, <1>2 DEF Orderly, Kept, Dead, Alone, Active, Holds
  <2>5. Phase(r)' /\ ~Serving'
    BY <1>1, <2>3 DEF Phase, IInv, Formed, Serving
  <2>6. db'.files # "torn" /\ db'.schema <= Schema[panel'.image]
    BY <1>2, <2>2, <2>3 DEF Fits
  <2> QED  BY <1>1, <1>2, <2>1, <2>4, <2>5, <2>6, OnlyScript
<1> QED  BY <1>2, <1>5, <1>6 DEF IInv

-----------------------------------------------------------------------------
(* The panel process and the host *)

\* Steps of a panel in service that only note a request in the database.
LEMMA RequestOrderly ==
  ASSUME IInv, Orderly, Serving,
         UNCHANGED <<panel, script, acked, bereft>>,
         db'.files = db.files, db'.schema = db.schema, db'.writes = db.writes
  PROVE  Orderly'
<1>1. \A r \in Release : Phase(r)'
  <2> SUFFICES ASSUME NEW r \in Release  PROVE Phase(r)'
    OBVIOUS
  <2>1. Phase(r)
    BY DEF Orderly
  <2>2. script[r].at \in {"copy", "copying", "remove", "run", "wipe", "restore", "rerun"}
          => script[r].prev = None
    BY <2>1 DEF Phase, Serving, NoPanel, IInv, Formed
  <2> QED  BY <2>1, <2>2 DEF Phase, Serving, NoWayBack, Holds, Fits
<1>2. Alone' /\ Kept' /\ (Serving' => Fits(db, panel.image)') /\ Readable'
  BY DEF Orderly, Alone, Active, Kept, Dead, Holds, Serving, Fits, Readable, OnTrial, Opens
<1> QED  BY <1>1, <1>2 DEF Orderly

\* Asking, logging in, recording and answering touch nothing a script relies
\* on.
LEMMA RequestInv ==
  ASSUME IInv, NEW r \in Release, NEW image \in Image,
         Ask(r, image) \/ LoginFails(r) \/ Record(r) \/ Answer(r)
  PROVE  IInv'
<1>1. Serving /\ UNCHANGED <<panel, script, acked, overlap, bereft, mixed>>
  BY DEF Ask, LoginFails, Record, Answer, history
<1>2. db' \in Files /\ db'.files = db.files /\ db'.schema = db.schema /\ db'.writes = db.writes
  <2>1. ask[r].at = "login" => ask[r].image \in Image
    BY DEF IInv, Formed, Asked
  <2>2. db' = db \/ (ask[r].image \in Image /\ db' = [db EXCEPT !.ref = ask[r].image])
    BY <2>1 DEF Ask, LoginFails, Record, Answer
  <2> QED  BY <2>2, Types DEF Files
<1>3. PICK q \in [image : Image \union {None}, at : {"none", "login", "dispatch", "ended"}] :
        /\ ask' = [ask EXCEPT ![r] = q]
        /\ q.at \in {"login", "dispatch"} => q.image \in Image
  <2>1. CASE Ask(r, image)
    <3>1. [image |-> image, at |-> "login"]
            \in [image : Image \union {None}, at : {"none", "login", "dispatch", "ended"}]
      OBVIOUS
    <3> QED  BY <2>1, <3>1 DEF Ask
  <2>2. CASE LoginFails(r) \/ Answer(r)
    <3>1. ask' = [ask EXCEPT ![r] = [ask[r] EXCEPT !.at = "ended"]]
      BY <2>2 DEF LoginFails, Answer, IInv, TypeOK
    <3>2. [ask[r] EXCEPT !.at = "ended"]
            \in [image : Image \union {None}, at : {"none", "login", "dispatch", "ended"}]
      BY DEF IInv, TypeOK
    <3>3. [ask[r] EXCEPT !.at = "ended"].at = "ended"
      BY DEF IInv, TypeOK
    <3> QED  BY <3>1, <3>2, <3>3
  <2>3. CASE Record(r)
    <3>1. ask' = [ask EXCEPT ![r] = [ask[r] EXCEPT !.at = "dispatch"]]
      BY <2>3 DEF Record, IInv, TypeOK
    <3>2. ask[r].image \in Image
      BY <2>3 DEF Record, IInv, Formed, Asked
    <3>3. /\ [ask[r] EXCEPT !.at = "dispatch"]
               \in [image : Image \union {None}, at : {"none", "login", "dispatch", "ended"}]
          /\ [ask[r] EXCEPT !.at = "dispatch"].image \in Image
      BY <3>2 DEF IInv, TypeOK
    <3> QED  BY <3>1, <3>3
  <2> QED  BY <2>1, <2>2, <2>3
<1>4. ask' \in [Release -> [image : Image \union {None}, at : {"none", "login", "dispatch", "ended"}]]
  BY <1>3 DEF IInv, TypeOK
<1>5. mishaps' \in 0..MaxMishaps
  BY MishapType, Types DEF Ask, LoginFails, Record, Answer
<1>6. TypeOK'
  BY <1>1, <1>2, <1>4, <1>5 DEF IInv, TypeOK, Active, Files, NoPanel
<1>7. Formed'
  BY <1>1, <1>3 DEF IInv, TypeOK, Formed, Asked, Serving
<1> QED  BY <1>1, <1>2, <1>6, <1>7, RequestOrderly DEF IInv

\* A second script that starts beside another is an overlap.
LEMMA DispatchInv ==
  ASSUME IInv, NEW r \in Release, Dispatch(r)
  PROVE  IInv'
<1> DEFINE s == [Idle EXCEPT !.image = ask[r].image, !.at = "pull"]
<1>1. /\ script' = [script EXCEPT ![r] = s] /\ script[r].at = "idle" /\ Asked(r)
      /\ UNCHANGED <<db, panel, ask, acked, bereft, mixed, mishaps>>
      /\ overlap' = (overlap \/ \E q \in Release \ {r} : Active(q))
  BY DEF Dispatch, Asked
<1>2. ask[r].image \in Image /\ Serving
  BY <1>1 DEF IInv, Formed
<1>3. s \in Script /\ s.at = "pull" /\ s.image = ask[r].image /\ s.prev = None
  BY <1>2, Constants DEF Idle, Script, Place
<1> HIDE DEF s
<1>4. TypeOK' /\ Formed'
  BY <1>1, <1>2, <1>3, Types, ScriptTypes DEF Serving
<1>5. ASSUME ~overlap', ~mixed  PROVE Orderly'
  <2>1. Orderly /\ \A q \in Release : q # r => ~Active(q) /\ script'[q] = script[q]
    BY <1>1, <1>5 DEF IInv, Formed
  <2>2. \A q \in Release : ~Active(q)
    BY <1>1, <2>1 DEF Active
  <2>3. script'[r] = s /\ \A q \in Release : q # r => ~Active(q)'
    BY <1>1, <2>1 DEF IInv, Formed, Active
  <2>4. \A q \in Release : Phase(q)'
    BY <1>1, <1>2, <1>3, <2>3 DEF Phase, Active, Serving
  <2>5. Holds(db)'
    BY <1>1, <1>2, <2>1, <2>2 DEF Orderly, Kept, Dead, Active, Holds, Serving, NoPanel
  <2>6. Fits(db, panel.image)'
    BY <1>1, <1>2, <2>1 DEF Orderly, Fits
  <2> QED  BY <1>1, <2>3, <2>4, <2>5, <2>6 DEF Orderly, Alone, Kept, Readable, Opens, Fits
<1> QED  BY <1>1, <1>4, <1>5 DEF IInv

\* What a panel in service commits is in the database it has open.
LEMMA WriteInv ==
  ASSUME IInv, Write
  PROVE  IInv'
<1>1. /\ Serving /\ db' = [db EXCEPT !.writes = @ + 1] /\ db.writes < MaxWrites
      /\ acked' = IF OnTrial THEN acked ELSE db.writes + 1
      /\ UNCHANGED <<panel, ask, script, overlap, bereft, mixed, mishaps>>
  BY DEF Write
<1>2. db.writes \in 0..MaxWrites /\ db \in Files
  BY Types DEF Files
<1>3. db' \in Files /\ db'.files = db.files /\ db'.schema = db.schema
      /\ db'.writes = db.writes + 1 /\ acked' \in 0..MaxWrites
  <2>1. db.writes + 1 \in 0..MaxWrites
    BY <1>1, <1>2, Constants
  <2> QED  BY <1>1, <1>2, <2>1, Types DEF Files
<1>4. TypeOK' /\ Formed'
  BY <1>1, <1>3 DEF IInv, TypeOK, Formed, Active, Asked, Serving, Files, NoPanel
<1>5. ASSUME ~overlap, ~mixed  PROVE Orderly'
  <2>1. Orderly
    BY <1>5 DEF IInv
  <2>2. \A r \in Release : /\ script[r].at \notin {"wipe", "restore", "rerun"}
                           /\ script[r].at \in {"copy", "copying", "remove", "run"} => script[r].prev = None
    BY <1>1, <2>1 DEF Orderly, Phase, Serving, NoPanel
  <2>3. Holds(db)
    BY <1>1, <2>1, <2>2 DEF Orderly, Kept, Dead, Serving, NoPanel
  <2>4. Holds(db)'
    BY <1>1, <1>2, <1>3, <2>3, Types DEF Holds
  <2>5. \A r \in Release : Phase(r)'
    <3> SUFFICES ASSUME NEW r \in Release  PROVE Phase(r)'
      OBVIOUS
    <3>1. Phase(r)
      BY <2>1 DEF Orderly
    <3>2. script[r].at \in {"health", "discard"} => acked' = acked
      BY <1>1 DEF OnTrial
    <3> QED  BY <1>1, <1>3, <2>2, <3>1, <3>2 DEF Phase, Serving, NoWayBack, Holds, Fits
  <2>6. Fits(db, panel.image)'
    BY <1>1, <1>3, <2>1 DEF Orderly, Fits
  <2> QED  BY <1>1, <2>1, <2>4, <2>5, <2>6 DEF Orderly, Alone, Active, Kept, Readable, Opens, Fits
<1> QED  BY <1>1, <1>4, <1>5 DEF IInv

\* Booting opens only what fits, and migrating it loses no write.
LEMMA BootInv ==
  ASSUME IInv, Boot
  PROVE  IInv'
<1> DEFINE own == Schema[panel.image]
           opens == db.files # "torn" /\ db.schema <= own
           opened == [db EXCEPT !.files = "whole", !.schema = own]
<1>1. panel.state \in {"booting", "failing"} /\ panel.image \in Image
      /\ UNCHANGED <<ask, script, acked, overlap, bereft, mixed, mishaps>>
  BY Types DEF Boot, history, Panels, NoPanel
<1>2. own \in Nat
  BY <1>1, Constants
<1>3. opened \in Files /\ opened.files = "whole" /\ opened.schema = own
      /\ opened.writes = db.writes
  BY <1>2, Types DEF Files
<1>4. \/ opens /\ db' = opened /\ panel' = [panel EXCEPT !.state = "serving"]
      \/ opens /\ db' \in {db, opened} /\ panel' = [panel EXCEPT !.state = "failing"]
      \/ db' = db /\ panel' = [panel EXCEPT !.state = "failing"]
  BY DEF Boot
<1> HIDE DEF opened
<1>5. panel' \in Panels /\ panel'.image = panel.image /\ panel'.state \in {"serving", "failing"}
      /\ db' \in Files
  BY <1>1, <1>3, <1>4, Types DEF Panels, NoPanel
<1>6. ~Serving
  BY <1>1 DEF Serving
<1>7. TypeOK' /\ Formed'
  <2>1. TypeOK'
    BY <1>1, <1>5 DEF IInv, TypeOK, Active, Files, Panels, NoPanel
  <2> QED  BY <1>1, <1>6, <2>1 DEF IInv, Formed, Asked
<1>8. ASSUME ~overlap, ~mixed  PROVE Orderly'
  <2>1. Orderly
    BY <1>8 DEF IInv
  <2>2. \A r \in Release : script[r].at
          \notin {"pull", "inspect", "stop", "copy", "copying", "remove", "run", "wipe", "restore", "rerun"}
    BY <1>1, <1>6, <2>1 DEF Orderly, Phase, NoPanel
  <2>3. Holds(db)
    BY <1>1, <2>1, <2>2 DEF Orderly, Kept, Dead, NoPanel
  <2>4. Holds(db)'
    BY <1>1, <1>3, <1>4, <2>3 DEF Holds
  <2>5. Serving' => Fits(db, panel.image)'
    <3> SUFFICES ASSUME Serving'  PROVE Fits(db, panel.image)'
      OBVIOUS
    <3>1. panel'.state = "serving" /\ panel'.image = panel.image
      BY <1>5 DEF Serving
    <3>2. db' = opened
      BY <1>1, <1>4, <3>1, Types DEF Panels, NoPanel
    <3> QED  BY <1>1, <1>2, <1>3, <3>1, <3>2 DEF Fits
  <2>6. ASSUME Fits(db, panel.image)  PROVE Fits(db, panel.image)'
    BY <1>1, <1>2, <1>3, <1>4, <1>5, <2>6 DEF Fits
  <2>7. \A r \in Release : Phase(r)'
    <3> SUFFICES ASSUME NEW r \in Release  PROVE Phase(r)'
      OBVIOUS
    <3>1. Phase(r)
      BY <2>1 DEF Orderly
    <3> QED  BY <1>1, <1>5, <2>2, <2>6, <3>1 DEF Phase, NoWayBack, Holds, Fits
  <2>8. Readable'
    <3>1. CASE bereft \/ OnTrial
      BY <1>1, <3>1 DEF Readable, OnTrial
    <3>2. CASE ~(bereft \/ OnTrial)
      <4>1. opens
        BY <1>1, <1>8, <2>1, <3>2 DEF Orderly, Readable, Opens
      <4>2. Fits(db, panel.image)
        BY <1>1, <2>3, <4>1 DEF Fits, Holds
      <4> QED  BY <2>6, <4>2 DEF Fits, Readable, Opens
    <3> QED  BY <3>1, <3>2
  <2> QED  BY <1>1, <2>1, <2>4, <2>5, <2>7, <2>8 DEF Orderly, Alone, Active, Kept
<1> QED  BY <1>1, <1>7, <1>8 DEF IInv

\* A reboot ends every script; what it leaves half done is the copy of a database
\* that is still there, or a database whose copy is.
LEMMA RebootInv ==
  ASSUME IInv, Reboot
  PROVE  IInv'
<1> DEFINE cut(r) == [script[r] EXCEPT !.at = "gone",
                        !.copy.files = IF script[r].at = "copying" THEN "torn" ELSE @]
<1>1. /\ panel' = IF panel.state \in {"serving", "failing"} THEN [panel EXCEPT !.state = "booting"] ELSE panel
      /\ ask' = Killed
      /\ script' = [r \in Release |-> IF ~Active(r) THEN script[r] ELSE cut(r)]
      /\ bereft' = (bereft \/ \E r \in Release : script[r].at \notin {"idle", "pull", "inspect", "stop", "gone"})
      /\ UNCHANGED <<acked, overlap, mixed>> /\ mishaps' \in 0..MaxMishaps
  BY MishapType DEF Reboot
<1>2. PICK files \in {"whole", "torn", "missing"} :
        /\ db' = [db EXCEPT !.files = files]
        /\ files = db.files \/ \E r \in Release : script[r].at = "restore"
  BY Types DEF Reboot, Files
<1>3. db' \in Files /\ db'.writes = db.writes /\ db'.schema = db.schema
      /\ db'.files = files
  BY <1>2, Types DEF Files
<1>4. panel' \in Panels /\ panel'.image = panel.image /\ ~Serving'
  <2>1. CASE panel.state \in {"serving", "failing"}
    <3>1. panel \in [image : Image, state : {"booting", "serving", "failing", "stopped"}]
      BY <2>1, Types DEF Panels, NoPanel
    <3>2. panel' = [panel EXCEPT !.state = "booting"]
      BY <1>1, <2>1
    <3> QED  BY <3>1, <3>2 DEF Panels, Serving
  <2>2. CASE panel.state \notin {"serving", "failing"}
    <3>1. panel' = panel
      BY <1>1, <2>2
    <3> QED  BY <2>2, <3>1, Types DEF Serving
  <2> QED  BY <2>1, <2>2
<1>5. \A r \in Release : /\ cut(r) \in Script /\ cut(r).at = "gone" /\ cut(r).prev = script[r].prev
                         /\ script[r].at # "copying" => cut(r).copy = script[r].copy
  <2> SUFFICES ASSUME NEW r \in Release
               PROVE  /\ cut(r) \in Script /\ cut(r).at = "gone" /\ cut(r).prev = script[r].prev
                      /\ script[r].at # "copying" => cut(r).copy = script[r].copy
    OBVIOUS
  <2>1. script[r] \in Script /\ script[r].copy \in Files
    BY Types DEF Script
  <2> QED  BY <2>1 DEF Script, Place, Files
<1> HIDE DEF cut
<1>6. \A r \in Release : /\ script'[r] \in Script /\ ~Active(r)'
                         /\ script'[r] = IF ~Active(r) THEN script[r] ELSE cut(r)
  BY <1>1, <1>5, Types DEF Active
<1>7. script' \in [Release -> Script]
  <2>1. \A r \in Release : (IF ~Active(r) THEN script[r] ELSE cut(r)) \in Script
    BY <1>5, Types
  <2> QED  BY <1>1, <2>1
<1>8. TypeOK' /\ Formed'
  <2>1. ask' \in [Release -> [image : Image \union {None}, at : {"none", "login", "dispatch", "ended"}]]
        /\ \A r \in Release : ~Asked(r)'
    BY <1>1 DEF IInv, TypeOK, Killed, Asked
  <2>2. TypeOK'
    BY <1>1, <1>3, <1>4, <1>6, <2>1 DEF IInv, TypeOK, Files, Panels, NoPanel, Script
  <2> QED  BY <1>5, <1>6, <1>7, <2>1, <2>2 DEF IInv, Formed, Active
<1>9. ASSUME ~overlap, ~mixed  PROVE Orderly'
  <2>1. Orderly
    BY <1>9 DEF IInv
  <2>2. Alone' /\ \A r \in Release : Phase(r)'
    BY <1>6 DEF Alone, Active, Phase
  <2>3. Kept'
    <3>1. CASE \E r \in Release : script[r].at = "restore"
      <4> PICK r \in Release : script[r].at = "restore"
        BY <3>1
      <4>1. Holds(script[r].copy) /\ panel = NoPanel /\ Active(r)
        BY <2>1, Constants DEF Orderly, Phase, Active, IInv, Formed
      <4>2. Holds(script[r].copy)' /\ panel' = NoPanel
        BY <1>1, <1>5, <1>6, <4>1 DEF Holds, NoPanel
      <4> QED  BY <1>6, <4>2 DEF Kept, Dead
    <3>2. CASE (\A r \in Release : script[r].at # "restore") /\ Holds(db)
      BY <1>1, <1>2, <1>3, <3>2 DEF Kept, Holds
    <3>3. CASE Dead
      <4>1. panel' = NoPanel /\ \A r \in Release : script'[r] = script[r]
        BY <1>1, <1>6, <3>3 DEF Dead, NoPanel
      <4> QED  BY <1>1, <1>6, <3>3, <4>1 DEF Kept, Dead, Holds
    <3> QED  BY <2>1, <3>1, <3>2, <3>3 DEF Orderly, Kept
  <2>4. Readable'
    <3>1. CASE ~bereft'
      <4>1. \A r \in Release : script[r].at \in {"idle", "pull", "inspect", "stop", "gone"}
        BY <1>1, <3>1
      <4>2. ~OnTrial /\ ~bereft /\ db'.files = db.files
        BY <1>1, <1>2, <1>3, <3>1, <4>1 DEF OnTrial
      <4>3. panel.state \in {"none", "stopped"} \/ Opens
        BY <1>9, <2>1, <4>2 DEF Orderly, Readable
      <4>4. panel.state \in {"none", "stopped"} => panel'.state \in {"none", "stopped"}
        BY <1>1
      <4> QED  BY <1>3, <1>4, <4>2, <4>3, <4>4 DEF Readable, Opens
    <3> QED  BY <3>1 DEF Readable
  <2> QED  BY <1>4, <2>2, <2>3, <2>4 DEF Orderly
<1> QED  BY <1>1, <1>8, <1>9 DEF IInv

-----------------------------------------------------------------------------
(* The theorems *)

\* Every step of panel, scripts and host keeps the invariant.
LEMMA StepInv == IInv /\ [Next]_vars => IInv'
<1> SUFFICES ASSUME IInv, [Next]_vars PROVE IInv'
  OBVIOUS
<1>1. CASE UNCHANGED vars
  BY <1>1, SMTT(90), ZenonT(90) DEF vars, history, IInv, TypeOK, Formed, Orderly, Alone, Active, Kept,
     Dead, Holds, Fits, Phase, NoWayBack, Asked, Serving, Readable, OnTrial, Opens, Files, NoPanel
<1>2. ASSUME NEW r \in Release, Request(r)
      PROVE  IInv'
  <2>1. CASE Dispatch(r)
    BY <2>1, DispatchInv
  <2>2. CASE ~Dispatch(r)
    BY <1>2, <2>2, RequestInv, Constants DEF Request, Webhook, Manual
  <2> QED  BY <2>1, <2>2
<1>3. ASSUME NEW r \in Release, Forward(r) \/ Backward(r) \/ Fails(r)
      PROVE  IInv'
  BY <1>3, PullInv, InspectInv, InspectFailsInv, StopInv, StopFailsInv, CopyInv, CopyFailsInv, RemoveInv, RunInv,
     HealthyInv, UnhealthyInv, DiscardInv, WipeInv, RestoreInv, RestoreFailsInv, RerunInv
  DEF Forward, Backward, Fails
<1> QED  BY <1>1, <1>2, <1>3, BootInv, WriteInv, RebootInv DEF Next

\* In every reachable state the place of each script, the container, the
\* database and the copies agree as IInv says, also after an inspect that failed,
\* unless two scripts ran at once or files that were not removed lie beside a copy.
THEOREM Invariance == Spec => []IInv
<1> QED  BY InitIInv, StepInv, PTL DEF Spec

\* The container, the requests, the scripts and their copies keep their forms,
\* also when scripts run side by side.
THEOREM TypeCorrectness == Spec => []TypeOK
<1>1. IInv => TypeOK
  BY DEF IInv
<1> QED  BY <1>1, Invariance, PTL

\* Whatever a panel in service committed is in the database or in a whole copy of
\* it, for every set of images, however often the host fails, but for a failing rm.
THEOREM NothingCommittedIsLost == Spec => []WritesKept
<1>1. IInv => WritesKept
  BY DEF IInv, Orderly, Kept, Dead, WritesKept
<1> QED  BY <1>1, Invariance, PTL

\* No panel is left running on a database that its image cannot open.
THEOREM DatabaseStaysReadable == Spec => []Readable
<1>1. IInv => Readable
  BY DEF IInv, Orderly, Readable
<1> QED  BY <1>1, Invariance, PTL
=============================================================================
