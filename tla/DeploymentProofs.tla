--------------------------- MODULE DeploymentProofs ---------------------------
(***************************************************************************)
(* Theorems of Deployment, for any profiles, hosts and ports and any       *)
(* number of versions and tokens, wherever the scripts stop.               *)
(***************************************************************************)
EXTENDS Deployment, TLAPS

Active == run.pc # "idle"
Writing == {"token", "host", "copy"}
Saving == Writing \union {"save"}
AfterRemote == Saving \union {"tunnel", "discard", "start"}

(* Profiles say their own name, and no host before they say a token. *)
ProfilesWritten ==
  \A p \in Profiles : saved[p] # None =>
    saved[p].name = p /\ (saved[p].vps # None => saved[p].token # None)

(* What a running script knows, and what its answer means. *)
RunInv ==
  /\ ProfilesWritten
  /\ Active =>
    /\ run.settings \in Settings /\ run.port \in Ports
    /\ run.kind \in {"install", "command"}
    /\ run.image \in Versions \union {Tag}
    /\ run.image \in {Tag, run.before}
    /\ run.pc = "pull" => run.answer = None /\ run.image = Tag /\ run.latest = None
    /\ run.pc = "ask" => /\ run.answer = None /\ run.image = Tag
                         /\ run.before \in Versions /\ run.latest \in Versions
                         /\ run.before # run.latest
    /\ run.answer = "no" => /\ run.image = run.before /\ run.before \in Versions
                            /\ run.before # run.latest
    /\ run.answer = "yes" => run.image = Tag /\ run.latest \in Versions
    /\ run.kind = "install" /\ run.pc # "pull" => run.latest \in Versions
    /\ run.kind = "install" => run.pc # "remove"
    /\ run.kind = "command" =>
         /\ run.pc \in {"remote", "collector", "remove"} => run.answer = "yes"
         /\ run.pc \notin Saving

(* Who made the collector and the panel, with which token.  A script that  *)
(* runs agrees with what its profile stores, as far as that is written.    *)
LegacyNamed == legacy # None => saved[legacy.name] # None

RunIsSaved ==
  Active =>
    LET stored == saved[run.settings.name]
    IN  /\ run.kind = "install" =>
             /\ HasToken(stored) => stored.token = run.settings.token
             /\ HasHost(stored) => stored.vps = vps
        /\ run.kind = "command" /\ ~outdated =>
             stored # None /\ stored.token = run.settings.token
        /\ run.pc \in Writing => stored # None

PanelHasToken ==
  ~outdated /\ panel # None /\ HasToken(saved[panel.profile]) =>
    panel.token = saved[panel.profile].token

CollectorOfRun ==
  run.kind = "install" /\ run.pc \in AfterRemote =>
    collectors[vps].token = run.settings.token

PanelOfRun ==
  /\ run.pc = "start" /\ panel # None => run.kind = "command" /\ Fits(panel)
  /\ run.pc \in Saving => /\ Fits(panel) /\ panel.token = run.settings.token

TokenInv == /\ LegacyNamed /\ RunIsSaved /\ PanelHasToken
            /\ TokensAgree /\ CollectorOfRun /\ PanelOfRun

(* Which images are at work. *)
Past(version) == version # None => version <= published.panel

PastInv ==
  /\ published.collector <= published.panel
  /\ Past(tag) /\ Past(ImageOf(panel))
  /\ Active => Past(run.before) /\ Past(run.latest)

Pulled == Active /\ run.latest # None => tag # None /\ run.latest <= tag

PanelFound ==
  Active /\ run.pc \notin Saving /\ panel # None =>
    panel.image = run.before /\ panel.vps = run.with

PanelGone ==
  run.kind = "command" /\ run.answer = "yes" /\ run.pc \in AfterRemote =>
    panel = None

CollectorFound ==
  run.pc \in {"pull", "ask", "remote"} =>
    CollectorImageOf(collectors[vps]) = run.found

(* An outrun image may be older than the one that was announced. *)
CollectorDone ==
  run.pc \in AfterRemote \union {"remove"} =>
    /\ run.answer = "no" /\ run.found # None =>
         collectors[vps].image = run.found.image
    /\ run.answer # "no" /\ (run.answer = "yes" \/ run.kind = "install") =>
         run.latest <= collectors[vps].image \/ collectors[vps].outrun

PanelDone ==
  run.pc \in Saving =>
    /\ run.answer = "no" => panel.image = run.before
    /\ run.answer = "yes" => run.latest <= panel.image

ImageInv == /\ PastInv /\ Pulled /\ PanelFound /\ PanelGone
            /\ CollectorFound /\ CollectorDone /\ PanelDone

(* The panel that was found was not newer than its collector, unless the   *)
(* collector's image was outrun.                                           *)
BehindInv ==
  /\ CollectorBehindForTwoReasons
  /\ Active /\ ~unannounced /\ run.before # None /\ run.with = vps =>
       /\ run.found # None =>
            run.before <= run.found.image \/ run.found.outrun
       /\ collectors[vps] # None =>
            \/ run.before <= collectors[vps].image
            \/ collectors[vps].outrun
-----------------------------------------------------------------------------
(* What a step makes of the script that runs.                              *)

Steps == {"pull", "ask", "remote", "collector", "remove", "tunnel", "discard",
          "start", "save", "token", "host", "copy"}

(* All that a script knows. *)
script == <<run.kind, run.settings, run.port, run.before, run.latest,
            run.answer, run.image, run.found, run.with>>

(* A step of a script moves its position and nothing else. *)
LEMMA GoneTo ==
  ASSUME TypeOK, NEW pc \in Steps, Goto(pc)
  PROVE  run' \in Run /\ run'.pc = pc /\ UNCHANGED script
<1>1. run \in Run
  BY DEF TypeOK
<1>2. run' = [run EXCEPT !.pc = pc]
  BY DEF Goto
<1>3. run' \in Run
  BY <1>1, <1>2 DEF Run, Steps
<1> QED BY <1>1, <1>2, <1>3 DEF Run, script

(* A script begins with the image the panel runs with. *)
LEMMA Begun ==
  ASSUME TypeOK, NEW kind \in {"install", "command"},
         NEW settings \in Settings, NEW port \in Ports,
         NEW pc \in {"pull", "tunnel"}, Begin(kind, settings, port, pc)
  PROVE  /\ run' \in Run
         /\ run'.pc = pc /\ run'.kind = kind /\ run'.settings = settings
         /\ run'.port = port /\ run'.image = Tag
         /\ run'.latest = None /\ run'.answer = None
         /\ run'.before = ImageOf(panel)
         /\ run'.found = CollectorImageOf(collectors[settings.vps])
         /\ run'.with = IF panel = None THEN None ELSE panel.vps
<1>1. ImageOf(panel) \in Versions \union {None}
  BY DEF TypeOK, ImageOf, Panel
<1>2. CollectorImageOf(collectors[settings.vps])
        \in CollectorImages \union {None}
  BY DEF TypeOK, CollectorImageOf, CollectorImages, Collector, Settings
<1>3. (IF panel = None THEN None ELSE panel.vps) \in VPSs \union {None}
  BY DEF TypeOK, Panel
<1> DEFINE before == ImageOf(panel)
           found  == CollectorImageOf(collectors[settings.vps])
           with   == IF panel = None THEN None ELSE panel.vps
<1>4. run' = [pc |-> pc, kind |-> kind, settings |-> settings, port |-> port,
              before |-> before, latest |-> None, answer |-> None,
              image |-> Tag, found |-> found, with |-> with]
  BY DEF Begin, Idle
<1>5. before \in Versions \union {None}
      /\ found \in CollectorImages \union {None} /\ with \in VPSs \union {None}
  BY <1>1, <1>2, <1>3
<1> HIDE DEF before, found, with
<1>6. run' \in Run
  BY <1>4, <1>5 DEF Run
<1> QED BY <1>4, <1>6 DEF before, found, with

(* It ends without a position to resume. *)
LEMMA Ended ==
  ASSUME run' = Idle
  PROVE  run' \in Run /\ run'.pc = "idle" /\ ~Active'
BY DEF Idle, Run, Active

(* A pull finds the published image and decides whom to ask. *)
LEMMA Pulling ==
  ASSUME TypeOK, Pull
  PROVE  /\ run' \in Run /\ run'.latest = published.panel
         /\ run.pc = "pull"
         /\ UNCHANGED <<run.kind, run.settings, run.port, run.before,
                        run.answer, run.image, run.found, run.with>>
         /\ \/ run'.pc = "ask" /\ run.before \notin {None, published.panel}
            \/ run'.pc = "remote" /\ run.kind = "install"
            \/ run'.pc = "tunnel" /\ run.kind # "install"
<1> DEFINE pc == IF run.before \notin {None, published.panel} THEN "ask"
                 ELSE IF run.kind = "install" THEN "remote" ELSE "tunnel"
<1>1. run \in Run /\ published.panel \in Versions
  BY DEF TypeOK
<1>2. run' = [run EXCEPT !.latest = published.panel, !.pc = pc] /\ run.pc = "pull"
  BY DEF Pull, At
<1>3. pc \in {"ask", "remote", "tunnel"}
  OBVIOUS
<1>4. \/ pc = "ask" /\ run.before \notin {None, published.panel}
      \/ pc = "remote" /\ run.kind = "install"
      \/ pc = "tunnel" /\ run.kind # "install"
  OBVIOUS
<1> HIDE DEF pc
<1>5. run' \in Run
  BY <1>1, <1>2, <1>3 DEF Run
<1> QED BY <1>1, <1>2, <1>4, <1>5 DEF Run

(* A failed pull goes on with the image that was there. *)
LEMMA PullFailing ==
  ASSUME TypeOK, PullFails
  PROVE  /\ run' \in Run /\ run.pc = "pull" /\ run'.pc = "tunnel"
         /\ run.kind = "command"
         /\ UNCHANGED <<run.kind, run.settings, run.port, run.before,
                        run.latest, run.answer, run.found, run.with>>
         /\ run'.image = IF run.before = None THEN Tag ELSE run.before
<1> DEFINE image == IF run.before = None THEN Tag ELSE run.before
<1>1. run \in Run
  BY DEF TypeOK
<1>2. /\ run' = [run EXCEPT !.pc = "tunnel", !.image = image]
      /\ run.pc = "pull" /\ run.kind = "command"
  BY DEF PullFails, At
<1>3. image \in Versions \union {Tag}
  BY <1>1 DEF Run
<1> HIDE DEF image
<1>4. run' \in Run
  BY <1>1, <1>2, <1>3 DEF Run
<1> QED BY <1>1, <1>2, <1>4 DEF Run, image

(* The answer to the question decides the image. *)
LEMMA Answering ==
  ASSUME TypeOK, NEW yes \in BOOLEAN, Answer(yes)
  PROVE  /\ run' \in Run /\ run.pc = "ask"
         /\ UNCHANGED <<run.kind, run.settings, run.port, run.before,
                        run.latest, run.found, run.with>>
         /\ \/ /\ run'.answer = "yes" /\ run'.image = Tag
               /\ run'.pc = "remote"
            \/ /\ run'.answer = "no" /\ run'.image = run.before
               /\ run'.pc = IF run.kind = "install" THEN "remote" ELSE "tunnel"
<1> DEFINE answer == IF yes THEN "yes" ELSE "no"
           image == IF yes THEN Tag ELSE run.before
           pc == IF yes \/ run.kind = "install" THEN "remote" ELSE "tunnel"
<1>1. run \in Run
  BY DEF TypeOK
<1>2. /\ run' = [run EXCEPT !.answer = answer, !.image = image, !.pc = pc]
      /\ run.pc = "ask"
  BY DEF Answer, At
<1>3. /\ answer \in {"yes", "no"} /\ image \in Versions \union {Tag, None}
      /\ pc \in {"remote", "tunnel"}
  BY <1>1 DEF Run
<1>4. \/ answer = "yes" /\ image = Tag /\ pc = "remote"
      \/ /\ answer = "no" /\ image = run.before
         /\ pc = IF run.kind = "install" THEN "remote" ELSE "tunnel"
  OBVIOUS
<1> HIDE DEF answer, image, pc
<1>5. run' \in Run
  BY <1>1, <1>2, <1>3 DEF Run
<1> QED BY <1>1, <1>2, <1>4, <1>5 DEF Run

-----------------------------------------------------------------------------
(* Types.                                                                  *)

(* What a profile says, which is settings once it says a host. *)
LEMMA StoredType ==
  ASSUME TypeOK, RunInv, NEW p \in Profiles
  PROVE  /\ StoredSettings(p) \in Stored \union {None}
         /\ HasHost(StoredSettings(p)) => StoredSettings(p) \in Settings
<1>1. CASE saved[p] = None /\ p = Default
  <2>1. StoredSettings(p) = legacy /\ legacy \in Settings \union {None}
    BY <1>1 DEF StoredSettings, TypeOK
  <2>2. Settings \subseteq Stored
    BY DEF Settings, Stored
  <2> QED BY <2>1, <2>2 DEF HasHost
<1>2. CASE ~(saved[p] = None /\ p = Default)
  <2>1. StoredSettings(p) = saved[p] /\ saved[p] \in Stored \union {None}
    BY <1>2 DEF StoredSettings, TypeOK
  <2> QED BY <2>1 DEF HasHost, RunInv, ProfilesWritten, Stored, Settings
<1> QED BY <1>1, <1>2

(* What an installation takes from a profile, and what it makes itself. *)
LEMMA Installing ==
  ASSUME TypeOK, RunInv, NEW p \in Profiles, NEW v \in VPSs, NEW port \in Ports,
         StartInstall(p, v, port)
  PROVE  /\ issued' \subseteq Tokens
         /\ \E settings \in Settings :
              /\ Begin("install", settings, port, "pull")
              /\ settings.name = p
              /\ HasHost(StoredSettings(p)) =>
                   settings.vps = StoredSettings(p).vps
              /\ HasToken(StoredSettings(p)) =>
                   settings.token = StoredSettings(p).token
<1> DEFINE stored == StoredSettings(p)
<1>1. stored \in Stored \union {None} /\ issued \subseteq Tokens
  BY StoredType DEF TypeOK
<1>2. HasHost(stored) => v = stored.vps
  BY DEF StartInstall
<1>3. PICK token \in InstallToken(stored) :
        /\ Begin("install", [name |-> p, vps |-> v, token |-> token], port,
                 "pull")
        /\ issued' = issued \union {token}
  BY DEF StartInstall
<1> HIDE DEF stored
<1>4. token \in Tokens /\ (HasToken(stored) => token = stored.token)
  BY <1>1, <1>3 DEF InstallToken, HasToken, Stored
<1> DEFINE settings == [name |-> p, vps |-> v, token |-> token]
<1>5. /\ settings \in Settings /\ settings.name = p
      /\ settings.vps = v /\ settings.token = token
  BY <1>4 DEF Settings
<1>6. Begin("install", settings, port, "pull")
  BY <1>3
<1> HIDE DEF settings
<1> QED BY <1>1, <1>2, <1>3, <1>4, <1>5, <1>6 DEF stored

(* A command begins with the settings of a profile. *)
LEMMA Commanding ==
  ASSUME TypeOK, RunInv, NEW p \in Profiles, NEW port \in Ports,
         NEW check \in BOOLEAN, StartCommand(p, port, check)
  PROVE  /\ StoredSettings(p) \in Settings
         /\ \E pc \in {"pull", "tunnel"} :
              Begin("command", StoredSettings(p), port, pc)
BY StoredType DEF StartCommand

(* Writing a profile: its name, then its token, then its host. *)
LEMMA ProfileWritten ==
  ASSUME TypeOK, RunInv, SaveProfile \/ SaveToken \/ SaveHost
  PROVE  /\ run.pc \in Saving /\ run'.pc \in Writing /\ run' \in Run
         /\ run.settings \in Settings /\ run.kind = "install"
         /\ UNCHANGED script
         /\ UNCHANGED <<published, collectors, tag, panel, socket, legacy>>
         /\ UNCHANGED history
         /\ saved' \in [Profiles -> Stored \union {None}]
         /\ \E profile \in Stored :
              /\ \A p \in Profiles :
                   saved'[p] = IF p = run.settings.name THEN profile
                               ELSE saved[p]
              /\ profile.name = run.settings.name
              /\ profile.vps \in {None, run.settings.vps}
              /\ profile.token \in {None, run.settings.token}
              /\ profile.vps # None => profile.token # None
<1>1. run.pc \in Saving
  BY DEF SaveProfile, SaveToken, SaveHost, At, Saving, Writing
<1>2. run.settings \in Settings /\ run.kind = "install"
  BY <1>1 DEF RunInv, Active, Saving, Writing
<1> DEFINE h0 == [run.settings EXCEPT !.vps = None, !.token = None]
           h1 == [run.settings EXCEPT !.vps = None]
<1>3. PICK profile \in {h0, h1, run.settings}, pc \in Writing :
        WriteProfile(pc, profile)
  BY DEF SaveProfile, SaveToken, SaveHost, Writing
<1>4. /\ profile \in Stored
      /\ profile.name = run.settings.name
      /\ profile.vps \in {None, run.settings.vps}
      /\ profile.token \in {None, run.settings.token}
      /\ profile.vps # None => profile.token # None
  <2>1. \A v \in VPSs : v # None
    BY DeploymentAssumption
  <2>2. \A t \in Tokens : t # None
    BY DeploymentAssumption
  <2> QED BY <1>2, <1>3, <2>1, <2>2 DEF Settings, Stored
<1> HIDE DEF h0, h1
<1>5. run' \in Run /\ run'.pc = pc /\ UNCHANGED script
  BY <1>3, GoneTo DEF WriteProfile, Writing, Steps
<1>6. /\ saved' \in [Profiles -> Stored \union {None}]
      /\ \A p \in Profiles :
           saved'[p] = IF p = run.settings.name THEN profile ELSE saved[p]
  BY <1>3, <1>4 DEF WriteProfile, TypeOK
<1>7. /\ UNCHANGED <<published, collectors, tag, panel, socket, legacy>>
      /\ UNCHANGED history
  BY <1>3 DEF WriteProfile
<1> QED BY <1>1, <1>2, <1>3, <1>4, <1>5, <1>6, <1>7

(* A panel that is created runs an image that is resolved. *)
LEMMA PanelRuns ==
  ASSUME TypeOK, RunInv, At("start"), RunPanel
  PROVE  /\ panel' \in Panel /\ panel'.running
         /\ tag' \in Versions \union {None} /\ unannounced' \in BOOLEAN
<1>1. /\ run.settings \in Settings /\ run.port \in Ports
      /\ run.image \in Versions \union {Tag}
  BY DEF RunInv, Active, At
<1>2. Resolve(run.image) \in Versions
  BY <1>1 DEF Resolve, TypeOK
<1>3. panel' \in Panel
  BY <1>1, <1>2 DEF RunPanel, Panel, Settings, vps
<1>4. tag' \in Versions \union {None}
  BY <1>2 DEF RunPanel, TypeOK
<1>5. unannounced' \in BOOLEAN
  BY DEF RunPanel, TypeOK
<1> QED BY <1>3, <1>4, <1>5 DEF RunPanel

(* Once the panel runs, an installer still saves, a command is done. *)
LEMMA Starting ==
  ASSUME TypeOK, RunInv, StartPanel
  PROVE  /\ run' \in Run
         /\ \/ /\ run.kind = "install" /\ run'.pc = "save"
               /\ UNCHANGED script
            \/ run.kind = "command" /\ run' = Idle
<1>1. run.kind \in {"install", "command"} /\ run \in Run
  BY DEF StartPanel, RunInv, Active, At, TypeOK
<1>2. CASE run.kind = "install"
  <2>1. Goto("save")
    BY <1>2 DEF StartPanel, Goto
  <2> QED BY <1>2, <2>1, GoneTo DEF Steps
<1>3. CASE run.kind = "command"
  BY <1>3, Ended DEF StartPanel
<1> QED BY <1>1, <1>2, <1>3

LEMMA TypeNext == TypeOK /\ RunInv /\ [Next]_vars => TypeOK'
<1> SUFFICES ASSUME TypeOK, RunInv, [Next]_vars PROVE TypeOK'
  OBVIOUS
<1>1. ASSUME NEW p \in Profiles, NEW v \in VPSs, NEW port \in Ports,
             StartInstall(p, v, port)
      PROVE  TypeOK'
  <2>1. PICK settings \in Settings : Begin("install", settings, port, "pull")
    BY <1>1, Installing
  <2>2. run' \in Run
    BY <2>1, Begun
  <2>3. issued' \subseteq Tokens
    BY <1>1, Installing
  <2> QED BY <1>1, <2>2, <2>3 DEF StartInstall, TypeOK, local
<1>2. ASSUME NEW p \in Profiles, NEW port \in Ports, NEW check \in BOOLEAN,
             StartCommand(p, port, check)
      PROVE  TypeOK'
  <2>1. run' \in Run
    BY <1>2, Commanding, Begun
  <2> QED BY <1>2, <2>1 DEF StartCommand, TypeOK, local
<1>3. CASE Pull
  BY <1>3, Pulling DEF Pull, TypeOK, history
<1>4. CASE PullFails
  BY <1>4, PullFailing DEF PullFails, TypeOK, local, history
<1>5. ASSUME NEW yes \in BOOLEAN,
             Answer(yes)
      PROVE  TypeOK'
  BY <1>5, Answering DEF Answer, TypeOK, local, history
<1>6. CASE RemoveCollector
  <2>1. run' \in Run
    BY <1>6, GoneTo DEF RemoveCollector, Steps
  <2>2. collectors' \in [VPSs -> Collector \union {None}]
    BY <1>6 DEF RemoveCollector, TypeOK
  <2> QED BY <1>6, <2>1, <2>2 DEF RemoveCollector, TypeOK, local, history
<1>7. CASE StartCollector
  <2>1. run' \in Run
    BY <1>7, GoneTo DEF StartCollector, Steps
  <2>2. run.settings \in Settings
    BY <1>7 DEF StartCollector, RunInv, Active, At
  <2>3. CollectorImage \in CollectorImages
    BY DEF CollectorImage, LatestCollector, CollectorImages, TypeOK, Run, Versions
  <2>4. [image |-> CollectorImage.image, outrun |-> CollectorImage.outrun,
         token |-> run.settings.token, by |-> run.settings.name] \in Collector
    BY <2>2, <2>3 DEF Settings, CollectorImages, Collector
  <2>5. collectors' \in [VPSs -> Collector \union {None}]
    BY <1>7, <2>4 DEF StartCollector, TypeOK
  <2> QED BY <1>7, <2>1, <2>5 DEF StartCollector, TypeOK, local, history
<1>8. CASE RemovePanel
  <2>1. run' \in Run
    BY <1>8, GoneTo DEF RemovePanel, Steps
  <2> QED BY <1>8, <2>1 DEF RemovePanel, TypeOK, history
<1>9. CASE KeepTunnel
  <2>1. run' \in Run
    BY <1>9, GoneTo DEF KeepTunnel, Steps
  <2> QED BY <1>9, <2>1 DEF KeepTunnel, TypeOK, local, history
<1>10. CASE OpenTunnel
  <2>1. run' \in Run
    BY <1>10, GoneTo DEF OpenTunnel, Steps
  <2>2. vps \in VPSs
    BY <1>10 DEF OpenTunnel, RunInv, Active, At, Settings, vps
  <2> QED BY <1>10, <2>1, <2>2 DEF OpenTunnel, TypeOK, history
<1>11. CASE Discard
  <2>1. run' \in Run
    BY <1>11, GoneTo DEF Discard, Steps
  <2>2. panel' \in {panel, None}
    BY <1>11 DEF Discard
  <2> QED BY <1>11, <2>1, <2>2 DEF Discard, TypeOK, history
<1>12. CASE StartPanel
  <2>1. run' \in Run
    BY <1>12, Starting
  <2>2. panel' \in Panel /\ tag' \in Versions \union {None}
        /\ unannounced' \in BOOLEAN
    <3>1. CASE RunPanel
      BY <1>12, <3>1, PanelRuns DEF StartPanel
    <3>2. CASE panel # None /\ panel' = [panel EXCEPT !.running = TRUE]
               /\ UNCHANGED <<tag, unannounced>>
      BY <3>2 DEF TypeOK, Panel
    <3> QED BY <1>12, <3>1, <3>2 DEF StartPanel
  <2> QED BY <1>12, <2>1, <2>2 DEF StartPanel, TypeOK
<1>13. CASE SaveProfile \/ SaveToken \/ SaveHost
  <2>1. /\ run' \in Run /\ saved' \in [Profiles -> Stored \union {None}]
        /\ UNCHANGED <<published, collectors, tag, panel, socket, legacy>>
        /\ UNCHANGED history
    BY <1>13, ProfileWritten
  <2> QED BY <2>1 DEF TypeOK, history
<1>21. CASE CopyProfile
  <2>1. run' \in Run
    BY <1>21, Ended DEF CopyProfile
  <2>2. run.settings \in Settings
    BY <1>21 DEF CopyProfile, RunInv, Active, At
  <2> QED BY <1>21, <2>1, <2>2 DEF CopyProfile, TypeOK, history
<1>14. CASE Stop
  <2>1. run' \in Run
    BY <1>14, Ended DEF Stop
  <2>2. halves' \in 0..MaxHalves
    BY <1>14, DeploymentAssumption DEF Stop, TypeOK
  <2> QED BY <1>14, <2>1, <2>2 DEF Stop, TypeOK, local
<1>15. CASE PublishPanel
  <2>1. /\ published.panel + 1 \in Versions
        /\ published' = [published EXCEPT !.panel = @ + 1]
    BY <1>15, DeploymentAssumption DEF PublishPanel, TypeOK, Versions
  <2>2. published' \in [panel : Versions, collector : Versions]
    BY <2>1 DEF TypeOK
  <2> QED BY <1>15, <2>2 DEF PublishPanel, TypeOK, local, history
<1>22. CASE PublishCollector
  <2>1. PICK version \in published.collector + 1 .. published.panel :
          published' = [published EXCEPT !.collector = version]
    BY <1>22 DEF PublishCollector
  <2>2. version \in Versions
    BY DeploymentAssumption DEF TypeOK, Versions
  <2>3. published' \in [panel : Versions, collector : Versions]
    BY <2>1, <2>2 DEF TypeOK
  <2> QED BY <1>22, <2>3 DEF PublishCollector, TypeOK, local, history
<1>16. CASE UpdateCheck
  BY <1>16 DEF UpdateCheck, TypeOK, history
<1>17. CASE TunnelBreaks
  BY <1>17 DEF TunnelBreaks, TunnelAnswers, TypeOK, history
<1>18. CASE PanelStops
  BY <1>18 DEF PanelStops, TypeOK, Panel, history
<1>19. CASE Uninstall
  BY <1>19 DEF Uninstall, TypeOK, history
<1>20. CASE UNCHANGED vars
  BY <1>20 DEF vars, TypeOK, local, history
<1> QED
  BY <1>1, <1>2, <1>3, <1>4, <1>5, <1>6, <1>7, <1>8, <1>9, <1>10, <1>11,
     <1>12, <1>13, <1>14, <1>15, <1>16, <1>17, <1>18, <1>19, <1>20, <1>21,
     <1>22 DEF Next

LEMMA RunNext == TypeOK /\ RunInv /\ [Next]_vars => RunInv'
<1> SUFFICES ASSUME TypeOK, RunInv, [Next]_vars PROVE RunInv'
  OBVIOUS
<1> USE DEF ProfilesWritten, local
<1>1. ASSUME NEW p \in Profiles, NEW v \in VPSs, NEW port \in Ports,
             StartInstall(p, v, port)
      PROVE  RunInv'
  <2>1. PICK settings \in Settings : Begin("install", settings, port, "pull")
    BY <1>1, Installing
  <2>2. UNCHANGED saved
    BY <1>1 DEF StartInstall
  <2> QED BY <2>1, <2>2, Begun, DeploymentAssumption DEF RunInv
<1>2. ASSUME NEW p \in Profiles, NEW port \in Ports, NEW check \in BOOLEAN,
             StartCommand(p, port, check)
      PROVE  RunInv'
  <2>1. StoredSettings(p) \in Settings
    BY <1>2, Commanding
  <2>2. PICK pc \in {"pull", "tunnel"} :
          Begin("command", StoredSettings(p), port, pc)
    BY <1>2, Commanding
  <2>3. UNCHANGED saved
    BY <1>2 DEF StartCommand
  <2> QED BY <2>1, <2>2, <2>3, Begun, DeploymentAssumption
          DEF RunInv, Saving, Writing
<1>3. CASE Pull
  <2>1. run \in Run /\ published.panel \in Versions
    BY DEF TypeOK
  <2> QED BY <1>3, <2>1, Pulling, DeploymentAssumption
          DEF Pull, RunInv, Active, Run, Saving, Writing
<1>4. CASE PullFails
  BY <1>4, PullFailing, DeploymentAssumption
     DEF PullFails, RunInv, Active, TypeOK, Run, Saving, Writing
<1>5. ASSUME NEW yes \in BOOLEAN,
             Answer(yes)
      PROVE  RunInv'
  <2>1. UNCHANGED saved
    BY <1>5 DEF Answer
  <2>2. /\ UNCHANGED <<run.kind, run.settings, run.port, run.before,
                       run.latest>>
        /\ run.pc = "ask"
        /\ \/ /\ run'.answer = "yes" /\ run'.image = Tag
              /\ run'.pc = "remote"
           \/ /\ run'.answer = "no" /\ run'.image = run.before
              /\ run'.pc = IF run.kind = "install" THEN "remote" ELSE "tunnel"
    BY <1>5, Answering
  <2> QED BY <2>1, <2>2 DEF RunInv, Active, Saving, Writing
<1>6. CASE RemoveCollector
  BY <1>6, GoneTo DEF RemoveCollector, RunInv, Active, At, Steps, script, Saving,
    Writing
<1>7. CASE StartCollector
  BY <1>7, GoneTo DEF StartCollector, RunInv, Active, At, Steps, script, Saving,
    Writing
<1>8. CASE RemovePanel
  BY <1>8, GoneTo DEF RemovePanel, RunInv, Active, At, Steps, script, Saving,
    Writing
<1>9. CASE KeepTunnel
  BY <1>9, GoneTo DEF KeepTunnel, RunInv, Active, At, Steps, script, Saving,
    Writing
<1>10. CASE OpenTunnel
  BY <1>10, GoneTo DEF OpenTunnel, RunInv, Active, At, Steps, script, Saving,
    Writing
<1>11. CASE Discard
  BY <1>11, GoneTo DEF Discard, RunInv, Active, At, Steps, script, Saving,
    Writing
<1>12. CASE StartPanel
  BY <1>12, Starting, Ended DEF StartPanel, RunInv, Active, At, script,
     Saving, Writing
<1>13. CASE SaveProfile \/ SaveToken \/ SaveHost
  <2>1. ProfilesWritten'
    BY <1>13, ProfileWritten DEF RunInv
  <2>2. Active /\ run.kind = "install" /\ run.pc # "pull"
    BY <1>13, ProfileWritten DEF Active, Saving, Writing
  <2>3. run'.pc \in Writing /\ UNCHANGED script
    BY <1>13, ProfileWritten
  <2> QED BY <2>1, <2>2, <2>3 DEF RunInv, Active, script, Writing
<1>21. CASE CopyProfile
  BY <1>21, Ended DEF CopyProfile, RunInv
<1>14. CASE Stop
  BY <1>14, Ended DEF Stop, RunInv
<1>15. CASE PublishPanel
  BY <1>15 DEF PublishPanel, RunInv, Active
<1>22. CASE PublishCollector
  BY <1>22 DEF PublishCollector, RunInv, Active
<1>16. CASE UpdateCheck
  BY <1>16 DEF UpdateCheck, RunInv, Active
<1>17. CASE TunnelBreaks
  BY <1>17 DEF TunnelBreaks, RunInv, Active
<1>18. CASE PanelStops
  BY <1>18 DEF PanelStops, RunInv, Active
<1>19. CASE Uninstall
  BY <1>19 DEF Uninstall, RunInv, Active
<1>20. CASE UNCHANGED vars
  BY <1>20 DEF vars, RunInv, Active
<1> QED
  BY <1>1, <1>2, <1>3, <1>4, <1>5, <1>6, <1>7, <1>8, <1>9, <1>10, <1>11,
     <1>12, <1>13, <1>14, <1>15, <1>16, <1>17, <1>18, <1>19, <1>20, <1>21,
     <1>22 DEF Next

-----------------------------------------------------------------------------
(* Tokens.                                                                 *)

LEMMA TokenNext == TypeOK /\ RunInv /\ TokenInv /\ [Next]_vars => TokenInv'
<1> SUFFICES ASSUME TypeOK, RunInv, TokenInv, [Next]_vars PROVE TokenInv'
  OBVIOUS
<1> USE DEF TokenInv, LegacyNamed, RunIsSaved, PanelHasToken, TokensAgree,
            CollectorOfRun, PanelOfRun, Active, AfterRemote, Fits, vps,
            script, local, history, At, Steps, Saving, Writing,
            HasHost, HasToken
<1>0. /\ collectors \in [VPSs -> Collector \union {None}]
      /\ saved \in [Profiles -> Stored \union {None}]
      /\ \A p \in Profiles : saved[p] # None => saved[p].vps \in VPSs \union {None}
      /\ legacy # None => legacy \in Settings /\ legacy.name \in Profiles
      /\ \A settings \in Settings : /\ settings.name \in Profiles
                                   /\ settings.vps \in VPSs
                                   /\ settings.token \in Tokens
      /\ None \notin Tokens
  BY DeploymentAssumption DEF TypeOK, Settings, Stored
<1>1. ASSUME NEW p \in Profiles, NEW v \in VPSs, NEW port \in Ports,
             StartInstall(p, v, port)
      PROVE  TokenInv'
  <2>1. PICK settings \in Settings :
          /\ Begin("install", settings, port, "pull")
          /\ settings.name = p
          /\ HasHost(StoredSettings(p)) =>
               settings.vps = StoredSettings(p).vps
          /\ HasToken(StoredSettings(p)) =>
               settings.token = StoredSettings(p).token
    BY <1>1, Installing
  <2>2. /\ run'.pc = "pull" /\ run'.kind = "install"
        /\ run'.settings = settings
    BY <2>1, Begun
  <2>3. saved[p] # None => StoredSettings(p) = saved[p]
    BY DEF StoredSettings
  <2>4. UNCHANGED <<saved, legacy, collectors, panel, outdated>>
    BY <1>1 DEF StartInstall
  <2>5. RunIsSaved'
    BY <2>1, <2>2, <2>3, <2>4
  <2> QED BY <2>1, <2>2, <2>4, <2>5
<1>2. ASSUME NEW p \in Profiles, NEW port \in Ports, NEW check \in BOOLEAN,
             StartCommand(p, port, check)
      PROVE  TokenInv'
  <2> DEFINE stored == StoredSettings(p)
  <2>1. stored \in Settings
    BY <1>2, Commanding
  <2>2. PICK pc \in {"pull", "tunnel"} : Begin("command", stored, port, pc)
    BY <1>2, Commanding
  <2>3. run'.pc = pc /\ run'.kind = "command" /\ run'.settings = stored
    BY <2>1, <2>2, Begun
  <2>4. saved[stored.name] # None
    <3>1. CASE saved[p] = None /\ p = Default
      BY <1>2, <3>1 DEF StartCommand, StoredSettings
    <3>2. CASE ~(saved[p] = None /\ p = Default)
      BY <1>2, <3>2 DEF StartCommand, StoredSettings, RunInv, ProfilesWritten
    <3> QED BY <3>1, <3>2
  <2>5. /\ UNCHANGED <<saved, legacy, collectors, panel>>
        /\ ~outdated' => ~outdated /\ saved[stored.name].token = stored.token
    BY <1>2 DEF StartCommand
  <2> HIDE DEF stored
  <2>6. RunIsSaved'
    BY <2>3, <2>4, <2>5
  <2> QED BY <2>3, <2>5, <2>6
<1>3. CASE Pull
  BY <1>3, Pulling DEF Pull
<1>4. CASE PullFails
  BY <1>4, PullFailing DEF PullFails
<1>5. ASSUME NEW yes \in BOOLEAN,
             Answer(yes)
      PROVE  TokenInv'
  <2>1. /\ UNCHANGED <<saved, legacy, collectors, panel, outdated>>
        /\ UNCHANGED <<run.kind, run.settings, run.port>>
        /\ run.pc = "ask"
    BY <1>5, Answering DEF Answer
  <2>2. run'.pc = "remote" \/ (run'.pc = "tunnel" /\ run.kind # "install")
    BY <1>5, Answering
  <2> QED BY <2>1, <2>2
<1>6. CASE RemoveCollector
  <2>1. \A v \in VPSs : collectors'[v] \in {collectors[v], None}
    BY <1>6, <1>0 DEF RemoveCollector
  <2> QED BY <1>6, <1>0, <2>1, GoneTo DEF RemoveCollector
<1>7. CASE StartCollector
  <2>1. /\ UNCHANGED script /\ run'.pc \in {"remove", "tunnel"}
        /\ run.settings \in Settings
    BY <1>7, GoneTo DEF StartCollector, RunInv
  <2>2. \A v \in VPSs : collectors'[v] =
          IF v = vps THEN [image |-> CollectorImage.image,
                           outrun |-> CollectorImage.outrun,
                           token |-> run.settings.token,
                           by |-> run.settings.name]
                     ELSE collectors[v]
    BY <1>7, <1>0 DEF StartCollector
  <2>3. vps \in VPSs
    BY <2>1 DEF Settings
  <2>4. TokensAgree'
    <3>1. UNCHANGED <<saved, outdated>>
      BY <1>7 DEF StartCollector
    <3>2. ASSUME NEW p \in Profiles, ~outdated, HasHost(saved[p]),
                 collectors'[saved[p].vps] # None,
                 collectors'[saved[p].vps].by = p
          PROVE  collectors'[saved[p].vps].token = saved[p].token
      <4>1. CASE saved[p].vps = vps
        <5>1. p = run.settings.name /\ saved[p].token # None
          BY <1>0, <2>2, <3>2, <4>1 DEF RunInv, ProfilesWritten
        <5>2. saved[p].token = run.settings.token
          BY <1>7, <2>1, <3>2, <5>1 DEF StartCollector, RunInv
        <5> QED BY <1>0, <2>2, <2>3, <4>1, <5>2
      <4>2. CASE saved[p].vps # vps
        BY <1>0, <2>2, <3>2, <4>2
      <4> QED BY <4>1, <4>2
    <3> QED BY <3>1, <3>2
  <2>5. CollectorOfRun'
    BY <2>1, <2>2, <2>3
  <2> QED BY <1>7, <2>1, <2>4, <2>5 DEF StartCollector
<1>8. CASE RemovePanel
  BY <1>8, GoneTo DEF RemovePanel, RunInv
<1>9. CASE KeepTunnel
  BY <1>9, GoneTo DEF KeepTunnel
<1>10. CASE OpenTunnel
  BY <1>10, GoneTo DEF OpenTunnel
<1>11. CASE Discard
  BY <1>11, GoneTo DEF Discard
<1>12. CASE StartPanel
  <2>1. UNCHANGED <<saved, legacy, collectors>> /\ run.pc = "start"
        /\ run.settings \in Settings
    BY <1>12 DEF StartPanel, RunInv
  <2>2. CASE RunPanel
    <3>1. /\ panel'.profile = run.settings.name /\ panel'.vps = vps
          /\ panel'.port = run.port /\ panel'.token = run.settings.token
      BY <2>2 DEF RunPanel
    <3>2. UNCHANGED outdated
      BY <1>12 DEF StartPanel
    <3>3. PanelHasToken'
      BY <1>0, <1>12, <2>1, <3>1, <3>2 DEF StartPanel, RunInv
    <3> QED BY <1>12, <2>1, <3>1, <3>2, <3>3, Starting, Ended
  <2>3. CASE panel # None /\ panel' = [panel EXCEPT !.running = TRUE]
    <3>1. run.kind = "command" /\ run' = Idle /\ panel \in Panel
      BY <1>12, <2>1, <2>3, Starting DEF TypeOK
    <3>2. panel'.profile = panel.profile /\ panel'.token = panel.token
      BY <2>3, <3>1 DEF Panel
    <3>3. UNCHANGED outdated
      BY <1>12 DEF StartPanel
    <3> QED BY <2>1, <2>3, <3>1, <3>2, <3>3, Ended
  <2> QED BY <1>12, <2>2, <2>3 DEF StartPanel
<1>13. CASE SaveProfile \/ SaveToken \/ SaveHost
  <2>1. /\ run.pc \in Saving /\ run'.pc \in Writing
        /\ run.settings \in Settings /\ run.kind = "install"
        /\ UNCHANGED script /\ UNCHANGED <<collectors, panel, legacy, outdated>>
    BY <1>13, ProfileWritten
  <2>2. PICK profile \in Stored :
          /\ \A p \in Profiles :
               saved'[p] = IF p = run.settings.name THEN profile ELSE saved[p]
          /\ profile.name = run.settings.name
          /\ profile.vps \in {None, run.settings.vps}
          /\ profile.token \in {None, run.settings.token}
          /\ profile.vps # None => profile.token # None
    BY <1>13, ProfileWritten
  <2>3. run.settings.name \in Profiles /\ profile # None
    BY <1>0, <2>1, DeploymentAssumption DEF Stored
  <2>4. LegacyNamed' /\ RunIsSaved'
    BY <1>0, <2>1, <2>2, <2>3
  <2>5. TokensAgree'
    BY <2>1, <2>2, <2>3
  <2>6. PanelHasToken'
    <3>1. panel # None => panel.profile \in Profiles
      BY DEF TypeOK, Panel
    <3> QED BY <2>1, <2>2, <2>3, <3>1
  <2> QED BY <2>1, <2>4, <2>5, <2>6
<1>21. CASE CopyProfile
  <2>1. /\ run.pc = "copy" /\ run.settings \in Settings
        /\ legacy' = run.settings
        /\ UNCHANGED <<saved, collectors, panel, outdated>>
    BY <1>21 DEF CopyProfile, RunInv
  <2> QED BY <1>21, <2>1, Ended DEF CopyProfile
<1>14. CASE Stop
  BY <1>14, Ended DEF Stop
<1>15. CASE PublishPanel
  BY <1>15 DEF PublishPanel
<1>22. CASE PublishCollector
  BY <1>22 DEF PublishCollector
<1>16. CASE UpdateCheck
  BY <1>16 DEF UpdateCheck
<1>17. CASE TunnelBreaks
  BY <1>17 DEF TunnelBreaks
<1>18. CASE PanelStops
  BY <1>18 DEF PanelStops
<1>19. CASE Uninstall
  BY <1>19 DEF Uninstall
<1>20. CASE UNCHANGED vars
  BY <1>20 DEF vars
<1> QED
  BY <1>1, <1>2, <1>3, <1>4, <1>5, <1>6, <1>7, <1>8, <1>9, <1>10, <1>11,
     <1>12, <1>13, <1>14, <1>15, <1>16, <1>17, <1>18, <1>19, <1>20, <1>21,
     <1>22 DEF Next

-----------------------------------------------------------------------------
(* Images.                                                                 *)

LEMMA ImageNext == TypeOK /\ RunInv /\ TokenInv /\ ImageInv /\ [Next]_vars
                     => ImageInv'
<1> SUFFICES ASSUME TypeOK, RunInv, TokenInv, ImageInv, [Next]_vars
             PROVE  ImageInv'
  OBVIOUS
<1> USE DEF ImageInv, PastInv, Past, ImageOf, Pulled, PanelFound, PanelGone,
            CollectorFound, CollectorDone, PanelDone, Active, AfterRemote,
            vps, script, local, history, At, Steps, Saving, Writing,
            CollectorImageOf
<1>0. /\ tag \in Versions \union {None}
      /\ panel \in Panel \union {None}
      /\ run.before \in Versions \union {None}
      /\ run.latest \in Versions \union {None}
      /\ run.found \in CollectorImages \union {None}
      /\ collectors \in [VPSs -> Collector \union {None}]
      /\ \A v \in VPSs : collectors[v] # None => collectors[v].image \in Versions
      /\ panel # None => panel.image \in Versions
      /\ Versions \subseteq Nat /\ None \notin Versions
      /\ published.panel \in Versions /\ published.collector \in Versions
  BY DeploymentAssumption
     DEF TypeOK, Run, Collector, CollectorImages, Panel, Versions
<1>n. /\ published.panel \in Nat /\ published.collector \in Nat
      /\ tag # None => tag \in Nat
      /\ run.latest # None => run.latest \in Nat
  BY <1>0
<1>1. ASSUME NEW p \in Profiles, NEW v \in VPSs, NEW port \in Ports,
             StartInstall(p, v, port)
      PROVE  ImageInv'
  <2>1. PICK settings \in Settings : Begin("install", settings, port, "pull")
    BY <1>1, Installing
  <2>2. settings.vps \in VPSs
    BY DEF Settings
  <2> QED BY <1>1, <1>0, <2>1, <2>2, Begun, DeploymentAssumption DEF StartInstall
<1>2. ASSUME NEW p \in Profiles, NEW port \in Ports, NEW check \in BOOLEAN,
             StartCommand(p, port, check)
      PROVE  ImageInv'
  <2>1. StoredSettings(p) \in Settings
    BY <1>2, Commanding
  <2>2. PICK pc \in {"pull", "tunnel"} :
          Begin("command", StoredSettings(p), port, pc)
    BY <1>2, Commanding
  <2>3. StoredSettings(p).vps \in VPSs
    BY <2>1 DEF Settings
  <2> QED BY <1>2, <1>0, <2>1, <2>2, <2>3, Begun, DeploymentAssumption
          DEF StartCommand
<1>3. CASE Pull
  BY <1>3, <1>0, Pulling, DeploymentAssumption DEF Pull, RunInv
<1>4. CASE PullFails
  BY <1>4, <1>0, PullFailing, DeploymentAssumption DEF PullFails, RunInv
<1>5. ASSUME NEW yes \in BOOLEAN,
             Answer(yes)
      PROVE  ImageInv'
  <2>1. /\ UNCHANGED <<published, tag, panel, collectors>>
        /\ UNCHANGED <<run.kind, run.settings, run.before, run.latest,
                       run.found, run.with>>
        /\ run.pc = "ask"
    BY <1>5, Answering DEF Answer
  <2>2. \/ run'.answer = "yes" /\ run'.pc = "remote"
        \/ run'.answer = "no" /\ run'.pc \in {"remote", "tunnel"}
    BY <1>5, Answering
  <2>3. CollectorDone'
    BY <1>0, <2>1, <2>2
  <2> QED BY <1>0, <2>1, <2>2, <2>3
<1>6. CASE RemoveCollector
  <2>1. \A v \in VPSs : collectors'[v] \in {collectors[v], None}
    BY <1>6, <1>0 DEF RemoveCollector
  <2> QED BY <1>6, <1>0, <2>1, GoneTo DEF RemoveCollector
<1>7. CASE StartCollector
  <2>1. /\ UNCHANGED script /\ run.pc = "collector"
        /\ run'.pc \in {"remove", "tunnel"}
        /\ run'.pc = "tunnel" => run.kind # "command"
        /\ UNCHANGED <<published, tag, panel>>
    BY <1>7, GoneTo DEF StartCollector
  <2>2. vps \in VPSs
    BY <1>7 DEF StartCollector, RunInv, Settings
  <2>3. CollectorImage \in CollectorImages
    BY DEF CollectorImage, LatestCollector, CollectorImages, TypeOK, Run, Versions
  <2>4. \A v \in VPSs : collectors'[v] =
          IF v = vps THEN [image |-> CollectorImage.image,
                           outrun |-> CollectorImage.outrun,
                           token |-> run.settings.token,
                           by |-> run.settings.name]
                     ELSE collectors[v]
    BY <1>7, <1>0 DEF StartCollector
  <2>5. CollectorDone'
    <3>1. /\ collectors'[vps].image = CollectorImage.image
          /\ collectors'[vps].outrun = CollectorImage.outrun
      BY <2>2, <2>4
    <3>2. run.answer = "no" /\ run.found # None => CollectorImage = run.found
      BY DEF CollectorImage
    <3>3. run.answer # "no" =>
            /\ CollectorImage.image = published.collector
            /\ published.collector < published.panel => CollectorImage.outrun
      BY DEF CollectorImage, LatestCollector
    <3>4. run.latest # None => run.latest <= published.panel
      BY <2>1
    <3>5. run.answer = "yes" \/ run.kind = "install" => run.latest # None
      BY <1>7, <1>0 DEF StartCollector, RunInv
    <3>6. /\ run.answer # "no" /\ (run.answer = "yes" \/ run.kind = "install")
          => \/ run.latest <= CollectorImage.image
             \/ CollectorImage.outrun
      BY <1>n, <3>3, <3>4, <3>5
    <3> QED BY <2>1, <3>1, <3>2, <3>6
  <2> QED BY <1>0, <2>1, <2>5
<1>8. CASE RemovePanel
  BY <1>8, <1>0, GoneTo DEF RemovePanel, RunInv
<1>9. CASE KeepTunnel
  BY <1>9, <1>0, GoneTo DEF KeepTunnel, RunInv
<1>10. CASE OpenTunnel
  BY <1>10, <1>0, GoneTo DEF OpenTunnel, RunInv
<1>11. CASE Discard
  BY <1>11, <1>0, GoneTo DEF Discard, RunInv
<1>12. CASE StartPanel
  <2>1. UNCHANGED <<published, collectors>> /\ run.pc = "start"
        /\ run.settings \in Settings
        /\ run.image \in Versions \union {Tag}
    BY <1>12 DEF StartPanel, RunInv
  <2>2. CASE RunPanel
    <3> DEFINE version == Resolve(run.image)
    <3>1. /\ version \in Versions /\ version <= published.panel
          /\ run.image # Tag => version = run.image
          /\ run.image = Tag /\ tag # None => version = tag
      <4>1. run.image # Tag => run.image <= published.panel
        BY <1>12, <1>0 DEF StartPanel, RunInv
      <4>2. tag # None => tag <= published.panel
        BY <1>0
      <4>3. published.panel <= published.panel
        BY <1>n
      <4> QED BY <1>0, <2>1, <4>1, <4>2, <4>3 DEF Resolve
    <3> HIDE DEF version
    <3>2. /\ panel'.image = version
          /\ tag' = IF run.image = Tag THEN version ELSE tag
      BY <2>2 DEF RunPanel, version
    <3>3. PastInv'
      BY <1>0, <2>1, <3>1, <3>2, Starting, Ended, <1>12
    <3>4. Pulled' /\ PanelFound' /\ PanelGone'
      BY <1>0, <2>1, <3>1, <3>2, Starting, Ended, <1>12 DEF RunInv
    <3>5. CollectorFound' /\ CollectorDone'
      BY <1>0, <2>1, <3>2, Starting, Ended, <1>12
    <3>6. /\ run.answer = "no" => version = run.before
          /\ run.answer = "yes" => run.latest <= version
      <4>1. Tag \notin Versions
        BY DeploymentAssumption DEF Versions
      <4> QED BY <1>0, <2>1, <3>1, <4>1 DEF RunInv
    <3>7. PanelDone'
      BY <2>1, <3>2, <3>6, Starting, Ended, <1>12
    <3> QED BY <3>3, <3>4, <3>5, <3>7
  <2>3. CASE panel # None /\ panel' = [panel EXCEPT !.running = TRUE]
    <3>1. run.kind = "command" /\ run' = Idle /\ panel \in Panel
      BY <1>12, <1>0, <2>1, <2>3, Starting DEF TokenInv, PanelOfRun
    <3>2. panel'.image = panel.image /\ UNCHANGED tag
      BY <1>12, <2>3, <3>1 DEF StartPanel, RunPanel, Panel
    <3> QED BY <2>1, <2>3, <3>1, <3>2, Ended
  <2> QED BY <1>12, <2>2, <2>3 DEF StartPanel
<1>13. CASE SaveProfile \/ SaveToken \/ SaveHost
  <2>1. /\ run.pc \in Saving /\ run'.pc \in Writing /\ UNCHANGED script
        /\ UNCHANGED <<published, collectors, tag, panel>>
    BY <1>13, ProfileWritten
  <2>2. PastInv' /\ Pulled'
    BY <2>1
  <2>3. PanelFound' /\ PanelGone' /\ CollectorFound'
    BY <2>1
  <2>4. CollectorDone' /\ PanelDone'
    BY <2>1
  <2> QED BY <2>2, <2>3, <2>4
<1>21. CASE CopyProfile
  BY <1>21, <1>0, Ended DEF CopyProfile
<1>14. CASE Stop
  BY <1>14, <1>0, Ended DEF Stop
<1>15. CASE PublishPanel
  <2>1. /\ UNCHANGED <<tag, panel, collectors, run>>
        /\ published'.panel = published.panel + 1
        /\ published'.collector = published.collector
    BY <1>15 DEF PublishPanel, TypeOK
  <2>2. \A n \in Versions : n <= published.panel => n <= published'.panel
    BY <1>0, <1>n, <2>1
  <2>3. PastInv'
    BY <1>0, <2>1, <2>2
  <2> QED BY <2>1, <2>3
<1>22. CASE PublishCollector
  <2>1. PICK version \in published.collector + 1 .. published.panel :
          published' = [published EXCEPT !.collector = version]
    BY <1>22 DEF PublishCollector
  <2>2. /\ published'.collector = version
        /\ published'.panel = published.panel
    BY <2>1 DEF TypeOK
  <2>3. UNCHANGED <<tag, panel, collectors, run>>
    BY <1>22 DEF PublishCollector
  <2>4. published'.collector <= published'.panel
    BY <1>0, <2>2
  <2> QED BY <2>2, <2>3, <2>4
<1>16. CASE UpdateCheck
  <2>1. /\ UNCHANGED <<published, panel, collectors, run>>
        /\ tag' = published.panel
    BY <1>16 DEF UpdateCheck
  <2>2. PastInv'
    BY <1>n, <2>1
  <2>3. Pulled'
    BY <1>n, <2>1, DeploymentAssumption DEF Versions, TypeOK
  <2> QED BY <2>1, <2>2, <2>3
<1>17. CASE TunnelBreaks
  BY <1>17, <1>0 DEF TunnelBreaks
<1>18. CASE PanelStops
  <2>1. panel' # None => panel'.image = panel.image /\ panel'.vps = panel.vps
    BY <1>18, <1>0 DEF PanelStops, Panel
  <2>2. panel # None
    BY <1>18 DEF PanelStops
  <2> QED BY <1>18, <1>0, <2>1, <2>2 DEF PanelStops
<1>19. CASE Uninstall
  BY <1>19, <1>0 DEF Uninstall
<1>20. CASE UNCHANGED vars
  BY <1>20, <1>0 DEF vars
<1> QED
  BY <1>1, <1>2, <1>3, <1>4, <1>5, <1>6, <1>7, <1>8, <1>9, <1>10, <1>11,
     <1>12, <1>13, <1>14, <1>15, <1>16, <1>17, <1>18, <1>19, <1>20, <1>21,
     <1>22 DEF Next

-----------------------------------------------------------------------------
(* A collector older than its panel.                                       *)

(* A script that begins finds a panel which is not newer than its          *)
(* collector, unless an image was started unannounced.                     *)
LEMMA Beginning ==
  ASSUME TypeOK, BehindInv, UNCHANGED <<panel, collectors, unannounced>>,
         NEW kind \in {"install", "command"}, NEW settings \in Settings,
         NEW port \in Ports, NEW pc \in {"pull", "tunnel"},
         Begin(kind, settings, port, pc)
  PROVE  BehindInv'
<1>1. settings.vps \in VPSs /\ None \notin VPSs
  BY DeploymentAssumption DEF Settings
<1>2. /\ run'.settings = settings /\ run'.before = ImageOf(panel)
      /\ run'.found = CollectorImageOf(collectors[settings.vps])
      /\ run'.with = IF panel = None THEN None ELSE panel.vps
  BY Begun
<1>3. CASE panel = None \/ panel.vps # settings.vps
  BY <1>1, <1>2, <1>3 DEF BehindInv, CollectorBehindForTwoReasons, vps
<1>4. CASE panel # None /\ panel.vps = settings.vps
  BY <1>1, <1>2, <1>4
     DEF BehindInv, CollectorBehindForTwoReasons, vps, ImageOf,
         CollectorImageOf
<1> QED BY <1>3, <1>4

LEMMA BehindNext ==
  TypeOK /\ RunInv /\ TokenInv /\ ImageInv /\ BehindInv /\ [Next]_vars
    => BehindInv'
<1> SUFFICES ASSUME TypeOK, RunInv, TokenInv, ImageInv, BehindInv,
                    [Next]_vars
             PROVE  BehindInv'
  OBVIOUS
<1> USE DEF BehindInv, CollectorBehindForTwoReasons, Active, AfterRemote,
            vps, script, local, history, At, Steps, Saving, Writing,
            CollectorImageOf
<1>0. /\ tag \in Versions \union {None}
      /\ panel \in Panel \union {None}
      /\ run.before \in Versions \union {None}
      /\ run.found \in CollectorImages \union {None}
      /\ collectors \in [VPSs -> Collector \union {None}]
      /\ \A v \in VPSs : collectors[v] # None => collectors[v].image \in Versions
      /\ panel # None => panel.image \in Versions
      /\ Versions \subseteq Nat /\ None \notin Versions
      /\ published.panel \in Versions /\ published.collector \in Versions
  BY DeploymentAssumption
     DEF TypeOK, Run, Collector, CollectorImages, Panel, Versions
<1>1. ASSUME NEW p \in Profiles, NEW v \in VPSs, NEW port \in Ports,
             StartInstall(p, v, port)
      PROVE  BehindInv'
  <2>1. PICK settings \in Settings : Begin("install", settings, port, "pull")
    BY <1>1, Installing
  <2>2. UNCHANGED <<panel, collectors, unannounced>>
    BY <1>1 DEF StartInstall
  <2> QED BY <2>1, <2>2, Beginning
<1>2. ASSUME NEW p \in Profiles, NEW port \in Ports, NEW check \in BOOLEAN,
             StartCommand(p, port, check)
      PROVE  BehindInv'
  <2>1. StoredSettings(p) \in Settings
    BY <1>2, Commanding
  <2>2. PICK pc \in {"pull", "tunnel"} :
          Begin("command", StoredSettings(p), port, pc)
    BY <1>2, Commanding
  <2>3. UNCHANGED <<panel, collectors, unannounced>>
    BY <1>2 DEF StartCommand
  <2> QED BY <2>1, <2>2, <2>3, Beginning
<1>3. CASE Pull
  BY <1>3, Pulling DEF Pull
<1>4. CASE PullFails
  BY <1>4, PullFailing DEF PullFails
<1>5. ASSUME NEW yes \in BOOLEAN,
             Answer(yes)
      PROVE  BehindInv'
  BY <1>5, Answering DEF Answer
<1>6. CASE RemoveCollector
  <2>1. \A v \in VPSs : collectors'[v] \in {collectors[v], None}
    BY <1>6, <1>0 DEF RemoveCollector
  <2>2. panel # None => panel.vps \in VPSs
    BY <1>0 DEF Panel
  <2>3. vps \in VPSs
    BY <1>6 DEF RemoveCollector, RunInv, Settings
  <2> QED BY <1>6, <2>1, <2>2, <2>3, GoneTo DEF RemoveCollector
<1>7. CASE StartCollector
  <2>1. /\ UNCHANGED script /\ run.pc = "collector"
        /\ run'.pc \in {"remove", "tunnel"}
        /\ UNCHANGED <<published, panel, unannounced>>
    BY <1>7, GoneTo DEF StartCollector
  <2>2. vps \in VPSs
    BY <1>7 DEF StartCollector, RunInv, Settings
  <2>3. \A v \in VPSs : collectors'[v] =
          IF v = vps THEN [image |-> CollectorImage.image,
                           outrun |-> CollectorImage.outrun,
                           token |-> run.settings.token,
                           by |-> run.settings.name]
                     ELSE collectors[v]
    BY <1>7, <1>0 DEF StartCollector
  <2>4. ~unannounced /\ run.before # None /\ run.with = vps =>
          run.before <= CollectorImage.image \/ CollectorImage.outrun
    <3>1. CASE run.answer = "no" /\ run.found # None
      BY <2>1, <3>1 DEF CollectorImage
    <3>2. CASE ~(run.answer = "no" /\ run.found # None)
      <4>1. /\ CollectorImage.image = published.collector
            /\ published.collector < published.panel => CollectorImage.outrun
        BY <3>2 DEF CollectorImage, LatestCollector
      <4>2. run.before # None => run.before <= published.panel
        BY <2>1 DEF ImageInv, PastInv, Past
      <4>3. /\ published.panel \in Nat /\ published.collector \in Nat
            /\ run.before # None => run.before \in Nat
        BY <1>0
      <4>4. run.before # None =>
              run.before <= CollectorImage.image \/ CollectorImage.outrun
        BY <4>1, <4>2, <4>3
      <4> QED BY <4>4
    <3> QED BY <3>1, <3>2
  <2>5. panel # None => /\ panel.image = run.before /\ panel.vps = run.with
                        /\ panel.vps \in VPSs /\ run.before # None
    BY <1>0, <2>1 DEF ImageInv, PanelFound, Panel
  <2> QED BY <2>1, <2>2, <2>3, <2>4, <2>5
<1>8. CASE RemovePanel
  BY <1>8, GoneTo DEF RemovePanel
<1>9. CASE KeepTunnel
  BY <1>9, GoneTo DEF KeepTunnel
<1>10. CASE OpenTunnel
  BY <1>10, GoneTo DEF OpenTunnel
<1>11. CASE Discard
  BY <1>11, GoneTo DEF Discard
<1>12. CASE StartPanel
  <2>1. /\ UNCHANGED <<published, collectors>> /\ run.pc = "start"
        /\ run.settings \in Settings /\ vps \in VPSs
    BY <1>12 DEF StartPanel, RunInv, Settings
  <2>2. CASE RunPanel
    <3> DEFINE version == Resolve(run.image)
    <3>1. version \in Versions
      BY <1>12, <1>0 DEF StartPanel, RunInv, Resolve
    <3>2. run.answer = "no" => version = run.before /\ run.before # run.latest
      BY <1>12, <1>0, DeploymentAssumption DEF StartPanel, RunInv, Resolve, Versions
    <3>3. panel'.image = version /\ panel'.vps = vps
      BY <2>2 DEF RunPanel
    <3>4. \/ unannounced'
          \/ ~unannounced /\ version = run.before /\ vps = run.with
          \/ ~unannounced /\ Announced(version)
      BY <2>2 DEF RunPanel
    <3> HIDE DEF version
    <3>5. CASE unannounced'
      BY <3>5
    <3>6. CASE ~unannounced /\ version = run.before /\ vps = run.with
      <4>1. collectors[vps] # None =>
              version <= collectors[vps].image \/ collectors[vps].outrun
        BY <1>0, <2>1, <3>1, <3>6
      <4> QED BY <1>12, <2>1, <3>3, <3>6, <4>1, Starting, Ended
    <3>7. CASE ~unannounced /\ Announced(version)
      <4>1. version = run.latest /\ run.answer # "no"
            /\ (run.answer = "yes" \/ run.kind = "install")
        BY <3>2, <3>7 DEF Announced
      <4>2. version <= collectors[vps].image \/ collectors[vps].outrun
        BY <2>1, <4>1 DEF ImageInv, CollectorDone
      <4> QED BY <1>12, <2>1, <3>3, <3>7, <4>2, Starting, Ended
    <3> QED BY <3>4, <3>5, <3>6, <3>7
  <2>3. CASE /\ panel # None /\ panel' = [panel EXCEPT !.running = TRUE]
             /\ UNCHANGED unannounced
    <3>1. run.kind = "command" /\ run' = Idle
      BY <1>12, <2>1, <2>3, Starting DEF TokenInv, PanelOfRun
    <3>2. panel'.image = panel.image /\ panel'.vps = panel.vps
      BY <1>0, <2>3 DEF Panel
    <3> QED BY <2>1, <2>3, <3>1, <3>2, Ended
  <2> QED BY <1>12, <2>2, <2>3 DEF StartPanel
<1>13. CASE SaveProfile \/ SaveToken \/ SaveHost
  <2>1. /\ run.pc \in Saving /\ run'.pc \in Writing /\ UNCHANGED script
        /\ UNCHANGED <<collectors, panel, unannounced>>
    BY <1>13, ProfileWritten
  <2> QED BY <2>1
<1>21. CASE CopyProfile
  BY <1>21, Ended DEF CopyProfile
<1>14. CASE Stop
  BY <1>14, Ended DEF Stop
<1>15. CASE PublishPanel
  BY <1>15 DEF PublishPanel
<1>22. CASE PublishCollector
  BY <1>22 DEF PublishCollector
<1>16. CASE UpdateCheck
  BY <1>16 DEF UpdateCheck
<1>17. CASE TunnelBreaks
  BY <1>17 DEF TunnelBreaks
<1>18. CASE PanelStops
  <2>1. panel # None /\ panel'.image = panel.image /\ panel'.vps = panel.vps
    BY <1>18, <1>0 DEF PanelStops, Panel
  <2> QED BY <1>18, <1>0, <2>1 DEF PanelStops
<1>19. CASE Uninstall
  BY <1>19 DEF Uninstall
<1>20. CASE UNCHANGED vars
  BY <1>20 DEF vars
<1> QED
  BY <1>1, <1>2, <1>3, <1>4, <1>5, <1>6, <1>7, <1>8, <1>9, <1>10, <1>11,
     <1>12, <1>13, <1>14, <1>15, <1>16, <1>17, <1>18, <1>19, <1>20, <1>21,
     <1>22 DEF Next

-----------------------------------------------------------------------------
(* Theorems.                                                               *)

IInv == TypeOK /\ RunInv /\ TokenInv /\ ImageInv /\ BehindInv

LEMMA InvInit == Init => IInv
<1> SUFFICES ASSUME Init PROVE IInv
  OBVIOUS
<1>1. TypeOK
  <2>1. 1 \in Versions /\ 0 \in 0..MaxHalves
    BY DeploymentAssumption DEF Versions
  <2>2. run \in Run
    BY DEF Init, Idle, Run
  <2> QED BY <2>1, <2>2 DEF Init, TypeOK
<1>2. ~Active /\ run.pc = "idle"
  BY DEF Init, Idle, Active
<1>3. RunInv
  BY <1>2 DEF RunInv, ProfilesWritten, Init
<1>4. TokenInv
  BY <1>2 DEF TokenInv, LegacyNamed, RunIsSaved, PanelHasToken, TokensAgree,
              CollectorOfRun, PanelOfRun, AfterRemote, Saving, Writing,
              HasHost, HasToken, Init
<1>5. ImageInv
  BY <1>2 DEF ImageInv, PastInv, Past, ImageOf, Pulled, PanelFound, PanelGone,
              CollectorFound, CollectorDone, PanelDone, AfterRemote, Saving,
              Writing, Init
<1>6. BehindInv
  BY <1>2 DEF BehindInv, CollectorBehindForTwoReasons, Init
<1> QED BY <1>1, <1>3, <1>4, <1>5, <1>6 DEF IInv

LEMMA InvNext == IInv /\ [Next]_vars => IInv'
BY TypeNext, RunNext, TokenNext, ImageNext, BehindNext DEF IInv

LEMMA Invariant == Spec => []IInv
BY InvInit, InvNext, PTL DEF Spec

(* TYPE CORRECTNESS of every reachable state: no container runs an image   *)
(* that was not resolved (profile.sh:581-604).                             *)
THEOREM TypeCorrect == Spec => []TypeOK
<1>1. IInv => TypeOK
  BY DEF IInv
<1> QED BY <1>1, Invariant, PTL

(* THE TOKENS AGREE, wherever installations stop, also while they save     *)
(* (main.sh:24-30, 58-71, profile.sh:10-42).                               *)
THEOREM TokensCorrect == Spec => []TokensAgree
<1>1. IInv => TokensAgree
  BY DEF IInv, TokenInv
<1> QED BY <1>1, Invariant, PTL

(* A COLLECTOR IS BEHIND FOR ONE OF TWO REASONS: its image was pulled      *)
(* between the two pushes of a release, or a panel was started unannounced *)
(* (profile.sh:504-532, 604, update.go:44-102, release.yml:30-48).         *)
THEOREM BehindCorrect == Spec => []CollectorBehindForTwoReasons
<1>1. IInv => CollectorBehindForTwoReasons
  BY DEF IInv, BehindInv
<1> QED BY <1>1, Invariant, PTL

(* The command ends when the panel has started, an installation when the   *)
(* profile is saved.                                                       *)
LEMMA EndsWith ==
  ASSUME TypeOK, RunInv, Ends
  PROVE  \/ StartPanel /\ run.kind = "command" /\ run.pc = "start"
         \/ CopyProfile /\ run.kind = "install" /\ run.pc = "copy"
<1>1. CASE StartPanel
  BY <1>1, Starting DEF Ends, StartPanel, At
<1>2. CASE CopyProfile
  BY <1>2 DEF CopyProfile, RunInv, Active, At, Saving, Writing
<1> QED BY <1>1, <1>2 DEF Ends

(* A SCRIPT THAT ENDS LEAVES THE PANEL OF ITS PROFILE, with its token      *)
(* (profile.sh:485-502, 544-605, main.sh:58-71).                           *)
THEOREM PanelCorrect == Spec => PanelFitsRun
<1> DEFINE Fit == /\ run.kind = "command" => panel'.running
                  /\ panel'.profile = run.settings.name
                  /\ panel'.vps = vps
                  /\ panel'.port = run.port
                  /\ ~outdated => panel'.token = run.settings.token
<1>1. ASSUME IInv, Ends PROVE Fit
  <2>1. TypeOK /\ RunInv /\ TokenInv
    BY <1>1 DEF IInv
  <2>2. CASE StartPanel /\ RunPanel
    BY <2>2 DEF RunPanel
  <2>3. CASE /\ StartPanel /\ run.kind = "command"
             /\ panel # None /\ panel' = [panel EXCEPT !.running = TRUE]
    <3>1. panel \in Panel /\ run.settings \in Settings /\ run.pc = "start"
      BY <2>1, <2>3 DEF TypeOK, RunInv, Active, StartPanel, At
    <3>2. Fits(panel)
      BY <2>1, <2>3, <3>1 DEF TokenInv, PanelOfRun
    <3>3. ~outdated => panel.token = run.settings.token
      <4>1. run.settings.token # None
        BY <3>1, DeploymentAssumption DEF Settings
      <4>2. ~outdated => /\ HasToken(saved[run.settings.name])
                         /\ saved[run.settings.name].token = run.settings.token
        BY <2>1, <2>3, <3>1, <4>1 DEF TokenInv, RunIsSaved, Active, HasToken
      <4> QED BY <2>1, <2>3, <3>2, <4>2 DEF TokenInv, PanelHasToken, Fits
    <3> QED BY <2>3, <3>1, <3>2, <3>3 DEF Fits, Panel
  <2>4. CASE CopyProfile /\ run.kind = "install"
    <3>1. panel' = panel /\ run.pc = "copy"
      BY <2>4 DEF CopyProfile, At
    <3> QED BY <2>1, <2>4, <3>1
            DEF TokenInv, PanelOfRun, Fits, Saving, Writing
  <2> QED BY <1>1, <2>1, <2>2, <2>3, <2>4, EndsWith DEF StartPanel
<1>2. IInv /\ [Next]_vars => [Ends => Fit]_vars
  BY <1>1
<1> QED BY <1>2, Invariant, PTL DEF Spec, PanelFitsRun

(* What is at work when a script ends. *)
LEMMA EndOfRun ==
  ASSUME IInv, Ends
  PROVE  /\ collectors' = collectors /\ run.pc \in {"start", "copy"}
         /\ run.answer = "no" => panel'.image = run.before
         /\ run.answer = "yes" => run.latest <= panel'.image
<1>0. TypeOK /\ RunInv /\ TokenInv /\ ImageInv
  BY DEF IInv
<1>1. CASE StartPanel /\ run.kind = "command" /\ RunPanel
  <2>1. run.pc = "start" /\ panel'.image = Resolve(run.image)
    BY <1>1 DEF StartPanel, At, RunPanel
  <2>2. Tag \notin Versions
    BY DeploymentAssumption DEF Versions
  <2>3. run.answer = "no" => run.image = run.before /\ run.before # Tag
    BY <1>0, <2>1, <2>2 DEF RunInv, Active
  <2>4. run.answer = "yes" => /\ run.image = Tag /\ tag # None
                              /\ run.latest <= tag
    <3>1. run.latest \in Versions => run.latest # None
      BY DeploymentAssumption DEF Versions
    <3> QED BY <1>0, <2>1, <3>1 DEF RunInv, Active, ImageInv, Pulled
  <2> QED BY <1>1, <2>1, <2>3, <2>4 DEF Resolve, StartPanel
<1>2. CASE /\ StartPanel /\ run.kind = "command"
           /\ panel # None /\ panel' = [panel EXCEPT !.running = TRUE]
  <2>1. run.pc = "start" /\ panel'.image = panel.image /\ collectors' = collectors
    BY <1>0, <1>2 DEF StartPanel, At, TypeOK, Panel
  <2>2. panel.image = run.before /\ run.answer # "yes"
    BY <1>0, <1>2, <2>1
       DEF ImageInv, PanelFound, PanelGone, Active, AfterRemote, Saving, Writing
  <2> QED BY <2>1, <2>2
<1>3. CASE CopyProfile
  <2>1. run.pc = "copy" /\ UNCHANGED <<panel, collectors>>
    BY <1>3 DEF CopyProfile, At
  <2> QED BY <1>0, <2>1 DEF ImageInv, PanelDone, Saving, Writing
<1> QED BY <1>0, <1>1, <1>2, <1>3, EndsWith DEF StartPanel

(* DECLINING KEEPS BOTH IMAGES (main.sh:46-57, profile.sh:515-526,         *)
(* remote.sh:117-139).                                                     *)
THEOREM DeclineCorrect == Spec => DeclineKeeps
<1>1. ASSUME IInv, Ends, run.answer = "no"
      PROVE  /\ panel'.image = run.before
             /\ run.found # None => collectors'[vps].image = run.found.image
  BY <1>1, EndOfRun
     DEF IInv, ImageInv, CollectorDone, AfterRemote, Saving, Writing
<1>2. IInv /\ [Next]_vars =>
        [Ends /\ run.answer = "no" =>
           /\ panel'.image = run.before
           /\ run.found # None =>
                collectors'[vps].image = run.found.image]_vars
  BY <1>1
<1> QED BY <1>2, Invariant, PTL DEF Spec, DeclineKeeps

(* ACCEPTING UPDATES WHAT IS PUBLISHED: the collector too, unless its      *)
(* release was not complete when it was pulled (profile.sh:341-367,        *)
(* 515-526, remote.sh:117-204, release.yml:30-48).                         *)
THEOREM AcceptCorrect == Spec => AcceptUpdatesBoth
<1>1. ASSUME IInv, Ends, run.answer = "yes"
      PROVE  /\ panel'.image >= run.latest
             /\ \/ collectors'[vps].image >= run.latest
                \/ collectors'[vps].outrun
  <2>1. /\ run.latest <= panel'.image
        /\ \/ run.latest <= collectors'[vps].image
           \/ collectors'[vps].outrun
    BY <1>1, EndOfRun
       DEF IInv, ImageInv, CollectorDone, AfterRemote, Saving, Writing
  <2> QED BY <2>1
<1>2. IInv /\ [Next]_vars =>
        [Ends /\ run.answer = "yes" =>
           /\ panel'.image >= run.latest
           /\ \/ collectors'[vps].image >= run.latest
              \/ collectors'[vps].outrun]_vars
  BY <1>1
<1> QED BY <1>2, Invariant, PTL DEF Spec, AcceptUpdatesBoth

=============================================================================
