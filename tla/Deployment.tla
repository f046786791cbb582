----------------------------- MODULE Deployment -----------------------------
(***************************************************************************)
(* How the installer (scripts/installer) and the installed command         *)
(* amnezia-panel (written by scripts/installer/profile.sh) bring up and    *)
(* update the parts of the system: the panel's container on the user's     *)
(* machine, the collector's container on the VPS of each profile, and the  *)
(* one SSH tunnel between them.                                            *)
(*                                                                         *)
(* The user runs one script at a time.  A script may stop at any step (a   *)
(* command fails under set -e, or the user interrupts it), and while it    *)
(* runs new images are published, the panel's before the collector's, the  *)
(* panel's hourly update check pulls them, and the tunnel breaks.          *)
(***************************************************************************)
EXTENDS Naturals

CONSTANTS
  Profiles,     \* names of connection profiles
  Default,      \* the name "default"
  VPSs,         \* hosts
  Ports,        \* ports of the local web UI
  Tag,          \* the image a repository tag stands for when it is used
  None,
  Tokens,       \* the tokens that are generated
  MaxVersion,   \* bound: releases, each of the two images
  MaxHalves     \* bound: scripts that stop while they save a profile

ASSUME DeploymentAssumption ==
  /\ MaxVersion \in Nat \ {0} /\ MaxHalves \in Nat
  /\ Tag \notin 1..MaxVersion /\ None \notin 1..MaxVersion \union {Tag}
  /\ None \notin Profiles \union VPSs \union Tokens \union {"yes", "no"}
  /\ None \notin [name : Profiles, vps : VPSs \union {None},
                  token : Tokens \union {None}]

VARIABLES
  published,    \* the versions of the two images the registry hands out
  tag,          \* the version the local tag REPO_IMAGE stands for
  panel,        \* the local container
  collectors,   \* the collector's container on every VPS
  socket,       \* the host of the ssh that answers at the control socket
  saved,        \* the profiles in profiles/
  legacy,       \* profile.env, a copy of the profile saved last
  run,          \* the script that runs
  \* history
  issued,       \* the tokens generated so far
  unannounced,  \* a script started an image that it had not announced and
                \* that it had not found at work with the same VPS
  outdated,     \* the command ran with a copy of a profile that did not
                \* store the same token any more
  halves        \* number of scripts that stopped while they saved a profile

local == <<tag, panel, socket, saved, legacy>>
history == <<issued, unannounced, outdated, halves>>
vars == <<published, collectors, local, run, history>>

Versions == 1..MaxVersion

Panel == [image : Versions, profile : Profiles, vps : VPSs,
          token : Tokens, port : Ports, running : BOOLEAN]
Collector ==
  [image : Versions, outrun : BOOLEAN, token : Tokens, by : Profiles]
Settings == [name : Profiles, vps : VPSs, token : Tokens]

(* A profile may be half written, see SaveProfile. *)
Stored == [name : Profiles, vps : VPSs \union {None},
           token : Tokens \union {None}]

(* A collector's image is outrun (history) when it was pulled while a      *)
(* newer version of the panel was published already.                       *)
CollectorImages == [image : Versions, outrun : BOOLEAN]

(* A script: what it was asked for, the image it found running, the image  *)
(* it pulled, what the user said to it, the image it will run, the image   *)
(* of the collector it found and, as history, the VPS the panel it found   *)
(* was with.                                                               *)
Run ==
  [pc : {"idle", "pull", "ask", "remote", "collector", "remove",
         "tunnel", "discard", "start", "save", "token", "host", "copy"},
   kind : {"install", "command", None},
   settings : Settings \union {None}, port : Ports \union {None},
   before : Versions \union {None}, latest : Versions \union {None},
   answer : {"yes", "no", None}, image : Versions \union {Tag, None},
   found : CollectorImages \union {None},
   with : VPSs \union {None}]

Idle == [pc |-> "idle", kind |-> None, settings |-> None, port |-> None,
         before |-> None, latest |-> None, answer |-> None, image |-> None,
         found |-> None, with |-> None]

At(pc) == run.pc = pc
Goto(pc) == run' = [run EXCEPT !.pc = pc]

vps == run.settings.vps
ImageOf(container) == IF container = None THEN None ELSE container.image
CollectorImageOf(container) ==
  IF container = None THEN None
  ELSE [image |-> container.image, outrun |-> container.outrun]

-----------------------------------------------------------------------------
Init ==
  /\ published = [panel |-> 1, collector |-> 1]
  /\ tag = None /\ panel = None /\ socket = None
  /\ saved = [p \in Profiles |-> None] /\ legacy = None
  /\ collectors = [v \in VPSs |-> None]
  /\ run = Idle
  /\ issued = {} /\ unannounced = FALSE /\ outdated = FALSE /\ halves = 0

Begin(kind, settings, port, pc) ==
  run' = [Idle EXCEPT !.pc = pc, !.kind = kind, !.settings = settings,
                      !.port = port, !.before = ImageOf(panel), !.image = Tag,
                      !.found = CollectorImageOf(collectors[settings.vps]),
                      !.with = IF panel = None THEN None ELSE panel.vps]

(* The command sources the profile, which names itself: "default" without  *)
(* a file of its own stands for the profile saved last.                    *)
StoredSettings(p) ==
  IF saved[p] = None /\ p = Default THEN legacy ELSE saved[p]

HasHost(stored) == stored # None /\ stored.vps # None
HasToken(stored) == stored # None /\ stored.token # None

(* Mutant: every installation makes a token of its own. *)
TokenAlwaysFresh(stored) == Tokens \ issued

(* The installer keeps the token of a profile it loads, if it has one. *)
InstallToken(stored) ==
  IF HasToken(stored) THEN {stored.token} ELSE Tokens \ issued

(* run_install up to step 4.  It asks only for what no profile says. *)
StartInstall(p, v, port) ==
  /\ At("idle")
  /\ HasHost(StoredSettings(p)) => v = StoredSettings(p).vps
  /\ \E token \in InstallToken(StoredSettings(p)) :
       /\ Begin("install", [name |-> p, vps |-> v, token |-> token], port,
                "pull")
       /\ issued' = issued \union {token}
  /\ UNCHANGED <<published, collectors, local, unannounced, outdated, halves>>

(* The command, with or without --no-update-check.  It stops when the      *)
(* profile does not say what it needs (set -u).                            *)
StartCommand(p, port, check) ==
  /\ At("idle")
  /\ HasHost(StoredSettings(p))
  /\ Begin("command", StoredSettings(p), port,
           IF check THEN "pull" ELSE "tunnel")
  /\ LET stored == StoredSettings(p)
     IN  outdated' = (outdated \/ saved[stored.name].token # stored.token)
  /\ UNCHANGED <<published, collectors, local, issued, unannounced, halves>>

(* docker pull moves the tag.  There is a question to ask when a panel of  *)
(* another image is installed.                                             *)
Pull ==
  /\ At("pull")
  /\ tag' = published.panel
  /\ run' = [run EXCEPT !.latest = published.panel,
                        !.pc = IF run.before \notin {None, published.panel}
                               THEN "ask"
                               ELSE IF run.kind = "install" THEN "remote"
                               ELSE "tunnel"]
  /\ UNCHANGED <<published, collectors, panel, socket, saved, legacy, history>>

(* The pull fails or takes too long: the installer stops, see Stop, and    *)
(* the command goes on with the image it has.                              *)
PullFails ==
  /\ At("pull")
  /\ run.kind = "command"
  /\ run' = [run EXCEPT !.pc = "tunnel",
                        !.image = IF run.before = None THEN Tag
                                  ELSE run.before]
  /\ UNCHANGED <<published, collectors, local, history>>

(* Mutant: a declined update is only declined for the collector. *)
AnswerForCollector(yes) ==
  /\ At("ask")
  /\ run' = [run EXCEPT
       !.answer = IF yes THEN "yes" ELSE "no",
       !.pc = IF yes \/ run.kind = "install" THEN "remote" ELSE "tunnel"]
  /\ UNCHANGED <<published, collectors, local, history>>

(* Mutant: the command does not update the collector. *)
AnswerForPanel(yes) ==
  /\ At("ask")
  /\ run' = [run EXCEPT
       !.answer = IF yes THEN "yes" ELSE "no",
       !.image = IF yes THEN Tag ELSE run.before,
       !.pc = IF run.kind = "install" THEN "remote"
              ELSE IF yes THEN "remove" ELSE "tunnel"]
  /\ UNCHANGED <<published, collectors, local, history>>

Answer(yes) ==
  /\ At("ask")
  /\ run' = [run EXCEPT
       !.answer = IF yes THEN "yes" ELSE "no",
       !.image = IF yes THEN Tag ELSE run.before,
       !.pc = IF yes \/ run.kind = "install" THEN "remote" ELSE "tunnel"]
  /\ UNCHANGED <<published, collectors, local, history>>

-----------------------------------------------------------------------------
(* On the VPS: install_remote_collector and update_remote_collector remove *)
(* the collector before they pull the image of the next one.               *)

RemoveCollector ==
  /\ At("remote")
  /\ collectors' = [collectors EXCEPT ![vps] = None]
  /\ Goto("collector")
  /\ UNCHANGED <<published, local, history>>

LatestCollector == [image  |-> published.collector,
                    outrun |-> published.collector < published.panel]

(* Mutant: a collector that is there keeps its image. *)
CollectorImageKept == IF run.found # None THEN run.found ELSE LatestCollector

(* Only the installer, and only when the user declined, starts the image   *)
(* it found; everything else pulls the latest one.                         *)
CollectorImage ==
  IF run.answer = "no" /\ run.found # None THEN run.found ELSE LatestCollector

StartCollector ==
  /\ At("collector")
  /\ collectors' = [collectors EXCEPT
       ![vps] = [image |-> CollectorImage.image,
                 outrun |-> CollectorImage.outrun,
                 token |-> run.settings.token, by |-> run.settings.name]]
  /\ Goto(IF run.kind = "command" THEN "remove" ELSE "tunnel")
  /\ UNCHANGED <<published, local, history>>

(* Having updated the collector, the command removes the local panel. *)
RemovePanel ==
  /\ At("remove")
  /\ panel' = None
  /\ Goto("tunnel")
  /\ UNCHANGED <<published, collectors, tag, socket, saved, legacy, history>>

-----------------------------------------------------------------------------
(* The tunnel.  All profiles share one control socket, and ssh -O check    *)
(* asks the master behind it, whatever host it is connected to.  A socket  *)
(* that a dead ssh left behind does not answer and is as good as none.     *)

TunnelAnswers == socket # None

(* The command keeps a tunnel that answers, and otherwise opens one. *)
KeepTunnel ==
  /\ At("tunnel")
  /\ run.kind = "command" /\ TunnelAnswers
  /\ Goto("discard")
  /\ UNCHANGED <<published, collectors, local, history>>

(* The installer closes the tunnel it finds. *)
OpenTunnel ==
  /\ At("tunnel")
  /\ ~(run.kind = "command" /\ TunnelAnswers)
  /\ socket' = vps
  /\ Goto("discard")
  /\ UNCHANGED <<published, collectors, tag, panel, saved, legacy, history>>

-----------------------------------------------------------------------------
(* The local panel.                                                        *)

(* Mutant: the command does not look at the label amnezia.panel.profile. *)
FitsSomeProfile(container) ==
  /\ container.port = run.port
  /\ container.vps = vps

(* The command recreates a panel of another profile, on another port or    *)
(* with another host for the administration of clients.                    *)
Fits(container) ==
  /\ container.profile = run.settings.name
  /\ container.port = run.port
  /\ container.vps = vps

(* docker port fails for a panel that is stopped, and the command with it. *)
Discard ==
  /\ At("discard")
  /\ run.kind = "command" /\ panel # None /\ panel.profile = run.settings.name
       => panel.running
  /\ panel' = IF /\ run.kind = "command" /\ panel # None /\ Fits(panel)
              THEN panel ELSE None
  /\ Goto("start")
  /\ UNCHANGED <<published, collectors, tag, socket, saved, legacy, history>>

(* Mutant: docker run does not pull what is not there. *)
ResolveLocally(image) == IF image = Tag THEN tag ELSE image

(* docker run pulls what is not there. *)
Resolve(image) ==
  IF image # Tag THEN image ELSE IF tag # None THEN tag ELSE published.panel

(* The image this script pulled, when it pulls the collector's as well. *)
Announced(version) ==
  version = run.latest /\ (run.kind = "install" \/ run.answer = "yes")

RunPanel ==
  LET version == Resolve(run.image)
  IN  /\ panel = None
      /\ panel' = [image |-> version, profile |-> run.settings.name,
                   vps |-> vps, token |-> run.settings.token,
                   port |-> run.port, running |-> TRUE]
      /\ tag' = IF run.image = Tag THEN version ELSE tag
      /\ unannounced' =
           \/ unannounced
           \/ /\ version # run.before \/ vps # run.with
              /\ ~Announced(version)

StartPanel ==
  /\ At("start")
  /\ \/ RunPanel
     \/ /\ panel # None
        /\ panel' = [panel EXCEPT !.running = TRUE]
        /\ UNCHANGED <<tag, unannounced>>
  /\ run' = IF run.kind = "install" THEN [run EXCEPT !.pc = "save"] ELSE Idle
  /\ UNCHANGED <<published, collectors, socket, saved, legacy, issued,
                 outdated, halves>>

(* save_profile, once the panel is seen running: it truncates the profile, *)
(* appends its lines, the token before the settings of the VPS, and copies *)
(* the whole.  A script that stops in between leaves half a profile.       *)

WriteProfile(pc, profile) ==
  /\ saved' = [saved EXCEPT ![run.settings.name] = profile]
  /\ Goto(pc)
  /\ UNCHANGED <<published, collectors, tag, panel, socket, legacy, history>>

SaveProfile ==
  /\ At("save")
  /\ panel.running
  /\ WriteProfile("token", [run.settings EXCEPT !.vps = None, !.token = None])

SaveToken ==
  /\ At("token")
  /\ WriteProfile("host", [run.settings EXCEPT !.vps = None])

SaveHost ==
  /\ At("host")
  /\ WriteProfile("copy", run.settings)

CopyProfile ==
  /\ At("copy")
  /\ legacy' = run.settings
  /\ run' = Idle
  /\ UNCHANGED <<published, collectors, tag, panel, socket, saved, history>>

(* A command of the script fails, or the user interrupts it. *)
Stop ==
  /\ ~At("idle")
  /\ run' = Idle
  /\ halves' = IF run.pc \in {"token", "host", "copy"} THEN halves + 1
               ELSE halves
  /\ halves' <= MaxHalves
  /\ UNCHANGED <<published, collectors, local, issued, unannounced, outdated>>

-----------------------------------------------------------------------------
(* Around the scripts.                                                     *)

(* A release pushes the panel's image and then builds and pushes that of   *)
(* the collector, which may fail or come after the panel of a later one.   *)
PublishPanel ==
  /\ published.panel < MaxVersion
  /\ published' = [published EXCEPT !.panel = @ + 1]
  /\ UNCHANGED <<collectors, local, run, history>>

PublishCollector ==
  /\ \E version \in published.collector + 1 .. published.panel :
       published' = [published EXCEPT !.collector = version]
  /\ UNCHANGED <<collectors, local, run, history>>

(* The panel's update check pulls the image into the local tag. *)
UpdateCheck ==
  /\ panel # None /\ panel.running
  /\ tag' = published.panel
  /\ UNCHANGED <<published, collectors, panel, socket, saved, legacy, run,
                 history>>

(* The ssh of the tunnel ends. *)
TunnelBreaks ==
  /\ TunnelAnswers
  /\ socket' = None
  /\ UNCHANGED <<published, collectors, tag, panel, saved, legacy, run,
                 history>>

PanelStops ==
  /\ panel # None /\ panel.running
  /\ panel' = [panel EXCEPT !.running = FALSE]
  /\ UNCHANGED <<published, collectors, tag, socket, saved, legacy, run,
                 history>>

(* scripts/uninstall.sh; the tunnel, the profiles and the collectors stay. *)
Uninstall ==
  /\ At("idle")
  /\ panel' = None /\ tag' = None
  /\ UNCHANGED <<published, collectors, socket, saved, legacy, run,
                 history>>

Next ==
  \/ \E p \in Profiles, v \in VPSs, port \in Ports : StartInstall(p, v, port)
  \/ \E p \in Profiles, port \in Ports, check \in BOOLEAN :
       StartCommand(p, port, check)
  \/ Pull \/ PullFails
  \/ \E yes \in BOOLEAN : Answer(yes)
  \/ RemoveCollector \/ StartCollector \/ RemovePanel
  \/ KeepTunnel \/ OpenTunnel
  \/ Discard \/ StartPanel
  \/ SaveProfile \/ SaveToken \/ SaveHost \/ CopyProfile
  \/ Stop
  \/ PublishPanel \/ PublishCollector
  \/ UpdateCheck \/ TunnelBreaks \/ PanelStops \/ Uninstall

Spec == Init /\ [][Next]_vars

-----------------------------------------------------------------------------
(* TYPE INVARIANT. Every component has its type; above all, an image that  *)
(* a container runs is a version and never the unresolved tag              *)
(* (profile.sh:581-604).                                                   *)
TypeOK ==
  /\ published \in [panel : Versions, collector : Versions]
  /\ tag \in Versions \union {None}
  /\ panel \in Panel \union {None}
  /\ collectors \in [VPSs -> Collector \union {None}]
  /\ socket \in VPSs \union {None}
  /\ saved \in [Profiles -> Stored \union {None}]
  /\ legacy \in Settings \union {None}
  /\ run \in Run
  /\ issued \subseteq Tokens /\ unannounced \in BOOLEAN
  /\ outdated \in BOOLEAN /\ halves \in 0..MaxHalves

(* A script ends without an error. *)
Ends == run'.pc = "idle" /\ (StartPanel \/ CopyProfile)

(* A SCRIPT THAT ENDS LEAVES THE PANEL OF ITS PROFILE. The panel has the   *)
(* label, the port, the administered host and the token of the profile the *)
(* script was started with, and runs when it was the command, though the   *)
(* command compares only the first three of a panel it finds and the       *)
(* scripts before it stopped anywhere, while they saved the profile too.   *)
(* The token is an exception once the command has run on profile.env when  *)
(* the profile itself did not store that token any more (profile.sh:10-72, *)
(* 485-502, 544-605, local.sh:54-97, main.sh:58-71).                       *)
PanelFitsRun ==
  [][Ends => /\ run.kind = "command" => panel'.running
             /\ panel'.profile = run.settings.name
             /\ panel'.vps = vps
             /\ panel'.port = run.port
             /\ ~outdated => panel'.token = run.settings.token]_vars

(* THE TOKENS AGREE. A collector that a profile installed expects the      *)
(* token that profile stores, never that of an installation which stopped  *)
(* before it was saved, or while it was: unless the command has run on     *)
(* profile.env when the profile itself did not store that token any more   *)
(* (main.sh:24-30, 58-71, profile.sh:10-72, 171-187, remote.sh:117-204).   *)
TokensAgree ==
  ~outdated =>
    \A p \in Profiles :
      LET host == saved[p].vps
      IN  /\ HasHost(saved[p])
          /\ collectors[host] # None /\ collectors[host].by = p
          => collectors[host].token = saved[p].token

(* DECLINING KEEPS BOTH IMAGES. After a script in which the user declined  *)
(* the update, the panel has the image it had, and so has the collector if *)
(* there was one, even when either is recreated for another reason         *)
(* (main.sh:46-57, profile.sh:515-526, remote.sh:117-139).                 *)
DeclineKeeps ==
  [][Ends /\ run.answer = "no" =>
       /\ panel'.image = run.before
       /\ run.found # None => collectors'[vps].image = run.found.image]_vars

(* ACCEPTING UPDATES WHAT IS PUBLISHED. After a script in which the user   *)
(* accepted the update, the panel is at least as new as the image that was *)
(* announced, and so is the collector of its VPS, unless the release had   *)
(* not pushed the collector when it was pulled (profile.sh:341-367,        *)
(* 515-526, remote.sh:117-204, release.yml:30-48).                         *)
AcceptUpdatesBoth ==
  [][Ends /\ run.answer = "yes" =>
       /\ panel'.image >= run.latest
       /\ \/ collectors'[vps].image >= run.latest
          \/ collectors'[vps].outrun]_vars

(* A COLLECTOR IS BEHIND FOR ONE OF TWO REASONS. It is older than the      *)
(* panel it serves only if its image was pulled between the two pushes of  *)
(* a release, or if some script started an image that it had neither       *)
(* announced nor found at work with that VPS: the command without an       *)
(* update check, or after the panel's own check had moved the tag, or      *)
(* after an update made with the profile of another VPS (profile.sh:504-   *)
(* 532, 604, update.go:44-102, release.yml:30-48).                         *)
CollectorBehindForTwoReasons ==
  panel # None /\ collectors[panel.vps] # None /\ ~unannounced =>
    \/ panel.image <= collectors[panel.vps].image
    \/ collectors[panel.vps].outrun

(* THE TUNNEL LEADS TO THE PROFILE'S VPS, as README.md:67 says of running  *)
(* the command: it starts the saved SSH tunnel. The code keeps the tunnel  *)
(* of another profile (profile.sh:535-542).                                *)
TunnelFollowsProfile ==
  [][Ends /\ socket' # None => socket' = vps]_vars
=============================================================================
