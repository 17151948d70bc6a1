----------------------------- MODULE SelfUpdate -----------------------------
(***************************************************************************)
(* Several runs of the self-update command over one installed binary while *)
(* releases are published (cmd/selfupdate.go runSelfUpdate). A binary is   *)
(* the number of its version, Forged for a download that is not what CI    *)
(* built and signed. The go-selfupdate library and Install are external:   *)
(* DetectLatest reads the newest release, Install downloads, verifies and  *)
(* renames. A run may be killed at any point.                              *)
(***************************************************************************)
EXTENDS Integers

CONSTANTS
  Runs,     \* runs of the command
  Releases  \* how many releases may be published

Versions == 0 .. Releases \* 0 is a development build
Forged == -1

VARIABLES
  exe,       \* the installed binary
  published, \* the newest release
  bundled,   \* the releases published with a signature bundle
  run,       \* per run: [at, current, latest, got, said]
  installed  \* history: the binaries every run renamed into place

vars == <<exe, published, bundled, run, installed>>

Idle == [at |-> "off", current |-> 0, latest |-> 0, got |-> 0, said |-> "nothing"]

Init ==
  /\ exe \in {0, 1}
  /\ published = 1 /\ bundled \in SUBSET {1}
  /\ run = [r \in Runs |-> Idle]
  /\ installed = [r \in Runs |-> {}]

\* A later version is released, its bundle perhaps missing.
Publish ==
  /\ published < Releases
  /\ published' = published + 1
  /\ bundled' \in {bundled, bundled \cup {published + 1}}
  /\ UNCHANGED <<exe, run, installed>>

Become(r, s) == run' = [run EXCEPT ![r] = s]
Says(r, said) == Become(r, [run[r] EXCEPT !.at = "over", !.said = said])

\* The command starts from the binary installed at that moment.
Start(r) ==
  /\ run[r].at = "off"
  /\ Become(r, [run[r] EXCEPT !.at = "started", !.current = exe])
  /\ UNCHANGED <<exe, published, bundled, installed>>

\* A development version has no number to compare.
Refuse(r) ==
  /\ run[r].at = "started" /\ run[r].current = 0
  /\ Says(r, "refused")
  /\ UNCHANGED <<exe, published, bundled, installed>>

\* DetectLatest fails, finds no release, or finds one without its bundle.
DetectFails(r) ==
  /\ run[r].at = "started" /\ run[r].current # 0
  /\ Says(r, "refused")
  /\ UNCHANGED <<exe, published, bundled, installed>>

\* Mutant of GreaterThan: a release of the same version is installed again.
GreaterThanOrSame(latest, current) == latest >= current

GreaterThan(latest, current) == latest > current

\* The latest release, and whether it is newer than the version running; the
\* path of the executable may not be found.
DetectLatest(r) ==
  /\ run[r].at = "started" /\ run[r].current # 0
  /\ published \in bundled
  /\ IF GreaterThan(published, run[r].current)
     THEN \/ Become(r, [run[r] EXCEPT !.at = "found", !.latest = published])
          \/ Says(r, "refused")
     ELSE Says(r, "latest")
  /\ UNCHANGED <<exe, published, bundled, installed>>

\* Install: what arrives is the release or something else, or nothing does.
Download(r) ==
  /\ run[r].at = "found"
  /\ \/ \E got \in {run[r].latest, Forged} :
          Become(r, [run[r] EXCEPT !.at = "downloaded", !.got = got])
     \/ Says(r, "unchanged")
  /\ UNCHANGED <<exe, published, bundled, installed>>

\* Mutant of Verifies: no validator is configured.
VerifiesAnything(r) == TRUE

\* The bundle verifies for a build of this repository.
Verifies(r) == run[r].got # Forged

\* One rename over the binary, or an error before it.
Rename(r) ==
  /\ run[r].at = "downloaded"
  /\ \/ /\ Verifies(r)
        /\ exe' = run[r].got
        /\ installed' = [installed EXCEPT ![r] = @ \cup {run[r].got}]
        /\ Says(r, "updated")
     \/ Says(r, "unchanged") /\ UNCHANGED <<exe, installed>>
  /\ UNCHANGED <<published, bundled>>

Killed(r) ==
  /\ run[r].at \notin {"off", "over"}
  /\ Become(r, [run[r] EXCEPT !.at = "over"])
  /\ UNCHANGED <<exe, published, bundled, installed>>

Next ==
  \/ Publish
  \/ \E r \in Runs : \/ Start(r) \/ Refuse(r) \/ DetectFails(r) \/ DetectLatest(r)
                     \/ Download(r) \/ Rename(r) \/ Killed(r)

Spec == Init /\ [][Next]_vars

-----------------------------------------------------------------------------
(* Properties *)

\* Whatever runs at once, fails or is killed, the installed binary is one
\* that was there at the start or a published release that verified against
\* its bundle: never a download that did not, never one without a bundle.
OnlyVerified ==
  /\ exe \in Versions
  /\ \A r \in Runs : installed[r] \subseteq bundled

\* What a run tells is true of its own doing: "unchanged" and the refusals
\* left the file as it was, "updated" replaced it, with a version newer than
\* the one that ran.
ReportsTrue ==
  \A r \in Runs :
    /\ run[r].said \in {"refused", "unchanged", "latest"} => installed[r] = {}
    /\ run[r].said = "updated" => installed[r] # {}
    /\ \A v \in installed[r] : run[r].current # 0 /\ v > run[r].current
=============================================================================
