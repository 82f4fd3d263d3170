------------------------------- MODULE Install -------------------------------
(***************************************************************************)
(* What 8v writes outside its commands on files: `8v init` in a project    *)
(* (Setup) and `8v upgrade` beside its own binary (Upgrade).  They share   *)
(* no file, so one of the two is looked at at a time.                      *)
(***************************************************************************)
EXTENDS MCSetup

CONSTANTS
  Upgraders, Versions, Prerelease   \* of Upgrade

ASSUME UpgradeAssumption ==
  Versions \subseteq Nat \ {0} /\ Prerelease \subseteq Versions /\ Versions # {}

VARIABLES
  exe, temp, latest, proc,   \* of Upgrade
  command                    \* which of the two

U == INSTANCE Upgrade WITH Procs <- Upgraders

AllVars == <<vars, exe, temp, latest, proc, command>>

InstallInit ==
  /\ command \in {"init", "upgrade"}
  /\ IF command = "init" THEN Init
     ELSE /\ disk = Plain /\ before = Plain /\ run = Idle /\ ended = <<>> /\ torn = {}
  /\ U!Init
  /\ command = "init" => \A v \in Versions : exe.content <= v /\ latest <= v

InstallNext ==
  \/ command = "init" /\ Next /\ UNCHANGED <<exe, temp, latest, proc, command>>
  \/ command = "upgrade" /\ U!Next /\ UNCHANGED <<vars, command>>

InstallSpec == InstallInit /\ [][InstallNext]_AllVars

-----------------------------------------------------------------------------
\* upgrade.rs:212: the binary in place can always be run, see Upgrade.
ExeRuns == U!ExeRuns

\* The binary never becomes older by itself, see Upgrade.
NeverOlder == [][U!NotOlder]_AllVars
=============================================================================
