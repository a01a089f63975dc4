--------------------------- MODULE MCUpdateFeed ---------------------------
(***************************************************************************)
(* Two builds, the first packaged twice, attached by two jobs at a time.    *)
(***************************************************************************)
EXTENDS UpdateFeed, TLC

CONSTANTS j1, j2

MCBuilds == 1..2
MCPlatforms == {"linux", "macos"}
MCArchs == 1..2
MCLinuxFlaws ==
  <<"formats differ", "not as qualified", "wrong key", "unsigned rpm",
    "payload changed", "checksums not signed", "other signer",
    "failed producer", "other identity", "other channel", "modified source",
    "other digest", "unsigned differs", "fixture missing">>
MCMacosFlaws ==
  <<"failed producer", "other identity", "other channel", "modified source",
    "inventories differ", "not notarized", "other digest">>

\* Three sound runs, and for every flaw one whose last architecture has it.
MCSoundRuns == <<1, 1, 2>>
MCFlawed(p) == IF p = "linux" THEN MCLinuxFlaws ELSE MCMacosFlaws
MCRuns == 1..(3 + Len(MCLinuxFlaws))
MCRunBuild == [r \in MCRuns |-> IF r <= 3 THEN MCSoundRuns[r] ELSE 1]
MCEvidence ==
  [r \in MCRuns |-> [p \in MCPlatforms |-> [a \in MCArchs |->
     IF r > 3 /\ a = 2 THEN MCFlawed(p)[((r - 4) % Len(MCFlawed(p))) + 1]
     ELSE "sound"]]]

MCJobs == {j1, j2}
JobSymmetry == Permutations(MCJobs)

\* The platforms share no asset, job or object: TLC follows one at a time.
Touched(p) ==
  \/ \E b \in Builds, n \in Parts : assets[b][p][n] # None
  \/ \E j \in Jobs : job[j].at # Idle /\ job[j].platform = p
  \/ \E x \in attached : x[1] = p
OnePlatform == Cardinality({p \in Platforms : Touched(p)}) <= 1

\* A re-run that finds its release public only deletes others.  The platforms
\* differ in nothing it touches, and TLC follows it for macOS, whose appcasts
\* read the releases, while no attachment is under way, and does not let what it
\* deleted be created again once an attachment to it had succeeded.
Deletes == published' \subseteq published /\ published' # published
ReRuns ==
  /\ Deletes => ~Touched("linux") /\ \A j \in Jobs : job[j].at = Idle
  /\ \A b \in published' \ published : \A x \in attached : RunBuild[x[2]] # b

MCSpec == Init /\ [][Next /\ OnePlatform' /\ ReRuns]_vars
=============================================================================
