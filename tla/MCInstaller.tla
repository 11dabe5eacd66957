----------------------------- MODULE MCInstaller -----------------------------
EXTENDS Installer

CONSTANTS install, config, docs, cpu, built, pinned, weights, mounted, twin

MCPaths == {install, config, docs}
MCTwoPaths == {install, config}
\* docs disappears from the second release.
MCHolds == [v \in 1..MaxVersion |-> IF v = 1 THEN Paths ELSE {install, config}]
MCProfiles == {cpu, built, pinned}
MCFiles == {weights, mounted, twin}
MCRank == [x \in Paths \cup Profiles \cup Files |->
           IF x \in {install, cpu, weights} THEN 1 ELSE IF x \in {config, built, mounted} THEN 2 ELSE 3]
\* The second tag of the cpu profile has no server in its archive.
MCLacks == {<<cpu, 2>>}
=============================================================================
