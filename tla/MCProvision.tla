----------------------------- MODULE MCProvision -----------------------------
EXTENDS Provision

CONSTANTS vulkan, built, cpu

\* A raw download, a source build and a release.
MCVariants == {vulkan, built, cpu}
MCSourceType == [n \in Variants |-> CASE n = vulkan -> "direct_url"
                                      [] n = built -> "git"
                                      [] n = cpu -> "github_release"]
MCBackend == [n \in Variants |-> IF n = cpu THEN "cpu" ELSE "vulkan"]
\* All come and go; the release is listed at another version than the built-in one.
MCListed == [n \in Variants |-> CASE n = vulkan -> {0, 2} [] n = built -> {0, 1} [] n = cpu -> {0, 2}]
MCHardware == {{"gpu"}}
=============================================================================
