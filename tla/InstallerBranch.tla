--------------------------- MODULE InstallerBranch ---------------------------
(***************************************************************************)
(* Which branch a device installs: an installer names one, which is        *)
(* migrated to the branch of the device type.  The migration exists twice  *)
(* (custom_install.go), in Go, where only a test calls it, and in the      *)
(* Python text that runs on the device.                                    *)
(***************************************************************************)
\* The Go copy: a switch over the branch within one over the device type.
MigrateInstallerBranch(branch, deviceType) ==
  CASE deviceType = "tici" ->
         (CASE branch \in {"release3", "release-tici", "release3-staging", "nightly",
                           "nightly-dev"} -> "release-tici"
            [] branch = "master" -> "master-tici"
            [] OTHER -> branch)
    [] deviceType = "tizi" ->
         (CASE branch = "release3" -> "release-tizi"
            [] branch = "release3-staging" -> "release-tizi-staging"
            [] OTHER -> branch)
    [] deviceType = "mici" ->
         (CASE branch = "release3" -> "release-mici"
            [] branch = "release3-staging" -> "release-mici-staging"
            [] OTHER -> branch)
    [] OTHER -> branch

\* The Python copy: the first condition that holds returns.
Migrate(branch, device_type) ==
  IF device_type = "tici" /\ branch \in {"release3", "release-tici", "release3-staging",
                                         "nightly", "nightly-dev"}
  THEN "release-tici"
  ELSE IF device_type = "tici" /\ branch = "master" THEN "master-tici"
  ELSE IF device_type = "tizi" /\ branch = "release3" THEN "release-tizi"
  ELSE IF device_type = "tizi" /\ branch = "release3-staging" THEN "release-tizi-staging"
  ELSE IF device_type = "mici" /\ branch = "release3" THEN "release-mici"
  ELSE IF device_type = "mici" /\ branch = "release3-staging" THEN "release-mici-staging"
  ELSE branch
=============================================================================
