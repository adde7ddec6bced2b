--------------------------- MODULE MCUpdateImage ---------------------------
(* Small instances of UpdateImage: one or two images, two versions of the
   sysroot of which one may be a legacy one, and the plans that are used.     *)
EXTENDS UpdateImage, TLC

CONSTANTS i1, i2, v1, v2

OneImage == {i1}
TwoImages == {i1, i2}
OneVersion == {v1}
TwoVersions == {v1, v2}
OneLegacy == {v1}
Nobody == {}

DefaultPlan == {Default}
WholePlans == {Default, <<"remake">>}
Separately == {<<"mount">>, <<"update-fs">>, <<"unmount">>}
AllPlans == WholePlans \cup Separately

AllMethods == Elevated \cup Fuse
FuseMethods == Fuse
OneMethod == {"fuse2fs"}
AllCommands == Command
\* Every step but those in which a mount exists that is not recorded.
RecordedOnly == Command \ {"mounting", "esp", "record"}
NotRecord == Command \ {"record"}
=============================================================================
