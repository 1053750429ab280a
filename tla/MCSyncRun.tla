----------------------------- MODULE MCSyncRun -------------------------------
(* A small registry for SyncRun.  Both runs write to one repository: r1 is a *)
(* whole project collapsed on it by TargetRepo, a two-platform list and then *)
(* an image under the same tag; r2 syncs that image under another tag.  The  *)
(* second image names a blob twice and shares it with the first.             *)
EXTENDS SyncRun, TLC

CONSTANTS app, v1, v2, b1, b2, amd, arm, multi, r1, r2

MCBlobsOf == (amd :> <<b1>>) @@ (arm :> <<b2, b2>>)
MCEntriesOf == multi :> <<amd, arm>>

MCItem(tag, m) == [repo |-> app, tag |-> tag, manifest |-> m]
MCSource == (r1 :> <<MCItem(v1, multi), MCItem(v1, arm)>>)
              @@ (r2 :> <<MCItem(v2, arm)>>)
=============================================================================
