---------------------------- MODULE MCGitBackup ----------------------------
(* Two machines; on one of them a sync and a read of the server meet. Its  *)
(* own rows are in two files, in one beside the row of the other machine.  *)
EXTENDS GitBackup, TLC

CONSTANTS a, b, sa, sb, ua, r1, r2, r3, tweets, likes

TwoMachines == {a, b}
Found == {{r1, r3}, {r2}}
SourceOf == (r1 :> a) @@ (r2 :> b) @@ (r3 :> a)
ShardOf == (r1 :> tweets) @@ (r2 :> tweets) @@ (r3 :> likes)
HostOf == (sa :> a) @@ (sb :> b) @@ (ua :> a)
=============================================================================
