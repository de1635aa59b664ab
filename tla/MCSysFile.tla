----------------------------- MODULE MCSysFile ------------------------------
(* SysFile for TLC: two processes, two names, three inodes, one open file. *)
EXTENDS SysFile

CONSTANTS p1, p2

Call(f, path) == [NoCall EXCEPT !.f = f, !.path = path]

MCCalls ==
  p1 :> {Call("mkdir", <<"/", "a">>), Call("chdir", <<"/", "a">>), Call("creat", <<"b">>),
         Call("chdir", <<"/", "a", "b", "..">>),
         [Call("link", <<"/", "a", "b">>) EXCEPT !.new = <<"/", "b">>]} @@
  p2 :> {Call("unlink", <<"a">>), Call("unlink", <<"a", "b">>),
         Call("mkdir", <<"a", "b">>), Call("mknod", <<"a">>), Call("exec", <<"a">>), Call("unlink", <<"a", ".">>),
         [Call("open", <<"a">>) EXCEPT !.write = TRUE]}
=============================================================================
