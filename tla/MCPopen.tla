------------------------------ MODULE MCPopen ------------------------------
(* Instances of Popen for TLC.                                             *)
EXTENDS Popen, TLC

None == [kind |-> "none"]
Path == [kind |-> "path"]
Pipe == [kind |-> "pipe"]
Fd(r, w) == [kind |-> "fd", read |-> r, write |-> w]

\* stdin, stdout, stderr
Three(a, b, c) == (0 :> a) @@ (1 :> b) @@ (2 :> c)

MCRequests ==
  { Three(None, Pipe, None),
    Three(Pipe, Path, None),
    Three(None, Fd(3, 3), Fd(closed_fd, 3)),
    Three(None, Fd(3, 3), Fd(3, 3)),
    Three(Fd(3, 4), None, Path) }

MCInherited == {0..4, 1..4}

MCLimits == {0}

Symmetry == Permutations(Threads)
=============================================================================
