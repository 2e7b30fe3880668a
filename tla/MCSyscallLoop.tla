---------------------------- MODULE MCSyscallLoop ----------------------------
(* Instances of SyscallLoop for TLC. *)
EXTENDS SyscallLoop

\* A kernel with the seccomp-stop behind the entry-stop, and one before 4.8.
MCReleases == {<<5, 4>>, <<4, 4>>}
=============================================================================
